------------------------ MODULE AdminSessionsProofs ------------------------
(***************************************************************************)
(* Proofs about AdminSessions: types, unique names, and how long a token   *)
(* may differ from the roles of its user, for any number of users, roles   *)
(* and requests and any lifetimes.                                         *)
(***************************************************************************)
EXTENDS AdminSessions, TLAPS

\* A token that grants (or denies) the permission is at least as old as the
\* time since its user had (or lacked) it.
TokensTellTime ==
    \A u \in User :
        /\ session[u].right = "yes" => lost[u] <= session[u].age
        /\ session[u].right = "no" => lacked[u] <= session[u].age

\* Arguments a request brings along.
CallTyped(c) ==
    /\ c.pc \in {"login.sign", "refresh.read"} => c.user \in User
    /\ c.pc = "create.insert" => c.name \in Name

TableInv ==
    /\ users \in [User -> UserRow]
    /\ roles \in [Role -> {"none", "grants", "plain"}]
    /\ assigned \subseteq User \X Role
    /\ UsernamesUnique

CallsInv ==
    /\ calls \in [Slot -> CallRecord]
    /\ \A s \in Slot : CallTyped(calls[s])

SessionInv ==
    /\ session \in [User -> Pair]
    /\ lost \in [User -> 0 .. RefreshLife]
    /\ lacked \in [User -> 0 .. RefreshLife]
    /\ TokensTellTime

IInv == TableInv /\ CallsInv /\ SessionInv

-----------------------------------------------------------------------------
(* Steps that leave a part of the state alone *)

LEMMA TableStays == ASSUME TableInv, UNCHANGED table PROVE TableInv'
BY DEF TableInv, table, UsernamesUnique, Exists

LEMMA CallsStay == ASSUME CallsInv, UNCHANGED calls PROVE CallsInv'
BY DEF CallsInv

LEMMA SessionStays ==
    ASSUME SessionInv, UNCHANGED <<session, clock>> PROVE SessionInv'
BY DEF SessionInv, clock, TokensTellTime

LEMMA CallStep ==
    ASSUME CallsInv, NEW s \in Slot, NEW c \in CallRecord, CallTyped(c),
           calls' = [calls EXCEPT ![s] = c]
    PROVE  CallsInv'
BY DEF CallsInv

LEMMA ReturnStep == ASSUME CallsInv, NEW s \in Slot, Return(s) PROVE CallsInv'
<1>1. Idle \in CallRecord /\ CallTyped(Idle)
  BY DEF Idle, CallRecord, Pc, Right, CallTyped
<1> QED
  BY <1>1, CallStep DEF Return

\* A change of the tables resets clocks and lets none of them run.
LEMMA WatchStep ==
    ASSUME SessionInv, Watch, UNCHANGED session PROVE SessionInv'
<1>1. RefreshLife \in Nat
  BY ConstantsAssumption
<1>2. \A u \in User : /\ lost'[u] \in 0 .. RefreshLife /\ lost'[u] <= lost[u]
                      /\ lacked'[u] \in 0 .. RefreshLife
                      /\ lacked'[u] <= lacked[u]
  BY <1>1 DEF Watch, SessionInv
<1>3. lost' \in [User -> 0 .. RefreshLife] /\ lacked' \in [User -> 0 .. RefreshLife]
  BY <1>2 DEF Watch
<1>4. TokensTellTime'
  <2> SUFFICES ASSUME NEW u \in User
               PROVE  /\ session[u].right = "yes" => lost'[u] <= session[u].age
                      /\ session[u].right = "no" => lacked'[u] <= session[u].age
    BY DEF TokensTellTime
  <2>1. /\ session[u].age \in Nat /\ lost[u] \in Nat /\ lacked[u] \in Nat
        /\ lost'[u] \in Nat /\ lacked'[u] \in Nat
    BY <1>1, <1>2 DEF SessionInv, Pair
  <2>2. /\ session[u].right = "yes" => lost[u] <= session[u].age
        /\ session[u].right = "no" => lacked[u] <= session[u].age
    BY DEF SessionInv, TokensTellTime
  <2> QED
    BY <1>2, <2>1, <2>2
<1> QED
  BY <1>3, <1>4 DEF SessionInv

\* A new pair says what holds now, or nothing.
LEMMA SignStep ==
    ASSUME SessionInv, UNCHANGED clock, NEW u \in User, NEW right \in Right,
           right = "yes" => lost[u] = 0, right = "no" => lacked[u] = 0,
           Sign(u, right)
    PROVE  SessionInv'
<1>1. CASE UNCHANGED session
  BY <1>1, SessionStays
<1>2. CASE session' = [session EXCEPT ![u] = [right |-> right, age |-> 0]]
  <2>1. [right |-> right, age |-> 0] \in Pair
    BY ConstantsAssumption DEF Pair
  <2>2. session' \in [User -> Pair]
    BY <1>2, <2>1 DEF SessionInv
  <2>3. TokensTellTime'
    <3> SUFFICES ASSUME NEW v \in User
                 PROVE  /\ session'[v].right = "yes" => lost[v] <= session'[v].age
                        /\ session'[v].right = "no" => lacked[v] <= session'[v].age
      BY DEF TokensTellTime, clock
    <3>1. CASE v = u
      BY <1>2, <3>1 DEF SessionInv
    <3>2. CASE v # u
      BY <1>2, <3>2 DEF SessionInv, TokensTellTime
    <3> QED
      BY <3>1, <3>2
  <2> QED
    BY <2>2, <2>3 DEF SessionInv, clock
<1> QED
  BY <1>1, <1>2 DEF Sign

-----------------------------------------------------------------------------
(* The clocks tell the truth *)

\* Who has the permission lost it no time ago, who lacks it lacks it now.
ClocksRight ==
    \A u \in User : IF Holds(u) THEN lost[u] = 0 ELSE lacked[u] = 0

LEMMA WatchRight == ASSUME Watch PROVE ClocksRight'
<1>1. \A u \in User : /\ lost'[u] = IF Holds(u)' THEN 0 ELSE lost[u]
                      /\ lacked'[u] = IF Holds(u)' THEN lacked[u] ELSE 0
  BY DEF Watch
<1> QED
  BY <1>1 DEF ClocksRight

LEMMA ClocksStay ==
    ASSUME ClocksRight, UNCHANGED <<table, clock>> PROVE ClocksRight'
BY DEF ClocksRight, Holds, table, clock

LEMMA TickRight == ASSUME Tick PROVE ClocksRight'
<1>1. \A u \in User : Holds(u)' = Holds(u)
  BY DEF Tick, Holds, table
<1>2. \A u \in User : /\ lost'[u] = IF Holds(u) THEN 0 ELSE Later(lost[u])
                      /\ lacked'[u] = IF Holds(u) THEN Later(lacked[u]) ELSE 0
  BY DEF Tick
<1> QED
  BY <1>1, <1>2 DEF ClocksRight

-----------------------------------------------------------------------------
(* One lemma per action *)

LEMMA LoginReadKeeps ==
    ASSUME IInv, NEW s \in Slot, NEW u \in User, LoginRead(s, u) PROVE IInv'
<1> DEFINE c == [Idle EXCEPT !.pc = "login.sign", !.user = u]
<1>1. c \in CallRecord /\ CallTyped(c)
  BY DEF Idle, CallRecord, Pc, Right, CallTyped
<1>2. CallsInv'
  BY <1>1, CallStep DEF IInv, LoginRead, Begin
<1> QED
  BY <1>2, TableStays, SessionStays DEF IInv, LoginRead

LEMMA RefreshKeeps ==
    ASSUME IInv, NEW s \in Slot, NEW u \in User, Refresh(s, u) PROVE IInv'
<1> DEFINE c == [Idle EXCEPT !.pc = "refresh.read", !.user = u,
                             !.right = session[u].right]
<1>1. session[u].right \in Right
  BY DEF IInv, SessionInv, Pair
<1>2. c \in CallRecord /\ CallTyped(c)
  BY <1>1 DEF Idle, CallRecord, Pc, CallTyped
<1>3. CallsInv'
  BY <1>2, CallStep DEF IInv, Refresh, Begin
<1> QED
  BY <1>3, TableStays, SessionStays DEF IInv, Refresh

LEMMA CreateUserKeeps ==
    ASSUME IInv, NEW s \in Slot, NEW n \in Name, NEW rs \in SUBSET Role,
           CreateUser(s, n, rs)
    PROVE  IInv'
<1> DEFINE c == [Idle EXCEPT !.pc = "create.insert", !.name = n, !.roles = rs]
<1>1. c \in CallRecord /\ CallTyped(c)
  BY DEF Idle, CallRecord, Pc, Right, CallTyped
<1>2. CallsInv'
  BY <1>1, CallStep DEF IInv, CreateUser, Begin
<1> QED
  BY <1>2, TableStays, SessionStays DEF IInv, CreateUser

LEMMA LoginSignKeeps ==
    ASSUME IInv, NEW s \in Slot, LoginSign(s) PROVE IInv'
<1>1. calls[s].user \in User
  BY DEF IInv, CallsInv, CallTyped, LoginSign
<1>2. SessionInv'
  BY <1>1, SignStep DEF IInv, LoginSign, Right
<1> QED
  BY <1>2, TableStays, ReturnStep DEF IInv, LoginSign

LEMMA RefreshReadKeeps ==
    ASSUME IInv, ClocksRight, NEW s \in Slot, RefreshRead(s) PROVE IInv'
<1> DEFINE u == calls[s].user
           right == IF Holds(u) THEN "yes" ELSE "no"
<1>1. u \in User
  BY DEF IInv, CallsInv, CallTyped, RefreshRead
<1>2. CASE Sign(u, right)
  <2>1. /\ right \in Right
        /\ right = "yes" => lost[u] = 0
        /\ right = "no" => lacked[u] = 0
    BY <1>1 DEF Right, ClocksRight
  <2> QED
    BY <1>1, <1>2, <2>1, SignStep, TableStays, ReturnStep DEF IInv, RefreshRead
<1>3. CASE UNCHANGED session
  BY <1>3, SessionStays, TableStays, ReturnStep DEF IInv, RefreshRead
<1> QED
  BY <1>2, <1>3 DEF RefreshRead

\* A row that is written keeps names apart if its name is no other row's.
LEMMA WriteUser ==
    ASSUME TableInv, NEW u \in User, NEW row \in UserRow,
           \A v \in User \ {u} : Exists(v) => users[v].name # row.name,
           users' = [users EXCEPT ![u] = row]
    PROVE  users' \in [User -> UserRow] /\ UsernamesUnique'
<1>1. /\ users' \in [User -> UserRow]
      /\ users'[u] = row
      /\ \A v \in User \ {u} : users'[v] = users[v]
  BY DEF TableInv
<1> QED
  BY <1>1 DEF TableInv, UsernamesUnique, Exists

LEMMA CreateInsertKeeps ==
    ASSUME IInv, NEW s \in Slot, CreateInsert(s) PROVE IInv'
<1> DEFINE call == calls[s]
<1>1. call.name \in Name /\ call.roles \in SUBSET Role /\ Return(s)
  BY DEF IInv, CallsInv, CallTyped, CallRecord, CreateInsert
<1>2. ASSUME NEW u \in User, Insertable(call.name, call.roles),
             users' = [users EXCEPT ![u] = NewUser(call.name)],
             assigned' = assigned \cup {u} \X call.roles, UNCHANGED roles,
             Watch, UNCHANGED session
      PROVE  IInv'
  <2>1. NewUser(call.name) \in UserRow /\ NewUser(call.name).name = call.name
    BY <1>1 DEF NewUser, UserRow
  <2>2. \A v \in User \ {u} : Exists(v) => users[v].name # call.name
    BY <1>2 DEF Insertable, NameTaken
  <2>3. users' \in [User -> UserRow] /\ UsernamesUnique'
    BY <1>2, <2>1, <2>2, WriteUser DEF IInv
  <2>4. assigned' \subseteq User \X Role
    BY <1>1, <1>2 DEF IInv, TableInv
  <2> QED
    BY <1>1, <1>2, <2>3, <2>4, WatchStep, ReturnStep DEF IInv, TableInv
<1>3. CASE UNCHANGED <<table, clock>> /\ UNCHANGED session
  BY <1>1, <1>3, TableStays, SessionStays, ReturnStep DEF IInv
<1> QED
  BY <1>2, <1>3 DEF CreateInsert

LEMMA UpdateUserKeeps ==
    ASSUME IInv, NEW u \in User, NEW n \in Name, NEW frozen \in BOOLEAN,
           NEW rs \in SUBSET Role, UpdateUser(u, n, frozen, rs)
    PROVE  IInv'
<1> DEFINE row == [users[u] EXCEPT !.name = n, !.frozen = frozen]
<1>1. users[u] \in UserRow
  BY DEF IInv, TableInv
<1>2. row \in UserRow /\ row.name = n
  BY <1>1 DEF UserRow
<1>3. users' = [users EXCEPT ![u] = row]
  <2>1. users' = [users EXCEPT ![u].name = n, ![u].frozen = frozen]
    BY DEF UpdateUser
  <2>2. users \in [User -> UserRow]
    BY DEF IInv, TableInv
  <2> QED
    BY <1>1, <2>1, <2>2 DEF UserRow
<1>4. users' \in [User -> UserRow] /\ UsernamesUnique'
  <2>1. \A v \in User \ {u} : Exists(v) => users[v].name # row.name
    BY <1>2 DEF UpdateUser
  <2> HIDE DEF row
  <2> QED
    BY <1>2, <1>3, <2>1, WriteUser DEF IInv
<1>5. assigned' \subseteq User \X Role
  BY DEF UpdateUser, IInv, TableInv
<1> QED
  BY <1>4, <1>5, WatchStep, CallsStay DEF IInv, TableInv, UpdateUser

LEMMA DeleteUsersKeeps ==
    ASSUME IInv, NEW us \in SUBSET User, DeleteUsers(us) PROVE IInv'
<1> DEFINE gone == [NoUser EXCEPT !.state = "gone"]
<1>1. gone \in UserRow /\ gone.state # "row"
  BY DEF NoUser, UserRow
<1>2. \A u \in User : users'[u] = IF u \in us THEN gone ELSE users[u]
  BY DEF DeleteUsers
<1>3. users' \in [User -> UserRow]
  BY <1>1 DEF DeleteUsers, IInv, TableInv
<1>4. UsernamesUnique'
  BY <1>1, <1>2 DEF IInv, TableInv, UsernamesUnique, Exists
<1>5. assigned' \subseteq User \X Role
  BY DEF DeleteUsers, IInv, TableInv
<1> QED
  BY <1>3, <1>4, <1>5, WatchStep, CallsStay DEF IInv, TableInv, DeleteUsers

\* Roles are created, changed and deleted without a look at users' names.
LEMMA RoleWrite ==
    ASSUME IInv, roles' \in [Role -> {"none", "grants", "plain"}],
           assigned' \subseteq assigned, Watch, UNCHANGED <<users, session, calls>>
    PROVE  IInv'
<1>1. TableInv'
  BY DEF IInv, TableInv, UsernamesUnique, Exists
<1> QED
  BY <1>1, WatchStep, CallsStay DEF IInv

LEMMA WriteRoleKeeps ==
    ASSUME IInv, NEW r \in Role, NEW g \in {"grants", "plain"},
           CreateRole(r, g) \/ UpdateRole(r, g)
    PROVE  IInv'
<1>1. /\ roles' = [roles EXCEPT ![r] = g] /\ assigned' = assigned /\ Watch
      /\ UNCHANGED <<users, session, calls>>
  BY DEF CreateRole, UpdateRole
<1>2. roles' \in [Role -> {"none", "grants", "plain"}]
  BY <1>1 DEF IInv, TableInv
<1> QED
  BY <1>1, <1>2, RoleWrite

LEMMA DeleteRolesKeeps ==
    ASSUME IInv, NEW rs \in SUBSET Role, DeleteRoles(rs) PROVE IInv'
<1>1. roles' \in [Role -> {"none", "grants", "plain"}]
  BY DEF DeleteRoles, IInv, TableInv
<1> QED
  BY <1>1, RoleWrite DEF DeleteRoles

\* A tick ages a pair and its user's clock alike.
LEMMA TickKeeps == ASSUME IInv, Tick PROVE IInv'
<1>1. /\ RefreshLife \in Nat
      /\ UNCHANGED <<table, calls>>
  BY ConstantsAssumption DEF Tick
<1>2. ASSUME NEW u \in User
      PROVE  /\ session'[u] \in Pair
             /\ lost'[u] \in 0 .. RefreshLife
             /\ lacked'[u] \in 0 .. RefreshLife
             /\ session'[u].right = "yes" => lost'[u] <= session'[u].age
             /\ session'[u].right = "no" => lacked'[u] <= session'[u].age
  <2> DEFINE p == session[u]
  <2>1. /\ p \in Pair /\ lost[u] \in 0 .. RefreshLife
        /\ lacked[u] \in 0 .. RefreshLife
        /\ p.right = "yes" => lost[u] <= p.age
        /\ p.right = "no" => lacked[u] <= p.age
    BY DEF IInv, SessionInv, TokensTellTime
  <2>2. /\ session'[u] = IF p.age + 1 < RefreshLife
                         THEN [p EXCEPT !.age = p.age + 1] ELSE NoPair
        /\ lost'[u] = IF Holds(u) THEN 0 ELSE Later(lost[u])
        /\ lacked'[u] = IF Holds(u) THEN Later(lacked[u]) ELSE 0
    BY DEF Tick
  <2>3. /\ Later(lost[u]) \in 0 .. RefreshLife /\ Later(lost[u]) <= lost[u] + 1
        /\ Later(lacked[u]) \in 0 .. RefreshLife
        /\ Later(lacked[u]) <= lacked[u] + 1
    BY <1>1, <2>1 DEF Later
  <2>4. /\ lost'[u] \in 0 .. RefreshLife /\ lost'[u] <= lost[u] + 1
        /\ lacked'[u] \in 0 .. RefreshLife /\ lacked'[u] <= lacked[u] + 1
    BY <1>1, <2>1, <2>2, <2>3
  <2>5. CASE p.age + 1 < RefreshLife
    <3>1. session'[u] \in Pair /\ session'[u].right = p.right
          /\ session'[u].age = p.age + 1 /\ p.age \in Nat
      BY <1>1, <2>1, <2>2, <2>5 DEF Pair
    <3> QED
      BY <2>1, <2>4, <3>1
  <2>6. CASE ~(p.age + 1 < RefreshLife)
    BY <1>1, <2>2, <2>4, <2>6 DEF NoPair, Pair, Right
  <2> QED
    BY <2>5, <2>6
<1>3. SessionInv'
  BY <1>2 DEF Tick, SessionInv, TokensTellTime
<1> QED
  BY <1>1, <1>3, TableStays, CallsStay DEF IInv

-----------------------------------------------------------------------------
(* The invariant and what follows from it *)

LEMMA InitIInv == Init => IInv /\ ClocksRight
<1> SUFFICES ASSUME Init PROVE IInv /\ ClocksRight
  OBVIOUS
<1>1. TableInv
  BY DEF Init, TableInv, UsernamesUnique, Exists, NoUser, UserRow
<1>2. CallsInv
  BY DEF Init, CallsInv, Idle, CallRecord, Pc, Right, CallTyped
<1>3. SessionInv
  BY ConstantsAssumption DEF Init, SessionInv, NoPair, Pair, Right, TokensTellTime
<1>4. ClocksRight
  BY DEF Init, ClocksRight, Holds
<1> QED
  BY <1>1, <1>2, <1>3, <1>4 DEF IInv

LEMMA NextIInv == IInv /\ ClocksRight /\ [Next]_vars => IInv' /\ ClocksRight'
<1> SUFFICES ASSUME IInv, ClocksRight, [Next]_vars PROVE IInv' /\ ClocksRight'
  OBVIOUS
<1>1. ASSUME NEW s \in Slot, NEW u \in User, LoginRead(s, u) \/ Refresh(s, u)
      PROVE  IInv' /\ ClocksRight'
  BY <1>1, LoginReadKeeps, RefreshKeeps, ClocksStay DEF LoginRead, Refresh
<1>2. ASSUME NEW s \in Slot, NEW n \in Name, NEW rs \in SUBSET Role,
             CreateUser(s, n, rs)
      PROVE  IInv' /\ ClocksRight'
  BY <1>2, CreateUserKeeps, ClocksStay DEF CreateUser
<1>3. ASSUME NEW s \in Slot, LoginSign(s) \/ RefreshRead(s)
      PROVE  IInv' /\ ClocksRight'
  BY <1>3, LoginSignKeeps, RefreshReadKeeps, ClocksStay DEF LoginSign, RefreshRead
<1>4. ASSUME NEW s \in Slot, CreateInsert(s) PROVE IInv' /\ ClocksRight'
  BY <1>4, CreateInsertKeeps, ClocksStay, WatchRight DEF CreateInsert
<1>5. ASSUME NEW s \in Slot, Abort(s) PROVE IInv' /\ ClocksRight'
  BY <1>5, ReturnStep, TableStays, SessionStays, ClocksStay DEF Abort, IInv
<1>6. CASE Administer
  BY <1>6, UpdateUserKeeps, DeleteUsersKeeps, WriteRoleKeeps, DeleteRolesKeeps,
     WatchRight DEF Administer, UpdateUser, DeleteUsers, CreateRole, UpdateRole,
     DeleteRoles
<1>7. CASE Tick
  BY <1>7, TickKeeps, TickRight
<1>8. CASE UNCHANGED vars
  BY <1>8, TableStays, CallsStay, SessionStays, ClocksStay
     DEF vars, table, clock, IInv
<1> QED
  BY <1>1, <1>2, <1>3, <1>4, <1>5, <1>6, <1>7, <1>8 DEF Next, Proceed

\* The invariant that carries the others: it holds in every reachable state.
THEOREM SessionsInvariant == Spec => [](IInv /\ ClocksRight)
BY InitIInv, NextIInv, PTL DEF Spec

\* Rows, tokens and handler records keep their types.
THEOREM SessionsTypeCorrect == Spec => []TypeOK
<1>1. IInv => TypeOK
  BY DEF IInv, TypeOK, TableInv, CallsInv, SessionInv
<1> QED
  BY <1>1, SessionsInvariant, PTL

\* Whatever the lifetimes, the guard's answer was right less than the life of
\* an access token ago.
THEOREM GuardIsRecent == Spec => []VerdictsAreRecent
<1>1. IInv => VerdictsAreRecent
  <2> SUFFICES ASSUME IInv, NEW u \in User
               PROVE  /\ Passes(session[u]) => lost[u] < AccessLife
                      /\ Forbidden(session[u]) => lacked[u] < AccessLife
    BY DEF VerdictsAreRecent
  <2>1. /\ session[u].age \in Nat /\ lost[u] \in Nat /\ lacked[u] \in Nat
        /\ session[u].right = "yes" => lost[u] <= session[u].age
        /\ session[u].right = "no" => lacked[u] <= session[u].age
    BY ConstantsAssumption DEF IInv, SessionInv, TokensTellTime, Pair
  <2> QED
    BY <2>1, ConstantsAssumption DEF Passes, Forbidden
<1> QED
  BY <1>1, SessionsInvariant, PTL

\* No overlap of creating and renaming gives two users one name.
THEOREM NamesStayUnique == Spec => []UsernamesUnique
<1>1. IInv => UsernamesUnique
  BY DEF IInv, TableInv
<1> QED
  BY <1>1, SessionsInvariant, PTL

-----------------------------------------------------------------------------
(* Sessions of deleted users: the safety half of DeletedSessionsEnd *)

Gone(u) == users[u].state = "gone"

\* Logins of u that have read its row and will sign a pair of tokens.
LoggingIn(u) == {s \in Slot : calls[s].pc = "login.sign" /\ calls[s].user = u}

\* Of a deleted user, no step starts another login or makes the session younger,
\* but for the logins that had read the row in time, and time makes it older.
WindsDown(u) ==
    Gone(u) =>
        /\ Gone(u)'
        /\ LoggingIn(u)' \subseteq LoggingIn(u)
        /\ LoggingIn(u)' # LoggingIn(u) \/ session'[u].age >= session[u].age
        /\ Tick => session'[u].age > session[u].age \/ ~Alive(session'[u])

\* Nobody comes back.
LEMMA GoneStays ==
    ASSUME IInv, [Next]_vars, NEW u \in User, Gone(u)
    PROVE  Gone(u)'
<1>1. users \in [User -> UserRow] /\ users[u].state = "gone"
  BY DEF IInv, TableInv, Gone
<1>2. CASE UNCHANGED users
  BY <1>2 DEF Gone
<1>3. ASSUME NEW s \in Slot, CreateInsert(s) PROVE Gone(u)'
  BY <1>1, <1>2, <1>3 DEF CreateInsert, Gone, table
<1>4. ASSUME NEW v \in User, NEW n, NEW frozen, NEW rs, UpdateUser(v, n, frozen, rs)
      PROVE  Gone(u)'
  BY <1>1, <1>4 DEF UpdateUser, Gone, Exists
<1>5. ASSUME NEW us \in SUBSET User, DeleteUsers(us) PROVE Gone(u)'
  BY <1>1, <1>5 DEF DeleteUsers, Gone, NoUser
<1>6. \/ UNCHANGED users
      \/ \E s \in Slot : CreateInsert(s)
      \/ \E v \in User, n \in Name, frozen \in BOOLEAN, rs \in SUBSET Role :
           UpdateUser(v, n, frozen, rs)
      \/ \E us \in SUBSET User : DeleteUsers(us)
  BY Zenon DEF Next, LoginRead, Refresh, CreateUser, Proceed, LoginSign, RefreshRead,
     Abort, Administer, CreateRole, UpdateRole, DeleteRoles, Tick, table, vars
<1> QED
  BY <1>2, <1>3, <1>4, <1>5, <1>6

\* A login starts with a row that is there.
LEMMA LoginsLeave ==
    ASSUME IInv, [Next]_vars, NEW u \in User, Gone(u)
    PROVE  LoggingIn(u)' \subseteq LoggingIn(u)
<1> SUFFICES ASSUME NEW r \in Slot,
                    calls'[r].pc = "login.sign", calls'[r].user = u,
                    ~(calls[r].pc = "login.sign" /\ calls[r].user = u)
             PROVE  FALSE
  BY DEF LoggingIn
<1>1. calls \in [Slot -> CallRecord]
  BY DEF IInv, CallsInv
<1>2. calls'[r] # calls[r]
  OBVIOUS
<1>3. ASSUME NEW s \in Slot, NEW c, c.pc = "login.sign" => c.user # u,
             calls' = [calls EXCEPT ![s] = c]
      PROVE  FALSE
  BY <1>1, <1>2, <1>3
<1>4. ASSUME NEW s \in Slot, NEW v \in User, LoginRead(s, v) PROVE FALSE
  <2>1. v # u
    BY <1>4 DEF LoginRead, Exists, Gone
  <2> QED
    BY <1>3, <1>4, <2>1 DEF LoginRead, Begin, Idle
<1>5. ASSUME NEW s \in Slot, NEW v \in User, Refresh(s, v) PROVE FALSE
  BY <1>3, <1>5 DEF Refresh, Begin, Idle
<1>6. ASSUME NEW s \in Slot, NEW n \in Name, NEW rs \in SUBSET Role,
             CreateUser(s, n, rs)
      PROVE  FALSE
  BY <1>3, <1>6 DEF CreateUser, Begin, Idle
<1>7. ASSUME NEW s \in Slot, Return(s) PROVE FALSE
  BY <1>3, <1>7 DEF Return, Idle
<1>8. \/ UNCHANGED calls
      \/ \E s \in Slot : Return(s)
      \/ \E s \in Slot, v \in User : LoginRead(s, v) \/ Refresh(s, v)
      \/ \E s \in Slot, n \in Name, rs \in SUBSET Role : CreateUser(s, n, rs)
  BY Zenon DEF Next, Proceed, LoginSign, RefreshRead, CreateInsert, Abort, Administer,
     UpdateUser, DeleteUsers, CreateRole, UpdateRole, DeleteRoles, Tick, vars
<1> QED
  BY <1>2, <1>4, <1>5, <1>6, <1>7, <1>8

\* Only a login under way renews the session of a deleted user.
LEMMA OnlyLoginsRenew ==
    ASSUME IInv, [Next]_vars, NEW u \in User, Gone(u)
    PROVE  LoggingIn(u)' # LoggingIn(u) \/ session'[u].age >= session[u].age
<1>1. /\ calls \in [Slot -> CallRecord]
      /\ session \in [User -> Pair] /\ session[u].age \in 0 .. RefreshLife
      /\ RefreshLife \in Nat
  BY ConstantsAssumption DEF IInv, CallsInv, SessionInv, Pair
<1>2. ASSUME NEW s \in Slot, LoginSign(s), calls[s].user = u
      PROVE  LoggingIn(u)' # LoggingIn(u)
  <2>1. s \in LoggingIn(u)
    BY <1>2 DEF LoginSign, LoggingIn
  <2>2. s \notin LoggingIn(u)'
    BY <1>1, <1>2 DEF LoginSign, Return, LoggingIn, Idle
  <2> QED
    BY <2>1, <2>2
<1>3. ASSUME NEW s \in Slot, LoginSign(s), calls[s].user # u
      PROVE  session'[u] = session[u]
  BY <1>1, <1>3 DEF LoginSign, Sign
<1>4. ASSUME NEW s \in Slot, RefreshRead(s) PROVE session'[u] = session[u]
  BY <1>1, <1>4 DEF RefreshRead, Sign, Exists, Gone
<1>5. CASE Tick
  <2>1. session'[u] = IF session[u].age + 1 < RefreshLife
                      THEN [session[u] EXCEPT !.age = @ + 1] ELSE NoPair
    BY <1>5 DEF Tick
  <2>2. [session[u] EXCEPT !.age = @ + 1].age = session[u].age + 1
    BY <1>1 DEF Pair
  <2> QED
    BY <1>1, <2>1, <2>2 DEF NoPair
<1>6. \/ UNCHANGED session
      \/ \E s \in Slot : LoginSign(s) \/ RefreshRead(s)
      \/ Tick
  BY Zenon DEF Next, LoginRead, Refresh, CreateUser, Proceed, CreateInsert, Abort,
     Administer, UpdateUser, DeleteUsers, CreateRole, UpdateRole, DeleteRoles, vars
<1>7. session'[u] = session[u] => session'[u].age >= session[u].age
  BY <1>1
<1> QED
  BY <1>2, <1>3, <1>4, <1>5, <1>6, <1>7

\* Time makes every session older, or ends it.
LEMMA TickAges ==
    ASSUME IInv, Tick, NEW u \in User
    PROVE  session'[u].age > session[u].age \/ ~Alive(session'[u])
<1>1. /\ session[u] \in Pair /\ session[u].age \in 0 .. RefreshLife
      /\ RefreshLife \in Nat
  BY ConstantsAssumption DEF IInv, SessionInv, Pair
<1>2. session'[u] = IF session[u].age + 1 < RefreshLife
                    THEN [session[u] EXCEPT !.age = @ + 1] ELSE NoPair
  BY DEF Tick
<1>3. [session[u] EXCEPT !.age = @ + 1].age = session[u].age + 1
  BY <1>1 DEF Pair
<1> QED
  BY <1>1, <1>2, <1>3 DEF NoPair, Alive

\* No interleaving of refreshes, logins, role changes and deletions prolongs the
\* session of a deleted user but for the logins under way at its deletion, of
\* which each can do so once.
DeletedUsersWindDown == [][\A u \in User : WindsDown(u)]_vars

THEOREM GoneUsersWindDown == Spec => DeletedUsersWindDown
<1>1. IInv /\ [Next]_vars => \A u \in User : WindsDown(u)
  BY GoneStays, LoginsLeave, OnlyLoginsRenew, TickAges DEF WindsDown
<1> QED
  BY <1>1, SessionsInvariant, PTL DEF Spec, DeletedUsersWindDown

=============================================================================
