----------------------- MODULE CustomerAccountsProofs -----------------------
(***************************************************************************)
(* Proofs about CustomerAccounts: types, one account per e-mail address,   *)
(* nobody in another person's account, and rights and terms of an account  *)
(* that nobody writes but who may, for any number of people, addresses and *)
(* requests in flight.                                                     *)
(***************************************************************************)
EXTENDS CustomerAccounts, Naturals, TLAPS

\* An address of a request or a row belongs to p, if there is one.
HeldBy(x, p) == x = None \/ HolderOf[x] = p

\* Both addresses of a row have one holder, and no row has no rights.
RowsOwned ==
    \A a \in Account :
        IF rows[a].email = None THEN rows[a].rights = {}
        ELSE HeldBy(rows[a].wallet, HolderOf[rows[a].email])

\* What a request relies on: a login has addresses of its person only, looks up
\* no null, and once it found a row it is its person's.
CallOwned(c, rw) ==
    /\ c.pc \in {"login.wallet", "login.email", "login.create", "login.patch",
         "login.sign"} =>
         /\ c.person \in Person
         /\ HeldBy(c.email, c.person)
         /\ HeldBy(c.wallet, c.person)
    /\ c.pc = "login.wallet" => c.wallet # None
    /\ c.pc = "login.email" => c.email # None
    /\ c.pc \in {"login.patch", "login.sign"} =>
         /\ c.account \in Account
         /\ rw[c.account].email # None
         /\ HolderOf[rw[c.account].email] = c.person
    /\ c.pc \in {"update.write", "settings.write"} =>
         c.account \in Account /\ rw[c.account].email # None
    /\ c.pc = "settings.write" => c.terms \in Terms

RowsInv ==
    /\ rows \in [Account -> Row]
    /\ OneAccountPerEmail
    /\ RowsOwned

CallsInv ==
    /\ calls \in [Slot -> CallRecord]
    /\ \A s \in Slot : CallOwned(calls[s], rows)

IInv ==
    /\ RowsInv
    /\ CallsInv
    /\ refused \in [Slot -> BOOLEAN]

-----------------------------------------------------------------------------
(* Records across steps *)

\* A row keeps its e-mail address for good.
RowsKept ==
    \A a \in Account : rows[a].email # None => rows'[a].email = rows[a].email

LEMMA CallStep ==
    ASSUME CallsInv, RowsKept, NEW s \in Slot, NEW c \in CallRecord,
           CallOwned(c, rows'), calls' = [calls EXCEPT ![s] = c]
    PROVE  CallsInv'
<1>1. calls' \in [Slot -> CallRecord]
  BY DEF CallsInv
<1>2. ASSUME NEW t \in Slot PROVE CallOwned(calls'[t], rows')
  <2>1. CASE t = s
    BY <2>1 DEF CallsInv
  <2>2. CASE t # s
    <3>1. calls'[t] = calls[t] /\ CallOwned(calls[t], rows)
      BY <2>2 DEF CallsInv
    <3> QED
      BY <3>1 DEF CallOwned, RowsKept
  <2> QED
    BY <2>1, <2>2
<1> QED
  BY <1>1, <1>2 DEF CallsInv

LEMMA IdleOwned == Idle \in CallRecord /\ \A rw : CallOwned(Idle, rw)
BY DEF Idle, CallRecord, Pc, CallOwned

LEMMA SameRows == ASSUME RowsInv, UNCHANGED rows PROVE RowsInv' /\ RowsKept
BY DEF RowsInv, RowsOwned, RowsKept, OneAccountPerEmail, Existing, Exists

\* A request ends, answered or refused or cut short.
LEMMA ReturnStep ==
    ASSUME IInv, RowsInv', RowsKept, NEW s \in Slot, Return(s) \/ Refuse(s)
    PROVE  IInv'
<1>1. CallsInv'
  BY CallStep, IdleOwned DEF IInv, Return, Refuse
<1>2. refused' \in [Slot -> BOOLEAN]
  BY DEF IInv, Return, Refuse
<1> QED
  BY <1>1, <1>2 DEF IInv

\* A request goes on with another record.
LEMMA ContinueStep ==
    ASSUME IInv, RowsInv', RowsKept, NEW s \in Slot, NEW c \in CallRecord,
           CallOwned(c, rows'), Continue(s, c) \/ Begin(s, c)
    PROVE  IInv'
<1>1. CallsInv'
  BY CallStep DEF IInv, Continue, Begin
<1>2. refused' \in [Slot -> BOOLEAN]
  BY DEF IInv, Continue, Begin
<1> QED
  BY <1>1, <1>2 DEF IInv

\* A new row has an e-mail address no row has, and addresses of one person.
LEMMA InsertStep ==
    ASSUME RowsInv, NEW e \in Email \cup {None}, NEW w \in Address \cup {None},
           Insertable(e), HeldBy(w, HolderOf[e]), Insert(e, w)
    PROVE  /\ RowsInv'
           /\ RowsKept
           /\ FreshId \in Account
           /\ rows'[FreshId].email = e
<1> DEFINE n == FreshId
<1>1. n \in Account /\ rows[n].email = None
  BY DEF Insert, FreshId, Existing, Exists
<1>2. rows' = [rows EXCEPT ![n] = NewRow(e, w)]
  BY DEF Insert
<1>3. e \in Email /\ e # None /\ NewRow(e, w) \in Row
  BY ConstantsAssumption DEF Insertable, NewRow, Row, Right, Grantable
<1>4. /\ rows' \in [Account -> Row]
      /\ rows'[n].email = e
      /\ rows'[n].wallet = w
      /\ \A a \in Account \ {n} : rows'[a] = rows[a]
  BY <1>1, <1>2, <1>3 DEF RowsInv, NewRow
<1>5. OneAccountPerEmail'
  BY <1>1, <1>4 DEF RowsInv, OneAccountPerEmail, Existing, Exists, Insertable,
     EmailTaken
<1>6. RowsOwned'
  BY <1>1, <1>3, <1>4 DEF RowsInv, RowsOwned
<1>7. RowsKept
  BY <1>1, <1>4 DEF RowsKept
<1> QED
  BY <1>1, <1>4, <1>5, <1>6, <1>7 DEF RowsInv

-----------------------------------------------------------------------------
(* One lemma per action *)

LEMMA LoginKeeps ==
    ASSUME IInv, NEW s \in Slot, NEW p \in Person, Login(s, p) PROVE IInv'
<1> PICK prof \in Profile(p) : \E w \in FirstAddress(prof) :
         Begin(s, [Idle EXCEPT !.pc = FirstLookup(prof.email, w), !.person = p,
                               !.email = prof.email, !.wallet = w])
  BY DEF Login
<1>1. PICK w \in FirstAddress(prof) :
         Begin(s, [Idle EXCEPT !.pc = FirstLookup(prof.email, w), !.person = p,
                               !.email = prof.email, !.wallet = w])
  OBVIOUS
<1> DEFINE e == prof.email
           c == [Idle EXCEPT !.pc = FirstLookup(e, w), !.person = p,
                             !.email = e, !.wallet = w]
<1>2. /\ e \in Email \cup {None} /\ prof.wallet \in Wallet \cup {None}
      /\ HeldBy(e, p) /\ HeldBy(prof.wallet, p)
  BY DEF Profile, HeldBy
<1>3. w \in Address \cup {None} /\ HeldBy(w, p)
  BY <1>2 DEF FirstAddress, Address, HeldBy
<1>4. FirstLookup(e, w) \in {"login.wallet", "login.email", "login.create"}
  BY DEF FirstLookup
<1>5. c \in CallRecord
  BY <1>2, <1>3, <1>4 DEF Idle, CallRecord, Pc
<1>6. CallOwned(c, rows')
  BY <1>2, <1>3, <1>4 DEF CallOwned, Idle, FirstLookup
<1>7. RowsInv' /\ RowsKept
  BY SameRows DEF IInv, Login
<1> QED
  BY <1>1, <1>5, <1>6, <1>7, ContinueStep

\* A token is about to be signed for a row of the person who logs in.
LEMMA SignStep ==
    ASSUME IInv, RowsInv', RowsKept, NEW s \in Slot, NEW a \in Account,
           Sign(s, a), calls[s].person \in Person,
           rows'[a].email # None, HolderOf[rows'[a].email] = calls[s].person
    PROVE  IInv'
<1> DEFINE c == [Idle EXCEPT !.pc = "login.sign", !.person = calls[s].person,
                             !.account = a]
<1>1. c \in CallRecord
  BY DEF Idle, CallRecord, Pc
<1>2. CallOwned(c, rows')
  BY DEF CallOwned, Idle, HeldBy
<1> QED
  BY <1>1, <1>2, ContinueStep DEF Sign

\* A row was found by an address of the person who logs in.
LEMMA FoundStep ==
    ASSUME IInv, NEW s \in Slot, NEW a \in Account, Found(s, a),
           calls[s].pc \in {"login.wallet", "login.email"},
           rows[a].email # None, HolderOf[rows[a].email] = calls[s].person,
           UNCHANGED rows
    PROVE  IInv'
<1> DEFINE c == [calls[s] EXCEPT !.pc = "login.patch", !.account = a]
<1>1. calls[s] \in CallRecord /\ CallOwned(calls[s], rows)
  BY DEF IInv, CallsInv
<1>2. RowsInv' /\ RowsKept
  BY SameRows DEF IInv
<1>3. CASE Sign(s, a)
  BY <1>1, <1>2, <1>3, SignStep DEF CallOwned
<1>4. CASE Continue(s, c)
  <2>1. c \in CallRecord
    BY <1>1 DEF CallRecord, Pc
  <2>2. CallOwned(c, rows')
    BY <1>1 DEF CallOwned, CallRecord
  <2> QED
    BY <1>2, <1>4, <2>1, <2>2, ContinueStep
<1> QED
  BY <1>3, <1>4 DEF Found

\* Nothing was found: the next lookup, or the insertion.
LEMMA NotFoundStep ==
    ASSUME IInv, NEW s \in Slot,
           NEW pc \in {"login.email", "login.create", "create.insert"},
           Goto(s, pc), calls[s].pc \in {"login.wallet", "login.email",
                                         "create.find"},
           pc = "login.email" => calls[s].email # None,
           pc # "create.insert" => calls[s].pc # "create.find",
           UNCHANGED rows
    PROVE  IInv'
<1> DEFINE c == [calls[s] EXCEPT !.pc = pc]
<1>1. calls[s] \in CallRecord /\ CallOwned(calls[s], rows)
  BY DEF IInv, CallsInv
<1>2. c \in CallRecord
  BY <1>1 DEF CallRecord, Pc
<1>3. CallOwned(c, rows')
  BY <1>1 DEF CallOwned, CallRecord
<1>4. RowsInv' /\ RowsKept /\ Continue(s, c)
  BY SameRows DEF IInv, Goto
<1> QED
  BY <1>2, <1>3, <1>4, ContinueStep

LEMMA LoginByWalletKeeps ==
    ASSUME IInv, NEW s \in Slot, LoginByWallet(s) PROVE IInv'
<1> DEFINE call == calls[s]
           match == {a \in Existing : rows[a].wallet = call.wallet}
<1>1. /\ call.pc = "login.wallet" /\ call \in CallRecord
      /\ CallOwned(call, rows) /\ UNCHANGED rows
  BY DEF IInv, CallsInv, LoginByWallet
<1>2. ASSUME NEW a \in match, Found(s, a) PROVE IInv'
  <2>1. a \in Account /\ rows[a].email # None /\ rows[a].wallet = call.wallet
    BY <1>2 DEF Existing, Exists
  <2>2. HolderOf[rows[a].email] = call.person
    BY <1>1, <2>1 DEF IInv, RowsInv, RowsOwned, CallOwned, HeldBy
  <2> QED
    BY <1>1, <1>2, <2>1, <2>2, FoundStep
<1>3. CASE Goto(s, IF call.email # None THEN "login.email" ELSE "login.create")
  BY <1>1, <1>3, NotFoundStep
<1> QED
  BY <1>2, <1>3 DEF LoginByWallet

LEMMA LoginByEmailKeeps ==
    ASSUME IInv, NEW s \in Slot, LoginByEmail(s) PROVE IInv'
<1> DEFINE call == calls[s]
           match == {a \in Existing : rows[a].email = call.email}
<1>1. /\ call.pc = "login.email" /\ call \in CallRecord
      /\ CallOwned(call, rows) /\ UNCHANGED rows
  BY DEF IInv, CallsInv, LoginByEmail
<1>2. ASSUME NEW a \in match, Found(s, a) PROVE IInv'
  <2>1. a \in Account /\ rows[a].email # None /\ rows[a].email = call.email
    BY <1>2 DEF Existing, Exists
  <2>2. HolderOf[rows[a].email] = call.person
    BY <1>1, <2>1 DEF CallOwned, HeldBy
  <2> QED
    BY <1>1, <1>2, <2>1, <2>2, FoundStep
<1>3. CASE Goto(s, "login.create")
  BY <1>1, <1>3, NotFoundStep
<1> QED
  BY <1>2, <1>3 DEF LoginByEmail

LEMMA LoginCreateKeeps ==
    ASSUME IInv, NEW s \in Slot, LoginCreate(s) PROVE IInv'
<1> DEFINE call == calls[s]
<1>1. /\ call.pc = "login.create" /\ call \in CallRecord
      /\ CallOwned(call, rows)
  BY DEF IInv, CallsInv, LoginCreate
<1>2. CASE Insertable(call.email) /\ Insert(call.email, call.wallet)
           /\ Sign(s, FreshId)
  <2>1. /\ call.email \in Email \cup {None} /\ call.email # None
        /\ call.wallet \in Address \cup {None}
        /\ call.person \in Person /\ HolderOf[call.email] = call.person
        /\ HeldBy(call.wallet, HolderOf[call.email])
    BY <1>1, <1>2 DEF CallRecord, CallOwned, HeldBy, Insertable
  <2>2. /\ RowsInv' /\ RowsKept /\ FreshId \in Account
        /\ rows'[FreshId].email = call.email
    BY <1>2, <2>1, InsertStep DEF IInv
  <2> QED
    BY <1>2, <2>1, <2>2, SignStep
<1>3. CASE Refuse(s) /\ UNCHANGED rows
  BY <1>3, SameRows, ReturnStep DEF IInv
<1> QED
  BY <1>2, <1>3 DEF LoginCreate

\* A write to columns of a row other than its e-mail address.
LEMMA WriteStep ==
    ASSUME RowsInv, NEW a \in Account, NEW r \in Row,
           rows[a].email # None, r.email = rows[a].email,
           HeldBy(r.wallet, HolderOf[r.email]), rows' = [rows EXCEPT ![a] = r]
    PROVE  RowsInv' /\ RowsKept
<1>1. /\ rows' \in [Account -> Row]
      /\ \A b \in Account : /\ rows'[b].email = rows[b].email
                            /\ b # a => rows'[b] = rows[b]
      /\ rows'[a] = r
  BY DEF RowsInv
<1>2. OneAccountPerEmail'
  BY <1>1 DEF RowsInv, OneAccountPerEmail, Existing, Exists
<1>3. RowsOwned'
  BY <1>1 DEF RowsInv, RowsOwned
<1> QED
  BY <1>1, <1>2, <1>3 DEF RowsInv, RowsKept

LEMMA LoginPatchKeeps ==
    ASSUME IInv, NEW s \in Slot, LoginPatch(s) PROVE IInv'
<1> DEFINE call == calls[s]
           a == call.account
           r == [rows[a] EXCEPT !.wallet = call.wallet]
<1>1. /\ call.pc = "login.patch" /\ call \in CallRecord
      /\ CallOwned(call, rows) /\ Sign(s, a)
  BY DEF IInv, CallsInv, LoginPatch
<1>2. a \in Account /\ rows[a] \in Row /\ call.wallet \in Address \cup {None}
      /\ rows[a].email # None /\ HeldBy(call.wallet, HolderOf[rows[a].email])
  BY <1>1 DEF IInv, RowsInv, CallOwned, CallRecord, HeldBy
<1>3. /\ r \in Row /\ r.email = rows[a].email /\ r.wallet = call.wallet
      /\ rows' = [rows EXCEPT ![a] = r]
  BY <1>2 DEF LoginPatch, Row, IInv, RowsInv
<1>4. RowsInv' /\ RowsKept
  BY <1>2, <1>3, WriteStep DEF IInv
<1>5. /\ call.person \in Person /\ rows'[a].email # None
      /\ HolderOf[rows'[a].email] = call.person
  BY <1>1, <1>2, <1>4 DEF CallOwned, RowsKept
<1> QED
  BY <1>1, <1>2, <1>4, <1>5, SignStep

LEMMA UpdateWriteKeeps ==
    ASSUME IInv, NEW s \in Slot, UpdateWrite(s) PROVE IInv'
<1> DEFINE call == calls[s]
           a == call.account
           r == [rows[a] EXCEPT !.rights = (@ \ call.revoke) \cup call.grant]
<1>1. /\ call.pc = "update.write" /\ call \in CallRecord
      /\ CallOwned(call, rows) /\ Return(s)
  BY DEF IInv, CallsInv, UpdateWrite
<1>2. a \in Account /\ rows[a] \in Row /\ rows[a].email # None
      /\ call.grant \subseteq Right /\ HeldBy(rows[a].wallet, HolderOf[rows[a].email])
  BY <1>1 DEF IInv, RowsInv, RowsOwned, CallOwned, CallRecord, Right
<1>3. /\ r \in Row /\ r.email = rows[a].email /\ r.wallet = rows[a].wallet
      /\ rows' = [rows EXCEPT ![a] = r]
  BY <1>2 DEF UpdateWrite, Row, IInv, RowsInv
<1>4. RowsInv' /\ RowsKept
  BY <1>2, <1>3, WriteStep DEF IInv
<1> QED
  BY <1>1, <1>4, ReturnStep

LEMMA SettingsWriteKeeps ==
    ASSUME IInv, NEW s \in Slot, SettingsWrite(s) PROVE IInv'
<1> DEFINE call == calls[s]
           a == call.account
           r == [rows[a] EXCEPT !.terms = call.terms]
<1>1. call.pc = "settings.write" /\ CallOwned(call, rows) /\ Return(s)
  BY DEF IInv, CallsInv, SettingsWrite
<1>2. a \in Account /\ rows[a] \in Row /\ rows[a].email # None
      /\ call.terms \in Terms /\ HeldBy(rows[a].wallet, HolderOf[rows[a].email])
  BY <1>1 DEF IInv, RowsInv, RowsOwned, CallOwned
<1>3. /\ r \in Row /\ r.email = rows[a].email /\ r.wallet = rows[a].wallet
      /\ rows' = [rows EXCEPT ![a] = r]
  BY <1>2 DEF SettingsWrite, Row, IInv, RowsInv
<1>4. RowsInv' /\ RowsKept
  BY <1>2, <1>3, WriteStep DEF IInv
<1> QED
  BY <1>1, <1>4, ReturnStep

\* An administrator's request arrives; its caller's row was read.
LEMMA CreateCustomerKeeps ==
    ASSUME IInv, NEW s \in Slot, NEW b \in Account, NEW e \in Email,
           CreateCustomer(s, b, e)
    PROVE  IInv'
<1> DEFINE c == [Idle EXCEPT !.pc = "create.find", !.email = e]
<1>1. c \in CallRecord /\ CallOwned(c, rows')
  BY DEF Idle, CallRecord, Pc, CallOwned
<1>2. RowsInv' /\ RowsKept /\ Begin(s, c)
  BY SameRows DEF CreateCustomer, IInv
<1> QED
  BY <1>1, <1>2, ContinueStep

LEMMA UpdateCustomerKeeps ==
    ASSUME IInv, NEW s \in Slot, NEW b \in Account, NEW a \in Account,
           NEW x \in Changes, UpdateCustomer(s, b, a, x)
    PROVE  IInv'
<1> DEFINE c == [Idle EXCEPT !.pc = "update.write", !.account = a,
                             !.grant = x.grant, !.revoke = x.revoke]
<1>1. rows[a].email # None /\ rows' = rows
  BY DEF UpdateCustomer, Exists
<1>2. x \in Change
  BY ConstantsAssumption
<1>3. c \in CallRecord /\ CallOwned(c, rows')
  BY <1>1, <1>2 DEF Idle, CallRecord, Pc, CallOwned, Change
<1>4. RowsInv' /\ RowsKept /\ Begin(s, c)
  BY SameRows DEF UpdateCustomer, IInv
<1> QED
  BY <1>3, <1>4, ContinueStep

\* Only an existing row has rights, so an organizer's account exists.
LEMMA UpdateSettingsKeeps ==
    ASSUME IInv, NEW s \in Slot, NEW a \in Account, NEW terms \in Terms,
           UpdateSettings(s, a, terms)
    PROVE  IInv'
<1> DEFINE c == [Idle EXCEPT !.pc = "settings.write", !.account = a,
                             !.terms = terms]
<1>1. rows[a].email # None /\ rows' = rows
  BY DEF UpdateSettings, ValidOrganizer, IInv, RowsInv, RowsOwned
<1>2. c \in CallRecord /\ CallOwned(c, rows')
  BY <1>1 DEF Idle, CallRecord, Pc, CallOwned
<1>3. RowsInv' /\ RowsKept /\ Begin(s, c)
  BY SameRows DEF UpdateSettings, IInv
<1> QED
  BY <1>2, <1>3, ContinueStep

LEMMA CreateFindKeeps ==
    ASSUME IInv, NEW s \in Slot, CreateFind(s) PROVE IInv'
<1>1. CASE Return(s) /\ UNCHANGED rows
  BY <1>1, SameRows, ReturnStep DEF IInv
<1>2. CASE /\ Goto(s, "create.insert") /\ calls[s].pc = "create.find"
           /\ UNCHANGED rows
  BY <1>2, NotFoundStep
<1> QED
  BY <1>1, <1>2 DEF CreateFind

LEMMA CreateInsertKeeps ==
    ASSUME IInv, NEW s \in Slot, CreateInsert(s) PROVE IInv'
<1> DEFINE call == calls[s]
<1>1. call.email \in Email \cup {None} /\ Return(s)
  BY DEF IInv, CallsInv, CallRecord, CreateInsert
<1>2. CASE Insertable(call.email) /\ Insert(call.email, None)
  <2>1. RowsInv' /\ RowsKept
    BY <1>1, <1>2, InsertStep DEF IInv, HeldBy
  <2> QED
    BY <1>1, <2>1, ReturnStep
<1>3. CASE UNCHANGED rows
  BY <1>1, <1>3, SameRows, ReturnStep DEF IInv
<1> QED
  BY <1>2, <1>3 DEF CreateInsert

-----------------------------------------------------------------------------
(* The invariant and what follows from it *)

LEMMA InitIInv == Init => IInv
<1> SUFFICES ASSUME Init PROVE IInv
  OBVIOUS
<1>1. PICK e \in Email :
         rows = [[a \in Account |-> NoRow] EXCEPT ![FirstId] =
             [email |-> e, wallet |-> None, rights |-> {"active", "admin"},
              terms |-> DefaultTerms]]
  BY DEF Init
<1>2. FirstId \in Account /\ e # None
  BY ConstantsAssumption DEF FirstId, Address
<1>3. /\ rows \in [Account -> Row]
      /\ rows[FirstId].email # None
      /\ \A a \in Account :
           /\ rows[a].wallet = None
           /\ a # FirstId => rows[a].email = None /\ rows[a].rights = {}
  BY <1>1, <1>2, ConstantsAssumption DEF Row, NoRow, Right, Grantable
<1>4. RowsInv
  BY <1>3 DEF RowsInv, OneAccountPerEmail, Existing, Exists, RowsOwned, HeldBy
<1>5. CallsInv
  BY IdleOwned DEF Init, CallsInv
<1> QED
  BY <1>4, <1>5 DEF Init, IInv

LEMMA NextIInv == IInv /\ [Next]_vars => IInv'
<1> SUFFICES ASSUME IInv, [Next]_vars PROVE IInv'
  OBVIOUS
<1>1. ASSUME NEW s \in Slot, LoginSign(s) \/ Abort(s) PROVE IInv'
  BY <1>1, SameRows, ReturnStep DEF LoginSign, Abort, IInv
<1>2. ASSUME NEW s \in Slot, Proceed(s) PROVE IInv'
  BY <1>1, <1>2, LoginByWalletKeeps, LoginByEmailKeeps, LoginCreateKeeps,
     LoginPatchKeeps, CreateFindKeeps, CreateInsertKeeps, UpdateWriteKeeps,
     SettingsWriteKeeps DEF Proceed
<1>3. CASE UNCHANGED vars
  BY <1>3, SameRows DEF vars, IInv, CallsInv
<1> QED
  BY <1>1, <1>2, <1>3, LoginKeeps, CreateCustomerKeeps, UpdateCustomerKeeps,
     UpdateSettingsKeeps DEF Next

\* The invariant that carries the others: it holds in every reachable state.
THEOREM AccountsInvariant == Spec => []IInv
BY InitIInv, NextIInv, PTL DEF Spec

\* Rows and handler records keep their types.
THEOREM AccountsTypeCorrect == Spec => []TypeOK
<1>1. IInv => TypeOK
  BY DEF IInv, TypeOK, RowsInv, CallsInv
<1> QED
  BY <1>1, AccountsInvariant, PTL

\* However logins and administrators' requests overlap or are cut short, every
\* row has addresses of one person, who alone gets a token for it.
THEOREM NobodyElsesAccount == Spec => []OwnAccount
<1>1. IInv => OwnAccount
  BY DEF IInv, RowsInv, RowsOwned, CallsInv, CallOwned, HeldBy, OwnAccount,
     Existing, Exists
<1> QED
  BY <1>1, AccountsInvariant, PTL

\* No overlap of first logins and administrators' requests leaves two accounts
\* with one e-mail address.
THEOREM OneAccountEach == Spec => []OneAccountPerEmail
<1>1. IInv => OneAccountPerEmail
  BY DEF IInv, RowsInv
<1> QED
  BY <1>1, AccountsInvariant, PTL

\* Who wrote x to the rights of account a, or its terms.
ByAdmin(a, x) ==
    \E s \in Slot :
        /\ calls[s].pc = "update.write"
        /\ calls[s].account = a
        /\ x \in IF x \in rows[a].rights THEN calls[s].revoke ELSE calls[s].grant

ByOrganizer(a) ==
    \E s \in Slot :
        /\ calls[s].pc = "settings.write"
        /\ calls[s].account = a
        /\ calls[s].terms = rows'[a].terms

RightsStep ==
    \A a \in Existing :
        /\ \A x \in Right :
             (x \in rows[a].rights) # (x \in rows'[a].rights) => ByAdmin(a, x)
        /\ rows[a].terms # rows'[a].terms => ByOrganizer(a)

\* Insertions are to fresh identifiers, and a login writes the wallet only.
LEMMA OthersLeaveRights ==
    ASSUME IInv, NEW a \in Existing,
           \/ \E e, w : Insert(e, w)
           \/ \E s \in Slot : LoginPatch(s)
           \/ UNCHANGED rows
    PROVE  rows'[a].rights = rows[a].rights /\ rows'[a].terms = rows[a].terms
<1>1. a \in Account /\ rows[a].email # None /\ rows \in [Account -> Row]
  BY DEF Existing, Exists, IInv, RowsInv
<1>2. ASSUME NEW e, NEW w, Insert(e, w) PROVE rows'[a] = rows[a]
  <2>1. FreshId \in Account /\ rows[FreshId].email = None
    BY <1>2 DEF Insert, FreshId, Existing, Exists
  <2> QED
    BY <1>1, <1>2, <2>1 DEF Insert
<1>3. ASSUME NEW s \in Slot, LoginPatch(s)
      PROVE  rows'[a].rights = rows[a].rights /\ rows'[a].terms = rows[a].terms
  BY <1>1, <1>3 DEF LoginPatch, Row
<1> QED
  BY <1>2, <1>3

LEMMA RightsStepHolds == IInv /\ [Next]_vars => RightsStep
<1> SUFFICES ASSUME IInv, [Next]_vars, NEW a \in Existing
             PROVE  /\ \A x \in Right : (x \in rows[a].rights) # (x \in rows'[a].rights)
                                          => ByAdmin(a, x)
                    /\ rows[a].terms # rows'[a].terms => ByOrganizer(a)
  BY DEF RightsStep
<1>1. a \in Account /\ rows \in [Account -> Row]
  BY DEF Existing, IInv, RowsInv
<1>2. ASSUME NEW s \in Slot, UpdateWrite(s), calls[s].account = a
      PROVE  /\ \A x \in Right : (x \in rows[a].rights) # (x \in rows'[a].rights)
                                   => ByAdmin(a, x)
             /\ rows'[a].terms = rows[a].terms
  <2>1. /\ rows'[a].rights = (rows[a].rights \ calls[s].revoke) \cup calls[s].grant
        /\ rows'[a].terms = rows[a].terms /\ calls[s].pc = "update.write"
    BY <1>1, <1>2 DEF UpdateWrite, Row
  <2> QED
    BY <1>2, <2>1 DEF ByAdmin
<1>3. ASSUME NEW s \in Slot, SettingsWrite(s), calls[s].account = a
      PROVE  rows'[a].rights = rows[a].rights /\ ByOrganizer(a)
  BY <1>1, <1>3 DEF SettingsWrite, Row, ByOrganizer
<1>4. ASSUME NEW s \in Slot, UpdateWrite(s) \/ SettingsWrite(s), calls[s].account # a
      PROVE  rows'[a] = rows[a]
  BY <1>1, <1>4 DEF UpdateWrite, SettingsWrite
<1>5. \/ \E s \in Slot : UpdateWrite(s) \/ SettingsWrite(s)
      \/ \E e, w : Insert(e, w)
      \/ \E s \in Slot : LoginPatch(s)
      \/ UNCHANGED rows
  BY Zenon DEF Next, Login, CreateCustomer, UpdateCustomer, UpdateSettings, Proceed,
     LoginByWallet, LoginByEmail, LoginCreate, LoginSign, CreateFind, CreateInsert,
     Abort, vars
<1> QED
  BY <1>2, <1>3, <1>4, <1>5, OthersLeaveRights, Zenon

\* No login and no update of an organizer's terms undoes what an administrator
\* set while it was under way, nobody becomes an administrator, and terms are
\* written by the organizer's own request only.
THEOREM RightsAreKept == Spec => RightsHold
<1>1. IInv /\ [Next]_vars => [RightsStep]_vars
  BY RightsStepHolds
<1>2. RightsStep <=>
        \A a \in Existing :
          /\ \A x \in Right :
               (x \in rows[a].rights) # (x \in rows'[a].rights) =>
                   \E s \in Slot :
                       /\ calls[s].pc = "update.write"
                       /\ calls[s].account = a
                       /\ x \in IF x \in rows[a].rights THEN calls[s].revoke
                                                       ELSE calls[s].grant
          /\ Settings(a) # Settings(a)' =>
               \E s \in Slot :
                   /\ calls[s].pc = "settings.write"
                   /\ calls[s].account = a
                   /\ calls[s].terms = Settings(a)'
  BY DEF RightsStep, ByAdmin, ByOrganizer, Settings
<1> QED
  BY <1>1, <1>2, AccountsInvariant, PTL DEF Spec, RightsHold

-----------------------------------------------------------------------------
(* Logins of people who have an account: the safety half of LoginFindsAccount *)

\* A login that is looking for an account there is, or has found it.
Bound(s) ==
    \/ /\ calls[s].pc \in {"login.wallet", "login.email"}
       /\ EmailTaken(calls[s].email)
    \/ calls[s].pc \in {"login.patch", "login.sign"}

\* Statements such a login has ahead, at most.
Ahead(pc) ==
    CASE pc = "login.wallet" -> 4
      [] pc = "login.email" -> 3
      [] pc = "login.patch" -> 2
      [] pc = "login.sign" -> 1
      [] OTHER -> 0

\* A request in flight has not been refused.
NotYetRefused == \A s \in Slot : calls[s] # Idle => ~refused[s]

\* A handler goes on only by its own next statement, or is cut short.
LEMMA OnlyItsOwn ==
    ASSUME IInv, [Next]_vars, NEW r \in Slot, calls[r] # Idle
    PROVE  \/ calls'[r] = calls[r] /\ refused'[r] = refused[r]
           \/ Proceed(r)
           \/ calls'[r] = Idle /\ refused'[r] = refused[r]
<1>1. calls \in [Slot -> CallRecord] /\ refused \in [Slot -> BOOLEAN]
  BY DEF IInv, CallsInv
<1>2. ASSUME NEW s \in Slot, s # r,
             \/ \E p \in Person : Login(s, p)
             \/ \E c \in Account, e \in Email : CreateCustomer(s, c, e)
             \/ \E c, a \in Account, x \in Changes : UpdateCustomer(s, c, a, x)
             \/ \E a \in Account, terms \in Terms : UpdateSettings(s, a, terms)
             \/ Abort(s)
      PROVE  calls'[r] = calls[r] /\ refused'[r] = refused[r]
  BY <1>1, <1>2 DEF Login, CreateCustomer, UpdateCustomer, UpdateSettings, Abort,
     Begin, Return
<1>3. ASSUME NEW s \in Slot, s # r, Proceed(s)
      PROVE  calls'[r] = calls[r] /\ refused'[r] = refused[r]
  BY <1>1, <1>3 DEF Proceed, LoginByWallet, LoginByEmail, LoginCreate, LoginPatch,
     LoginSign, CreateFind, CreateInsert, UpdateWrite, SettingsWrite, Found, Sign,
     Continue, Goto, Return, Refuse
<1>4. /\ \A p \in Person : ~Login(r, p)
      /\ \A c \in Account, e \in Email : ~CreateCustomer(r, c, e)
      /\ \A c, a \in Account, x \in Changes : ~UpdateCustomer(r, c, a, x)
      /\ \A a \in Account, terms \in Terms : ~UpdateSettings(r, a, terms)
  BY DEF Login, CreateCustomer, UpdateCustomer, UpdateSettings, Begin
<1>5. Abort(r) => calls'[r] = Idle /\ refused'[r] = refused[r]
  BY <1>1 DEF Abort, Return
<1>6. CASE UNCHANGED vars
  BY <1>6 DEF vars
<1> QED
  BY <1>2, <1>3, <1>4, <1>5, <1>6, Zenon DEF Next

\* Nothing changes or takes away the e-mail address of an account.
LEMMA EmailsStay == IInv /\ [Next]_vars => RowsKept
<1> SUFFICES ASSUME IInv, [Next]_vars, NEW a \in Account, rows[a].email # None
             PROVE  rows'[a].email = rows[a].email
  BY DEF RowsKept
<1>1. rows \in [Account -> Row] /\ a \in Existing
  BY DEF IInv, RowsInv, Existing, Exists
<1>2. ASSUME NEW e, NEW w, Insert(e, w) PROVE rows'[a] = rows[a]
  <2>1. FreshId \in Account /\ FreshId # a
    BY <1>1, <1>2 DEF Insert, FreshId, Existing, Exists
  <2> QED
    BY <1>1, <1>2, <2>1 DEF Insert
<1>3. ASSUME NEW s \in Slot, LoginPatch(s) \/ UpdateWrite(s) \/ SettingsWrite(s)
      PROVE  rows'[a].email = rows[a].email
  BY <1>1, <1>3 DEF LoginPatch, UpdateWrite, SettingsWrite, Row
<1>4. \/ \E s \in Slot : LoginPatch(s) \/ UpdateWrite(s) \/ SettingsWrite(s)
      \/ \E e, w : Insert(e, w)
      \/ UNCHANGED rows
  BY Zenon DEF Next, Login, CreateCustomer, UpdateCustomer, UpdateSettings, Proceed,
     LoginByWallet, LoginByEmail, LoginCreate, LoginSign, CreateFind, CreateInsert,
     Abort, vars
<1> QED
  BY <1>2, <1>3, <1>4

LEMMA NotYetRefusedStep ==
    ASSUME IInv, [Next]_vars, NotYetRefused
    PROVE  NotYetRefused'
<1>1. calls \in [Slot -> CallRecord] /\ refused \in [Slot -> BOOLEAN]
  BY DEF IInv, CallsInv
<1>2. ASSUME NEW s \in Slot, NEW c, Begin(s, c) PROVE NotYetRefused'
  BY <1>1, <1>2 DEF Begin, NotYetRefused
<1>3. ASSUME NEW s \in Slot, NEW c, calls[s] # Idle, Continue(s, c)
      PROVE  NotYetRefused'
  BY <1>1, <1>3 DEF Continue, NotYetRefused
<1>4. ASSUME NEW s \in Slot, Return(s) \/ Refuse(s) PROVE NotYetRefused'
  BY <1>1, <1>4 DEF Return, Refuse, NotYetRefused
<1>5. ASSUME NEW s \in Slot, Proceed(s) PROVE NotYetRefused'
  <2>1. calls[s] # Idle
    BY <1>5 DEF Idle, Proceed, LoginByWallet, LoginByEmail, LoginCreate, LoginPatch,
       LoginSign, CreateFind, CreateInsert, UpdateWrite, SettingsWrite
  <2> QED
    BY <1>3, <1>4, <1>5, <2>1, Zenon
       DEF Proceed, LoginByWallet, LoginByEmail, LoginCreate, LoginPatch, LoginSign,
           CreateFind, CreateInsert, UpdateWrite, SettingsWrite, Found, Sign, Goto
<1>6. CASE UNCHANGED vars
  BY <1>6 DEF vars, NotYetRefused
<1> QED
  BY <1>2, <1>4, <1>5, <1>6, Zenon
     DEF Next, Login, CreateCustomer, UpdateCustomer, UpdateSettings, Abort

\* The next statement of a bound login brings it closer to its token.
LEMMA BoundProceeds ==
    ASSUME IInv, NotYetRefused, RowsKept, NEW s \in Slot, Bound(s), Proceed(s)
    PROVE  \/ Bound(s)' /\ Ahead(calls'[s].pc) < Ahead(calls[s].pc)
           \/ calls'[s] = Idle /\ ~refused'[s]
<1>1. /\ calls \in [Slot -> CallRecord] /\ refused \in [Slot -> BOOLEAN]
      /\ calls[s] # Idle /\ ~refused[s]
  BY DEF IInv, CallsInv, Bound, Idle, NotYetRefused
<1>2. ASSUME NEW a \in Account, Found(s, a),
             calls[s].pc \in {"login.wallet", "login.email"}
      PROVE  Bound(s)' /\ Ahead(calls'[s].pc) < Ahead(calls[s].pc)
  <2>1. calls'[s].pc \in {"login.patch", "login.sign"}
    BY <1>1, <1>2 DEF Found, Sign, Continue, Idle, CallRecord
  <2> QED
    BY <1>2, <2>1 DEF Bound, Ahead
<1>3. CASE LoginByWallet(s)
  <2>1. CASE Goto(s, IF calls[s].email # None THEN "login.email" ELSE "login.create")
    <3>1. calls[s].email # None /\ EmailTaken(calls[s].email)
      BY <1>3 DEF Bound, LoginByWallet, EmailTaken, Existing, Exists
    <3>2. calls'[s] = [calls[s] EXCEPT !.pc = "login.email"]
      BY <1>1, <2>1, <3>1 DEF Goto, Continue
    <3>3. calls'[s].pc = "login.email" /\ calls'[s].email = calls[s].email
      BY <1>1, <3>2 DEF CallRecord
    <3>4. EmailTaken(calls[s].email)'
      BY <3>1, <3>3 DEF RowsKept, EmailTaken, Existing, Exists
    <3> QED
      BY <1>3, <3>3, <3>4 DEF Bound, Ahead, LoginByWallet
  <2> QED
    BY <1>2, <1>3, <2>1 DEF LoginByWallet, Existing
<1>4. CASE LoginByEmail(s)
  BY <1>2, <1>4 DEF LoginByEmail, Bound, EmailTaken, Existing
<1>5. CASE LoginPatch(s)
  <2>1. calls'[s].pc = "login.sign"
    BY <1>1, <1>5 DEF LoginPatch, Sign, Continue, Idle
  <2> QED
    BY <1>5, <2>1 DEF LoginPatch, Bound, Ahead
<1>6. CASE LoginSign(s)
  BY <1>1, <1>6 DEF LoginSign, Return
<1> QED
  BY <1>3, <1>4, <1>5, <1>6
     DEF Bound, Proceed, LoginCreate, CreateFind, CreateInsert, UpdateWrite,
         SettingsWrite

\* A login whose e-mail has an account never comes to its refusal or to a second
\* account, whatever overlaps: it stays bound for that account and each of its
\* statements brings it closer, until it ends, unrefused.
BoundStep(s) ==
    Bound(s) =>
        \/ /\ Bound(s)'
           /\ \/ calls'[s] = calls[s]
              \/ Ahead(calls'[s].pc) < Ahead(calls[s].pc)
        \/ calls'[s] = Idle /\ ~refused'[s]

BoundLoginsGoOn == [][\A s \in Slot : BoundStep(s)]_vars

THEOREM KnownLoginsGoOn == Spec => BoundLoginsGoOn
<1>1. Init => NotYetRefused
  BY DEF Init, NotYetRefused
<1>2. ASSUME IInv, NotYetRefused, [Next]_vars, NEW s \in Slot PROVE BoundStep(s)
  <2> SUFFICES ASSUME Bound(s)
               PROVE  \/ /\ Bound(s)'
                         /\ \/ calls'[s] = calls[s]
                            \/ Ahead(calls'[s].pc) < Ahead(calls[s].pc)
                      \/ calls'[s] = Idle /\ ~refused'[s]
    BY DEF BoundStep
  <2>1. calls[s] # Idle /\ ~refused[s] /\ RowsKept
    BY <1>2, EmailsStay DEF Bound, Idle, NotYetRefused
  <2>2. calls'[s] = calls[s] => Bound(s)'
    BY <2>1 DEF Bound, RowsKept, EmailTaken, Existing, Exists
  <2> QED
    BY <1>2, <2>1, <2>2, OnlyItsOwn, BoundProceeds
<1>3. IInv /\ NotYetRefused /\ [Next]_vars => \A s \in Slot : BoundStep(s)
  BY <1>2
<1> QED
  BY <1>1, <1>3, NotYetRefusedStep, AccountsInvariant, PTL DEF Spec, BoundLoginsGoOn

=============================================================================
