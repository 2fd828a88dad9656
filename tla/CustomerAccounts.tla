-------------------------- MODULE CustomerAccounts --------------------------
(***************************************************************************)
(* The customers' accounts: logging in through Privy finds or creates the  *)
(* account of a person (UserService.privy), an administrator creates and   *)
(* deactivates accounts and appoints organizers (ManageService; its list   *)
(* is in Paging), and an organizer sets the terms of resale                *)
(* (OrganizerService.updateSettings).                                      *)
(*                                                                         *)
(* One action is one segment between two awaits, as in TicketTrading, and  *)
(* an administrator's or organizer's request enters the model when its     *)
(* caller's row has been read and passed assertValidAdmin or               *)
(* assertValidOrganizer.  Nothing ever deletes an account: the first       *)
(* administrator's is put in by hand.                                      *)
(***************************************************************************)

CONSTANTS
    Account,      \* identifiers rows of table Customer may get
    Email, Wallet,  \* addresses Privy may know
    Person,       \* people who log in
    HolderOf,     \* the person each address belongs to
    Terms,        \* pairs of a resale fee rate and a maximum of resales
    DefaultTerms, \* those of a new row
    Slot,         \* requests that may be in flight together
    None,         \* SQL NULL / JavaScript undefined
    Changes,      \* the updates of rights administrators request
    Faults        \* may a handler be cut short (exception or restart)?

Address == Email \cup Wallet

\* status ACTIVE, isOrganizer and isAdmin; a request may set the first two.
Grantable == {"active", "organizer"}
Right == Grantable \cup {"admin"}

\* Columns set to true and to false; one that is not named keeps its value.
Change == [grant : SUBSET Grantable, revoke : SUBSET Grantable]

ASSUME ConstantsAssumption ==
    /\ Account # {}
    /\ None \notin Account \cup Address \cup Person \cup Terms
    /\ DefaultTerms \in Terms
    /\ Changes \subseteq {x \in Change : x.grant \cap x.revoke = {}}
    /\ HolderOf \in [Address -> Person]
    /\ Faults \in BOOLEAN

VARIABLES
    rows,     \* table Customer; an e-mail of None is no row
    calls,    \* the handler running in each slot
    refused   \* did the last login of a slot end in an exception of ours?

vars == <<rows, calls, refused>>

-----------------------------------------------------------------------------
(* Rows and handler records *)

\* wallet is column walletId, terms are resaleFeeRate and maxResaleTimes.
Row ==
    [email : Email \cup {None}, wallet : Address \cup {None},
     rights : SUBSET Right, terms : Terms]

NoRow ==
    [email |-> None, wallet |-> None, rights |-> {}, terms |-> DefaultTerms]

Pc ==
    {"idle", "login.wallet", "login.email", "login.create", "login.patch",
     "login.sign", "create.find", "create.insert", "update.write",
     "settings.write"}

\* What a handler holds between two awaits.
CallRecord ==
    [pc : Pc, person : Person \cup {None}, email : Email \cup {None},
     wallet : Address \cup {None}, account : Account \cup {None},
     grant : SUBSET Grantable, revoke : SUBSET Grantable,
     terms : Terms \cup {None}]

Idle ==
    [pc |-> "idle", person |-> None, email |-> None, wallet |-> None,
     account |-> None, grant |-> {}, revoke |-> {}, terms |-> None]

\* Which fresh identifier a row gets does not matter.
FirstId == CHOOSE a \in Account : TRUE

\* Somebody put the first administrator's row in by hand.
Init ==
    /\ \E e \in Email :
         rows = [[a \in Account |-> NoRow] EXCEPT ![FirstId] =
              [email |-> e, wallet |-> None, rights |-> {"active", "admin"},
               terms |-> DefaultTerms]]
    /\ calls = [s \in Slot |-> Idle]
    /\ refused = [s \in Slot |-> FALSE]

-----------------------------------------------------------------------------
(* Helpers *)

Exists(a) == rows[a].email # None
Existing == {a \in Account : Exists(a)}
EmailTaken(e) == \E a \in Existing : rows[a].email = e

Begin(s, call) ==
    /\ calls[s] = Idle
    /\ calls' = [calls EXCEPT ![s] = call]
    /\ refused' = [refused EXCEPT ![s] = FALSE]
Continue(s, call) ==
    /\ calls' = [calls EXCEPT ![s] = call]
    /\ UNCHANGED refused
Goto(s, pc) == Continue(s, [calls[s] EXCEPT !.pc = pc])
Return(s) ==
    /\ calls' = [calls EXCEPT ![s] = Idle]
    /\ UNCHANGED refused
Refuse(s) ==
    /\ calls' = [calls EXCEPT ![s] = Idle]
    /\ refused' = [refused EXCEPT ![s] = TRUE]

\* The unique index on the e-mail and its NOT NULL.
\* Mutant: no unique index.
InsertableAnyway(e) == e # None

Insertable(e) == e # None /\ ~EmailTaken(e)

\* Mutant: no default for the status.
NewRowNoStatus(e, w) ==
    [email |-> e, wallet |-> w, rights |-> {None}, terms |-> DefaultTerms]

NewRow(e, w) ==
    [email |-> e, wallet |-> w, rights |-> {"active"}, terms |-> DefaultTerms]
FreshId == CHOOSE a \in Account : ~Exists(a)
Insert(e, w) ==
    /\ Existing # Account
    /\ rows' = [rows EXCEPT ![FreshId] = NewRow(e, w)]

-----------------------------------------------------------------------------
(* UserService.privy *)

\* External: a person links and replaces addresses of theirs at Privy, so any
\* of them may be in the user record when it is read.
Profile(p) ==
    {prof \in [email : Email \cup {None}, wallet : Wallet \cup {None}] :
         \A x \in {prof.email, prof.wallet} \ {None} : HolderOf[x] = p}

\* getWalletsFromPrivy(...)[0]: the wallet, or else the first linked account
\* that has an address; an e-mail that Privy lists there has one, too.
FirstAddress(prof) ==
    IF prof.wallet # None THEN {prof.wallet} ELSE {prof.email, None}

\* The first lookup of the login: null is not looked up.
\* Mutant: it is, and matches the rows without a wallet.
FirstLookupAlways(e, w) == "login.wallet"

FirstLookup(e, w) ==
    IF w # None THEN "login.wallet"
    ELSE IF e # None THEN "login.email"
    ELSE "login.create"

\* The token was verified and the user record read.
Login(s, p) ==
    /\ \E prof \in Profile(p) : \E w \in FirstAddress(prof) :
         Begin(s, [Idle EXCEPT !.pc = FirstLookup(prof.email, w), !.person = p,
                               !.email = prof.email, !.wallet = w])
    /\ UNCHANGED rows

\* From here on the handler uses the identifier of the row only.
Sign(s, a) ==
    Continue(s, [Idle EXCEPT !.pc = "login.sign", !.person = calls[s].person,
                             !.account = a])

\* A row was found: a missing wallet is filled in, from the snapshot.
Found(s, a) ==
    IF rows[a].wallet = None
    THEN Continue(s, [calls[s] EXCEPT !.pc = "login.patch", !.account = a])
    ELSE Sign(s, a)

\* findFirst by wallet: of several rows, any.
LoginByWallet(s) ==
    LET call  == calls[s]
        match == {a \in Existing : rows[a].wallet = call.wallet}
    IN  /\ call.pc = "login.wallet"
        /\ \/ \E a \in match : Found(s, a)
           \/ /\ match = {}
              /\ Goto(s, IF call.email # None THEN "login.email"
                         ELSE "login.create")
        /\ UNCHANGED rows

\* Mutant: people are looked up by wallet only.
LoginByEmailNever(s) ==
    /\ calls[s].pc = "login.email"
    /\ Goto(s, "login.create")
    /\ UNCHANGED rows

LoginByEmail(s) ==
    LET call  == calls[s]
        match == {a \in Existing : rows[a].email = call.email}
    IN  /\ call.pc = "login.email"
        /\ \/ \E a \in match : Found(s, a)
           \/ /\ match = {}
              /\ Goto(s, "login.create")
        /\ UNCHANGED rows

LoginCreate(s) ==
    LET call == calls[s]
    IN  /\ call.pc = "login.create"
        /\ \/ /\ Insertable(call.email)
              /\ Insert(call.email, call.wallet)
              /\ Sign(s, FreshId)
           \/ /\ ~Insertable(call.email)
              /\ Refuse(s)
              /\ UNCHANGED rows

\* Mutant: an upsert, which writes the columns of a new row.
LoginPatchUpsert(s) ==
    LET call == calls[s]
        a    == call.account
    IN  /\ call.pc = "login.patch"
        /\ rows' = [rows EXCEPT ![a] = NewRow(rows[a].email, call.wallet)]
        /\ Sign(s, a)

LoginPatch(s) ==
    LET call == calls[s]
    IN  /\ call.pc = "login.patch"
        /\ rows' = [rows EXCEPT ![call.account].wallet = call.wallet]
        /\ Sign(s, call.account)

\* The row is read again and the token signed, whatever the row's status.
LoginSign(s) ==
    /\ calls[s].pc = "login.sign"
    /\ Return(s)
    /\ UNCHANGED rows

-----------------------------------------------------------------------------
(* ManageService: createCustomer, updateCustomer *)

IsAdmin(c) == "admin" \in rows[c].rights
ValidAdmin(c) == "active" \in rows[c].rights /\ IsAdmin(c)

CreateCustomer(s, c, e) ==
    /\ ValidAdmin(c)
    /\ Begin(s, [Idle EXCEPT !.pc = "create.find", !.email = e])
    /\ UNCHANGED rows

CreateFind(s) ==
    LET call == calls[s]
    IN  /\ call.pc = "create.find"
        /\ \/ /\ EmailTaken(call.email)
              /\ Return(s)
           \/ /\ ~EmailTaken(call.email)
              /\ Goto(s, "create.insert")
        /\ UNCHANGED rows

CreateInsert(s) ==
    LET call == calls[s]
    IN  /\ call.pc = "create.insert"
        /\ \/ /\ Insertable(call.email)
              /\ Insert(call.email, None)
           \/ /\ ~Insertable(call.email)
              /\ UNCHANGED rows
        /\ Return(s)

UpdateCustomer(s, c, a, x) ==
    /\ ValidAdmin(c)
    /\ Exists(a)
    /\ Begin(s, [Idle EXCEPT !.pc = "update.write", !.account = a,
                             !.grant = x.grant, !.revoke = x.revoke])
    /\ UNCHANGED rows

UpdateWrite(s) ==
    LET call == calls[s]
    IN  /\ call.pc = "update.write"
        /\ rows' = [rows EXCEPT ![call.account].rights =
                                     (@ \ call.revoke) \cup call.grant]
        /\ Return(s)

-----------------------------------------------------------------------------
(* OrganizerService: isOrganizer, updateSettings, getSettings *)

IsOrganizer(a) == "organizer" \in rows[a].rights
ValidOrganizer(a) == "active" \in rows[a].rights /\ IsOrganizer(a)

UpdateSettings(s, a, terms) ==
    /\ ValidOrganizer(a)
    /\ Begin(s, [Idle EXCEPT !.pc = "settings.write", !.account = a,
                             !.terms = terms])
    /\ UNCHANGED rows

\* By id alone, whatever an administrator took away meanwhile.
\* Mutant: the right just checked is written along with the terms.
SettingsWriteOrganizer(s) ==
    LET call == calls[s]
    IN  /\ call.pc = "settings.write"
        /\ rows' = [rows EXCEPT ![call.account].terms = call.terms,
                                ![call.account].rights = @ \cup {"organizer"}]
        /\ Return(s)

SettingsWrite(s) ==
    LET call == calls[s]
    IN  /\ call.pc = "settings.write"
        /\ rows' = [rows EXCEPT ![call.account].terms = call.terms]
        /\ Return(s)

\* What getSettings answers.
Settings(a) == rows[a].terms

-----------------------------------------------------------------------------

Proceed(s) ==
    \/ LoginByWallet(s) \/ LoginByEmail(s) \/ LoginCreate(s)
    \/ LoginPatch(s) \/ LoginSign(s)
    \/ CreateFind(s) \/ CreateInsert(s) \/ UpdateWrite(s)
    \/ SettingsWrite(s)

\* A statement or Privy fails, or the process is restarted.
Abort(s) ==
    /\ Faults
    /\ calls[s] # Idle
    /\ Return(s)
    /\ UNCHANGED rows

Next ==
    \E s \in Slot :
        \/ \E p \in Person : Login(s, p)
        \/ \E c \in Account, e \in Email : CreateCustomer(s, c, e)
        \/ \E c, a \in Account, x \in Changes : UpdateCustomer(s, c, a, x)
        \/ \E a \in Account, terms \in Terms : UpdateSettings(s, a, terms)
        \/ Proceed(s)
        \/ Abort(s)

Spec == Init /\ [][Next]_vars

\* The event loop resumes every handler whose statement has answered.
FairSpec == Spec /\ \A s \in Slot : WF_vars(Proceed(s))

-----------------------------------------------------------------------------
(* Properties *)

\* Every row and handler record has its type.
TypeOK ==
    /\ rows \in [Account -> Row]
    /\ calls \in [Slot -> CallRecord]
    /\ refused \in [Slot -> BOOLEAN]

\* A login never leads to another person's account: the e-mail and the wallet
\* of a row have one holder, and a token is signed for nobody else, however
\* logins, new addresses and administrators' requests overlap.
OwnAccount ==
    /\ \A a \in Existing :
         rows[a].wallet # None =>
             HolderOf[rows[a].wallet] = HolderOf[rows[a].email]
    /\ \A s \in Slot :
         calls[s].pc = "login.sign" =>
             /\ Exists(calls[s].account)
             /\ HolderOf[rows[calls[s].account].email] = calls[s].person

\* As many accounts as e-mail addresses: two first logins, or a login and an
\* administrator's request, that both found no row do not both create one.
OneAccountPerEmail ==
    \A a, b \in Existing : rows[a].email = rows[b].email => a = b

\* A status or a role an administrator set is changed by administrators only,
\* and an organizer's terms by that organizer only: a login or an update of the
\* terms that read the row before an await does not write its rights back.
RightsHold ==
    [][\A a \in Existing :
         /\ \A x \in Right :
              (x \in rows[a].rights) # (x \in rows'[a].rights) =>
                  \E s \in Slot :
                      /\ calls[s].pc = "update.write"
                      /\ calls[s].account = a
                      /\ x \in IF x \in rows[a].rights THEN calls[s].revoke
                                                      ELSE calls[s].grant
         /\ Settings(a) # Settings(a)' =>
              \E s \in Slot :
                  /\ calls[s].pc = "settings.write"
                  /\ calls[s].account = a
                  /\ calls[s].terms = Settings(a)']_vars

\* A login for whose e-mail there is an account when it starts succeeds, if it
\* is not cut short: it never ends in a second account or its refusal.
LoginFindsAccount ==
    \A s \in Slot :
        /\ calls[s].pc \in {"login.wallet", "login.email"}
        /\ EmailTaken(calls[s].email)
        ~> calls[s] = Idle /\ ~refused[s]

=============================================================================
