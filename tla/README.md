# Verification of the SportsX ticket backend

TLA+ specifications of the parts of this backend where requests meet: the
trading of tickets and their admission at the gate, the organizer's work on an
event before it goes on sale, the accounts of customers, the sessions of
administrators, and what is shown to all of them while the tables change. TLC
checks them on small instances; TLAPS proves the safety properties that hold
under every overlap of requests for all values of the constants.

Source paths below are relative to `src/modules/customer` unless they start
with another directory of the repository.

- [1. The system](#1-the-system)
- [2. How the code is modelled](#2-how-the-code-is-modelled)
- [3. TicketTrading and TicketCustody](#3-tickettrading-and-ticketcustody)
- [4. EventLifecycle](#4-eventlifecycle)
- [5. CustomerAccounts](#5-customeraccounts)
- [6. AdminSessions](#6-adminsessions)
- [7. What is shown: Storefront, Paging, MenuTree](#7-what-is-shown-storefront-paging-menutree)
- [8. Runs](#8-runs)
- [9. Proofs](#9-proofs)
- [10. Where comments and code disagree](#10-where-comments-and-code-disagree)
- [11. Not modelled](#11-not-modelled)
- [12. Plan](#12-plan)

## 1. The system

One NestJS process serves customers, organizers, gate staff and administrators
over HTTP, keeps its state in PostgreSQL through Prisma, signs transactions for
a program on Solana, and uploads images and metadata to Pinata (IPFS). No
handler opens a database transaction of its own: each statement commits alone.
(Only a page of a list and its total are read in one.)

| Component | State | Operations | Module |
|---|---|---|---|
| Ticket trading, `user/user.service.ts` | `EventTicket` (status, owner, price, resaleTimes, lastOrderId, nftTokenId), `EventTicketOrder` | checkoutTicket, pay, updateOrder, resale, unlist; lists of tickets and orders | TicketTrading |
| Check-in, `user/user.service.ts`, `staff/staff.service.ts` | signed codes of five minutes, ticket status | User checkIn, Staff checkIn; checkInVerify, isEventStaff, events only read | TicketTrading, Storefront |
| Event lifecycle, `organizer/organizer.service.ts` | `Event`, Pinata, the event account on Solana | createEvent, updateEvent, previewEvent, publishEvent, deleteEvent | EventLifecycle |
| Types and seats, `organizer/organizer.service.ts` | `EventTicketType`, `EventTicket` | addEventTicketType, addEventTicketTypeWithTickets, updateEventTicketType, removeEventTicketType, updateEventTicket | EventLifecycle |
| Staff roster, `organizer/organizer.service.ts` | `EventStaff` | addEventStaff, removeEventStaff | EventLifecycle |
| Stages and counters, `organizer`, `marketplace` | none | getEventStage, getCheckable, events, types and tickets with their counters | Storefront |
| Customer accounts, `user`, `manage` | `Customer` | login through Privy; create, update and list by an administrator; isAdmin, isOrganizer | CustomerAccounts, Paging |
| Admin sessions, `src/modules/admin/user`, `core/guards` | `User`, JWTs | login, refresh, AuthGuard, change of password | AdminSessions |
| Admin users and roles, `src/modules/admin` | `User`, `Role`, `UserRole` | create, update, delete, deleteMany | AdminSessions |
| Menus and APIs, `src/modules/admin`, `src/utils` | `Menu`, `Api` | create, update, delete; trees computed in memory | MenuTree |
| Prisma extensions, `src/modules/shared/prisma` | none | getPaginatedList, findManyAndCount, exists | Paging |
| Solana client, `src/modules/shared/solana` | the chain, the event's transaction hash | mintPartialSign, createEvent, initPlatformConfig | TicketTrading, EventLifecycle |
| Organizer settings, `organizer` | resale fee rate and maximum of resales of `Customer` | updateSettings, getSettings | CustomerAccounts |
| HTTP layer, configuration | none | guards, validation, formatting | - |
| On-chain program, `target/idl` | event accounts, mints | external; only its interface is here | - |

How they interact. A login gives a customer an account; an administrator may
deactivate it or make its owner an organizer. The organizer creates an event, its
types and its seats;
publishing copies the event to Solana and makes it ACTIVE. From then on the
marketplace shows it and customers trade its tickets. Checkout and pay return
a transaction the backend has signed in part; the client completes it, sends
it to the chain and tells the backend by updateOrder. The owner of a ticket
obtains a code, and a member of staff of the event scans it. Organizer and
customers share the tables `Event`, `EventTicketType` and `EventTicket`, and
checkout does not look at the event's stage. Administrators are other people
with another table of users; what they may do is in their tokens.

What is hard here:

- a handler reads rows, awaits (the database, Solana, Pinata, Privy) and then
  writes by id alone, so every check may be stale when the write happens;
- handlers of several statements may stop halfway (exception, restart);
- clients report payments, possibly twice, out of order or for competing
  orders, and nothing in updateOrder tells a repetition from a report;
- deletions of several statements run while rows they look for are created;
- stores outside the database (Pinata, Solana) remember what an interrupted
  handler did, and refuse its repetition;
- a login finds an account by an address Privy named before the await, and
  creates one if there was none a moment ago;
- permissions live on in tokens after the rows they came from have changed;
- answers are put together from several statements and several readings of the
  clock, none of which sees the same moment.

What makes the components correct:

- Trading: a ticket belongs to somebody who reported an order for it; owner and
  last order stay a pair; every report is completed; no entry without a payment
  report; what is used, paid or given a token stays so once the requests that
  overlapped are through; every ticket paid for is on a list.
- Lifecycle: an event on sale has its metadata, its account and its transaction;
  what it shows is what was published; an event on sale is frozen; every account
  created is recorded; no draft is locked out by its own image.
- Types and seats: the type of a seat is of the seat's event; no row outlives
  its event; a ticket somebody ordered is never deleted.
- Accounts: nobody gets into another person's account; an address has one
  account; rights are changed by administrators alone and terms by their organizer;
  a login finds the account there is.
- Sessions: a right that was taken away, or granted, counts before long; names
  are unique; the sessions of deleted users end.
- What is shown: a stage is that of some moment and goes forward, the endpoints
  that judge by time agree and a part is no larger than its total, all but for
  organizers' writes that come late; no page skips a row; no menu drops out of its
  tree.

`PROJECT.json` lists the hazards by line with the properties that cover them.

## 2. How the code is modelled

**Segments.** Node runs a handler without interruption between two `await`s. An
action is one such segment: at most one database statement (they autocommit) and
the synchronous code after it. `calls[s]` is the handler in slot `s`: `pc` names
its next statement, the other fields what it keeps across awaits. Segments of
other slots run in between. Where a handler reads several things and the first
ones cannot change in the model or write nothing, they are read in the segment
that uses them; comments at the actions say so.

**Requests.** `Arrive(s)` starts a handler in an idle slot with arguments chosen
from the constants. The first statement of each endpoint reads the caller's row;
a caller who is not ACTIVE is refused, which changes nothing and is no step.
`Slot` bounds the requests in flight. With one slot requests do not overlap;
properties that hold only then say so ("As long as requests do not overlap").

**Faults.** `Abort(s)` ends a handler anywhere: a query or an RPC throws, or the
process restarts (one such step for every slot). What it wrote stays. Payments
are settled and accounts on Solana recorded only if handlers are not cut short:
those runs set `Faults = FALSE`.

**Environment.** `OwnOrdersOnly` says that clients report payments of their own
orders; `OwnTypesOnly` says that clients name ticket types of the event they
edit. The code tests neither. trading_serial and lifecycle_seats leave them
FALSE; the other runs set them, for the properties that need them or to keep the
instance small, and the theorems hold for either value. `Inputs` selects the
requests of an instance.

**Fairness.** The event loop resumes every handler whose query or RPC has
answered: weak fairness of `Proceed(s)` for each slot (`FairSpec`). AdminSessions
adds that time passes (weak fairness of `Tick`), which tokens expire by. Nothing
is assumed of clients: no request has to arrive.

**Data.** Prices, images, seats and tokens are members of small sets; a column
that only its presence matters for (`txHash`, `solanaTransactionHash`, symbol) is
a Boolean. Left out: names, descriptions, colours, `previousPrice`, `checkInAt`,
the gate's transaction hash and staff id on the ticket, and, outside Storefront,
the times of an event, none of which a modelled handler tests.

**Bounds.** Identifiers are handed out once (`uuid()` never repeats), so `Order`,
`Event`, `Type` and `Ticket` bound how many rows an instance may create; the
guards named "Bounded by ..." keep a handler from needing an identifier that is
not left. `MaxTimes` bounds `resaleTimes`, `MaxAdmissions` the admissions counted.

## 3. TicketTrading and TicketCustody

`TicketTrading` has the tables `tickets` and `orders`, the customers `active`,
the clock as far as the gate asks it (`ended`), the unexpired `codes`, and two
history variables no handler reads: `offers` (transactions returned) and
`admissions`.

| Handler | Actions |
|---|---|
| checkoutTicket | Checkout, CheckoutRead, CheckoutSign (mintPartialSign), CheckoutCreate |
| pay | Pay, PayRead, PaySign |
| updateOrder | UpdateOrder, SettleRead, SettlePaid, SettleLook, SettleWrite, SettleDone |
| resale, unlist | Resale, ResaleRead, ResaleWrite; Unlist, UnlistRead, UnlistWrite |
| checkIn of the customer | RequestCode, IssueCode; ExpireCode |
| checkIn of the gate | Scan, ScanRead, ScanStaff, ScanHolder, ScanWrite |
| updateCustomer, passage of time | UpdateCustomer; EventEnds |

The tickets of this module are those of one event on sale, created as the
organizer's endpoints create them (NEW, NOT_FOR_SALE or NOT_EXIST). Edits by the
organizer are the subject of EventLifecycle, where `ActiveIsFrozen` says under
which conditions they leave tickets on sale alone.

A report may carry an NFT token, none, or null: PayDto's `nftToken` is optional,
which lets JSON null (and the empty string) through. Prisma leaves a column alone
when it is updated to undefined and empties it when updated to null; `Column` is
that difference, with the constants `None` and `Null`.

`TicketCustody` is the promise without handlers: orders are opened, reported,
closed; a ticket passes to a customer only on a reported order for that ticket,
together with the title to it. `ImplementsCustody` maps owner, last order,
ticket of an order and stage of an order to it. The status of a ticket, the
handlers and faults are invisible there: each database write of trading is one
step of custody or a stutter, in spite of the three statements of updateOrder.

The lists of a customer's tickets and orders (`TicketsOf`, `UpcomingOf`,
`ResalesOf`, `OrdersBuyer`, `OrdersSeller`) are operators over the tables, as
each is one query; properties are stated in terms of them.

Properties that hold however requests overlap and stop: CirculationBacked,
CallsBacked, PaidTicketsAreListed, OwnerIsLastBuyer and SellersHadPaid (for
clients that report their own orders), ImplementsCustody, and
TransferedMeansHeld, which is part of the inductive invariant of section 9.
With no faults also PaidIsInFlight and PaidGetsTransfered.

Three more say how far an overlap can do damage. Handlers write by id what they
decided before, so an unlisting may undo an admission, a second gate repeat it, a
report replace or erase the token of another, and a pay sign what was paid while it
waited. SpentStaysSpent, TokenStaysSettled and PaidOffersEnd say that this ends with
the requests that overlapped: once no handler that read the ticket earlier has yet to
write it, a used ticket is not listed or admitted again before the next payment
report, a token is never replaced or erased, and nobody is given another
transaction to pay an order that was reported. `Spent`, `TokenSettled` and `Paid`
name the requests that have to be through.

AdmissionsBacked needs requests not to overlap (two gates may read the same SOLD
row and admit it twice). It counts payment reports, repeated ones included.

## 4. EventLifecycle

The tables `events`, `types`, `tickets`, `staff`; `ordered`, the tickets orders
refer to; `used`, the identifiers handed out; `pinned`, the images Pinata has,
and `chain`, the metadata in the event's account on Solana.

| Handler | Actions |
|---|---|
| createEvent, removeEventStaff | CreateEvent; RemoveEventStaff |
| updateEvent | UpdateEvent, UpdateWrite |
| previewEvent | PreviewEvent, PreviewAvatar, PreviewWrite |
| publishEvent, SolanaService.createEvent | PublishEvent, PublishLook, PublishRpc, PublishHash, PublishActive |
| deleteEvent | DeleteEvent, DeleteCheck, DeleteTickets, DeleteTypes, DeleteEventRow |
| addEventStaff | AddEventStaff, StaffFind, StaffCreate |
| addEventTicketType | AddEventTicketType, TypeCreate |
| addEventTicketTypeWithTickets | AddEventTicketTypeWithTickets, SeatsType, and SeatsFind, SeatsCreate per seat |
| removeEventTicketType | RemoveEventTicketType, RemoveCheck, RemoveTickets, RemoveType |
| updateEventTicket | UpdateEventTicket, EditTicket, EditType, EditWrite |
| trading, as far as it concerns these tables | PlaceOrder, Trade |

The checks of the caller (an active organizer who owns the event) are the
guard of entering the model: neither changes here. Foreign keys restrict
deletions as the migrations say: a statement that would break one throws and
changes nothing. The list of seats is chosen as the loop goes, which covers
every list. The upload of metadata follows the upload of the image within the
step that writes PREVIEW: it names the new image and is never a duplicate.
updateEvent may set or clear any of the columns modelled at once; as it writes them
by id, they are chosen in the segment that writes.

`PlaceOrder` and `Trade` over-approximate TicketTrading: an order for any ticket
that exists, since checkoutTicket tested the status before its awaits, and any
circulating status for a ticket with an order. That trading does no more than
that to these tables is a theorem (TradingIsAsLifecycleAssumes). `TicketsOf` and
`StaffOf` are the answers of getEventTickets and getEventStaffs.

However requests overlap and stop: RowsConnected, OrdersKeepTickets,
CallsConnected, ActiveIsBacked, OnlyFaultsStrandImages. Without faults:
AccountGetsRecorded. With one request at a time: MetadataIsCurrent and, with
`OwnTypesOnly`, ActiveIsFrozen.

OnlyFaultsStrandImages is about the check for duplicate images: an image uploaded
for a draft by a handler that stops before it stores the result is refused from then
on (`LockedOut`). The property says that this takes such a stop, and that no overlap
of updates, previews and deletions does the same. It says nothing of an image that
was uploaded for another event, or for one deleted since: the check refuses that
one too, for good.

## 5. CustomerAccounts

The table `rows` (Customer: e-mail, wallet, `rights`, which are the status ACTIVE
and the roles of organizer and administrator, and the organizer's `terms`, a resale
fee rate and a maximum of resales), the handlers, and `refused`, a history
variable: whether the last login of a slot ended in an exception of its own.

| Handler | Actions |
|---|---|
| privy (login) | Login, LoginByWallet, LoginByEmail, LoginCreate, LoginPatch, LoginSign |
| createCustomer | CreateCustomer, CreateFind, CreateInsert |
| updateCustomer | UpdateCustomer, UpdateWrite |
| updateSettings | UpdateSettings, SettingsWrite |
| isAdmin, isOrganizer, getSettings | operators IsAdmin, IsOrganizer, Settings |

Each address belongs to one person (`HolderOf`): Privy verifies addresses, and
two people do not share one. People link and replace addresses at Privy whenever
they like, so the user record a login reads has any of theirs (`Profile`), and two
overlapping logins of a person may carry different ones. `Login` starts when Privy
has answered. The wallet is whatever `getWalletsFromPrivy(...)[0]` gives, an e-mail
address in the absence of wallets, or nothing; e-mails are unique and not null,
wallets are neither. Which fresh identifier a row gets is fixed (`FreshId`), as
nothing depends on it. A customer who has been deactivated still gets a token; the
other handlers refuse it. `updateSettings` tests the organizer's rights before an
await and writes by id: terms may still change just after the role was taken away.

Properties, however two requests overlap and stop: OwnAccount (a null wallet is
not looked up, or it would match all accounts without one), OneAccountPerEmail
(only the unique index stands in the way of two first logins), RightsHold (the
login's patch and the update of the terms write nothing they have read, so neither
undoes what an administrator decided in between), LoginFindsAccount (liveness).

## 6. AdminSessions

`users`, `roles`, `assigned` are tables; `session` the pair of tokens the client
of a user holds. `lost` and `lacked` are history: ticks since the user's roles
last granted the permission, and since they last did not.

| Handler | Actions |
|---|---|
| login (validateUser, signing) | LoginRead, LoginSign |
| refresh (getJwtPayloadData, signing) | Refresh, RefreshRead |
| create of users | CreateUser, CreateInsert |
| update, delete, deleteMany of users | UpdateUser, DeleteUsers |
| create, update, delete, deleteMany of roles | CreateRole, UpdateRole, DeleteRoles |
| AuthGuard | operators Passes, Forbidden |
| time | Tick |

Permissions are looked at through one of them: AuthGuard tests each endpoint's
alone. An answer may be lost on the way (`Sign`), and the client then keeps its old
pair. The payload of a login carries no apiPermissions, so until the first
refresh the guard answers neither yes nor no, but throws (`"absent"`). Whoever may
administer does so at any time; the super administrator passes every guard.

VerdictsAreRecent bounds how far the guard lags behind the tables by the life of
an access token, in both directions. Since RefreshRead reads the rights again,
refreshing never prolongs a right, and DeletedSessionsEnd says that it does not
prolong the session of a deleted user. For a user who is frozen neither is so: see
section 10.

## 7. What is shown: Storefront, Paging, MenuTree

**Storefront** is one event, its tickets of one type, the server's clock, and one
client that reads, while organizer and customers write:

| Write | Action | When it may land |
|---|---|---|
| updateEvent, last statement | UpdateEvent | whatever the status is: it was DRAFT when the request read it, and every event was once |
| previewEvent, last statement | PreviewEvent | likewise; an event on sale is taken off sale |
| publishEvent, last statement | PublishEvent | once (`launched`), over PREVIEW: its RPC creates the account and succeeds once |
| addEventTicketTypeWithTickets, one seat | AddSeat | at any time: the stage was tested before the first seat |
| updateEventTicket | EditTicket | at any time, on any ticket |
| deleteEvent and removeEventTicketType, their deletion of tickets | RemoveSeats | while no ticket is ordered, or the foreign key refuses the statement |
| checkoutTicket, last statement | PlaceOrder | for any ticket there is |
| updateOrder, resale, unlist, gate | Trade | on any ticket ordered |

Each is one statement by id and atomic; which handlers lead to it, and that nothing
keeps them from being in flight when the event has moved on, is EventLifecycle's
and TicketTrading's subject. The deletion of the event's row is left out, as an
event that is gone is shown to nobody. Two history variables record when a write
came late: `late` says that updateEvent has hit an event that was no draft any more
or previewEvent one on sale; `overtaken` holds the tickets that were added or edited
although on sale or ordered, or ordered although not on sale any more.

| Handler | Actions |
|---|---|
| getEventStage, getCheckable | operators GetEventStage, GetCheckable over readings of the clock |
| organizer getEvents, staff events | ReadStage, StaffEvents |
| organizer getEvent | GetOwnEvent, OwnSeats |
| marketplace getEvents, getEvent | GetEvent, CountTotal, CountLeft, CountResale |
| getEventTicketTypes of both | GetEventTicketTypes, CountTypeTotal, CountTypeSold |
| marketplace getEventTickets | GetEventTickets |
| checkInVerify, first part of the gate's checkIn | CheckInVerify, GateTime |

getEventStage calls `new Date()` for every comparison, up to eight times, and
getCheckable twice more: any time passes between any two (`Readings`), and the
clock stands at the last one afterwards. The organizer's times are in no order that
anything enforces: a sale may stop before it starts, an event end before it begins,
spans of minutes be negative. For all of them
StageOfAnInstant says that the stage answered is one the event had at an instant
while it was worked out, and in particular that some branch answers;
StageGoesForward that no client sees an event go back before a write came late
(`late`): to be shown a row read before it was published, or time passing between
tests, does not suffice. CheckableAgrees relates the stage to the two other endpoints
that judge by the clock: an ENDED event is not checkable, and the gate, although it
compares a later clock with an older row, turns nobody away as too late from a LIVE
event, unless that row was a draft or a write came late. OnSaleIsListed relates it to
the list of tickets, whose end is counted from another time. CountsAddUp relates
counters read one after the other: tickets traded in between never make the part
exceed its total, and each of those that `overtaken` holds accounts for one at most.
The three exceptions are real: without them TLC finds each property violated.

**Paging** is the list of customers an administrator pages through, newest first,
while customers sign up: `SignUp`, `OpenList`, `FindMany`, `CountLast` or
`CountMore`. The rows of a page and the total are two statements at READ COMMITTED.
Rows are dated before they are inserted, so that one may appear behind newer ones.
That the client stops when the pages asked for hold the total reported is an
assumption about clients; that nobody is missed then (PagesMissNobody) is not.
Customers with one and the same createdAt, whose order the database may choose
anew for each query, are left out. PageDto refuses pages and sizes below 1.

**MenuTree** is table Menu (`CreateMenu`, `UpdateMenu`, `DeleteMenu`, with the
foreign key that sets a deleted parent to null) and the trees made of it by
`convertFlatDataToTree` and `filterEmptyDirectories`. A node is known by its id, so
each of the two recursions is a function on the rows (`Copies`, `Remains`) that
gives the ids left of a node and what hangs from it. They are compared with
reference definitions without recursion: what is above a row is in every set of
rows that holds the row's parent and the parents of its members (`Above`).
TreeHoldsRooted and NavigationIsExact say which menus a tree holds, for every table
that updates can produce. Menus whose parents form a cycle, which nothing prevents,
are in no tree.

## 8. Runs

Times are for two workers.

| Run | Instance | Distinct states | Question |
|---|---|---|---|
| trading_overlap | 2 slots, 1 ticket, 2 orders, 2 customers, 2 tokens, faults | 568,403 (75 s) | What survives every overlap and interruption of two requests |
| trading_serial | 1 slot, 1 ticket, 2 orders, any caller, faults, deactivation, the event's end | 341,206 (15 s) | What holds while requests do not overlap |
| trading_live | 2 slots, no faults, fair | 185,651 (40 s) | Is every reported payment settled |
| lifecycle_serial | 1 slot, 2 events, 2 types, 1 ticket, 2 images, faults | 480,313 (25 s) | Is an event on sale frozen and shown as published |
| lifecycle_publish | 2 slots, 2 events, 2 images, no faults, fair | 139,960 (30 s) | Overlapping update, preview, publish, delete |
| lifecycle_seats | 2 slots, 2 events, 2 types, 1 ticket, 1 seat, faults | 675,502 (65 s) | Overlapping changes of types, seats, staff, events |
| accounts | 2 slots, 2 people, 2 e-mails, 1 wallet, 3 rows, 3 changes of rights, 2 terms, faults, fair | 307,549 (90 s) | Do logins lead to the right account, one per address, and find it |
| sessions | 1 slot, 2 users, 2 names, 1 role, lives of 1 and 2 ticks, faults, fair | 258,465 (2 min) | How long do tokens outlive what they were made from |
| reads | 6 schedules, 2 tickets, 4 ticks; 4 customers, pages of 2; 3 menus | 195,631 (60 s) | Is what is shown consistent while time passes and tables change |

Why the bounds are enough to be interesting. Two slots give every overlap of two
requests; handlers hold no locks, so a third request adds no new kind of
interference with one await. Two orders of one ticket compete for it, and two
customers are a buyer and a seller who may each report, list and scan. Two tokens
are needed for one to replace the other, two images for a preview to be outdated,
two events for a type of the wrong event. No property depends on prices. One ticket is enough for the properties
checked, as no handler reads two tickets of trading, and in EventLifecycle each
statement on many tickets is atomic; the proofs cover any number.
Of two people one has a wallet and may use either kind of address, the other has
an e-mail only; three rows leave one for an account that must not come to be. One
request suffices in AdminSessions, as administration is not confined to slots and
runs into it at every await. Six schedules are a proper one and five that break
the order of times in different ways (`Schedules` in MCReads says which), within
four ticks; two tickets let one be counted and the other be sold in between. Four
customers fill two pages of two, and three menus have a cycle with a menu below
it, or a directory two levels above its page.

The parts of `reads` share no state; a behaviour of MCReads is about one of them
(`part`), so that the run is the sum of their states and not the product. The stages
and the counters of an event are two parts: no ticket plays a role in the former,
and no time in the latter, where the event has one schedule and requests come on
the last tick.

Symmetry permutes sets of identifiers that no definition distinguishes, in runs
of safety properties only. `CHECK_DEADLOCK FALSE` appears where an instance
really stops because its identifiers or its time are used up, or where nothing
has to arrive.

Every property of a passing run comes with a mutant of a definition (kept beside
the definition, commented as such) under which TLC finds the property violated:
a status test that is dropped, a column not written, a foreign key that cascades.

## 9. Proofs

Eight modules of proofs, for all constants that satisfy the assumptions of the
module (None is no identifier, the switches are Boolean, an access token lives no
longer than a refresh token, a page holds a row; the times of an event are any
integers), with and without faults, for any number of requests in flight:

| Module | Theorem | Statement |
|---|---|---|
| TicketTradingProofs | TypeCorrect | `Spec => []TypeOK` |
| | CirculationIsBacked | `Spec => []CirculationBacked` |
| | CompletedOrdersAreHeld | `Spec => []TransferedMeansHeld` |
| | SnapshotsStayBacked | `Spec => []CallsBacked` |
| | OwnersAreBuyers | `Spec => []OwnerIsLastBuyer` |
| | SellersPaid | `Spec => []SellersHadPaid` |
| | ListsMissNoTicket | `Spec => []PaidTicketsAreListed` |
| | PaidOrdersAreInFlight | `Spec => []PaidIsInFlight` |
| | ReportsReachTheirEnd | `Spec => ReportsMoveOn` |
| | TokensAreKept | `Spec => TokenStaysSettled` |
| | UsedStaysUsed | `Spec => SpentStaysSpent` |
| | NobodyPaysTwice | `Spec => PaidOffersEnd` |
| | TradingImplementsCustody | `Spec => ImplementsCustody` |
| | TradingIsAsLifecycleAssumes | `Spec => [][OrganizerTrade]_(Organizer!vars)` |
| | OrderedTicketsWereBuyable | every order stored is for a ticket NEW or circulating |
| TicketTradingSerialProofs | OneAdmissionPerSale | `Serial => (Spec => []AdmissionsBacked)` |
| EventLifecycleProofs | LifecycleTypeCorrect | `Spec => []TypeOK` |
| | RowsStayConnected | `Spec => []RowsConnected` |
| | OrderedTicketsRemain | `Spec => []OrdersKeepTickets` |
| | ChecksOutliveAwaits | `Spec => []CallsConnected` |
| | OnSaleIsBacked | `Spec => []ActiveIsBacked` |
| | NoImageIsStranded | `Spec => OnlyFaultsStrandImages` |
| | AccountsAreBeingRecorded | `Spec => []AccountsHaveRecorder` |
| | RecordersOnlyRecord | `Spec => RecorderOnlyRecords` |
| | StrandedStayStranded | `Spec => StrandedForGood` |
| EventLifecycleSerialProofs | MetadataStaysCurrent | `Serial => (Spec => []MetadataIsCurrent)` |
| | ActiveStaysFrozen | `Serial /\ OwnTypesOnly => (Spec => ActiveIsFrozen)` |
| CustomerAccountsProofs | AccountsTypeCorrect | `Spec => []TypeOK` |
| | NobodyElsesAccount | `Spec => []OwnAccount` |
| | OneAccountEach | `Spec => []OneAccountPerEmail` |
| | RightsAreKept | `Spec => RightsHold` |
| | KnownLoginsGoOn | `Spec => BoundLoginsGoOn` |
| AdminSessionsProofs | SessionsTypeCorrect | `Spec => []TypeOK` |
| | GuardIsRecent | `Spec => []VerdictsAreRecent` |
| | NamesStayUnique | `Spec => []UsernamesUnique` |
| | GoneUsersWindDown | `Spec => DeletedUsersWindDown` |
| StorefrontProofs | StorefrontTypeCorrect | `Spec => []TypeOK` |
| | StageIsAtomic | `Spec => []StageOfAnInstant` |
| | StageOnlyAdvances | `Spec => StageGoesForward` |
| | CheckableIsConsistent | `Spec => []CheckableAgrees` |
| | SaleIsListed | `Spec => []OnSaleIsListed` |
| | CountersAreConsistent | `Spec => []CountsAddUp` |
| BackOfficeProofs | WalksMissNobody | `PagingSpec => []PagesMissNobody` |
| | PagingTypeCorrect | `PagingSpec => []PagingTypeOK` |
| | TreesHoldRooted | `MenuSpec => []TreeHoldsRooted` |
| | NavigationStaysExact | `MenuSpec => []NavigationIsExact` |

*The argument, for handlers.* None of the safety invariants is inductive alone: a
write by id is safe because of what its handler learned earlier, and that is still
true because no other step undoes it. In each module of handlers the inductive
invariant `IInv` therefore joins the invariants of the tables with one about every
handler record (CallsBacked, CallsConnected, CallsInv), and the proof has three
parts:

1. a relation between the tables of a state and of the next that every step
   satisfies: `Grows` in trading (a circulating ticket circulates, a reported
   order stays reported), `Persists` in the lifecycle (identifiers stay used; of a
   used one the row keeps its event, its stage beyond DRAFT and its recorded
   account, or is gone for good), `RowsKept` in the accounts (a row keeps its
   e-mail);
2. a lemma that a record backed by the tables stays backed along that relation
   (BackedStable), so that a step has to justify only the record it changes
   (CallStep, QuietStep, ReturnStep);
3. one lemma per action, and lemmas for the kinds of writes (EventWrite,
   TypeWrite, TicketWrite, BulkDelete) that several actions share.

*TicketTrading.* `IInv` adds `OrdersBacked`: an order in use names a ticket and a
buyer. Four properties need more than IInv and are proved on top of it, each by an
invariant of its own: PaidTicketsAreListed by `UsedWasAdmitted` (a used ticket has
been admitted), OwnerIsLastBuyer by `ReportsAreOwn` (a report in progress is the
buyer's), SellersHadPaid by `CheckoutsHadPaid` (the owner a checkout has read
once paid), PaidIsInFlight by the observation that a report writes PAID and moves
on in one step, and that only the report itself leaves its three last segments.
The three properties about the end of an overlap are proved step by step from IInv:
a lemma says what each action does to the history variables (HistoryWrites), one
which segment follows which (CallProceeds), and one that a handler comes to wait
with a decision about a ticket or an order only by a read that tests its row
(WaitingMoves), which a used ticket, a stored token and a reported order do not pass.

*EventLifecycle.* `IInv` adds `RowsRegistered` (a row's identifier was handed
out, a deleted ticket is blank), without which an identifier of a deleted row
could come back under a handler that still names it, and `EventsBacked`, which
ActiveIsBacked follows from. OnlyFaultsStrandImages needs to know that an image at
Pinata was uploaded for an event that was created (`UploadsOld`). A draft becomes
locked out either because the image arrives, and then the handler that uploaded it
is there to store it; or because the event becomes a draft, which none does that an
image was uploaded for (DraftsAreOld); or because the last handler about to store the
image stops, which it does by writing PREVIEW or by being cut short (StoringEnds).
The proof rests on lemmas about which variables each action writes (SlotWrites,
AtOnceWrites), and that images are pinned by the one upload only (PinnedGrows).

*One request at a time.* `Serial` says that any two slots are the same; it is a
hypothesis of the theorems, not an assumption of the modules, since the code does
not enforce it. Each of the properties proved under it is violated by two slots, and
ActiveIsFrozen without OwnTypesOnly by one, as TLC finds within seconds when the
serial configurations are changed so. The invariant `SInv` adds to IInv that what
the lone handler has read is still the row (`CallsFresh`), which every step
preserves because only that handler could change it; trading also needs that a
ticket SOLD or on RESALE was admitted less often than it was sold
(`AdmissionsLeft`), the lifecycle that a draft has no account on Solana
(`DraftsOffChain`). ActiveIsFrozen then holds of every action by one of two
reasons: it writes rows of an event whose handler found it in DRAFT or PREVIEW,
or it is trading. `OwnTypesOnly` is needed, as removeEventTicketType tests the
stage of one event and deletes the seats of whatever type the request names.

*Trading, organizers and what is shown.* EventLifecycle and Storefront model
trading by `PlaceOrder` and `Trade`. TradingIsAsLifecycleAssumes maps the tables of
TicketTrading to those of EventLifecycle (an event with one type, no request of the
organizer) and shows that each step is one of the two actions there or leaves the
tables alone. OrderedTicketsWereBuyable shows that, as long
as organizers do not edit it, a ticket found on sale at checkout is still NEW or
circulates when the order is stored; Storefront's PlaceOrder counts a ticket that
is neither as overtaken. In the other direction ActiveStaysFrozen is what lets TicketTrading leave
the organizer out.

*CustomerAccounts.* `IInv` says that the addresses of a row and of a login in flight
have one holder (RowsOwned, CallOwned); that a login looks up no null; and that the
row it found is its person's. RightsHold follows from IInv action by action.

*AdminSessions.* `TokensTellTime` relates the age of a token to history: one that
grants (denies) the permission is at least as old as the time since its user last
had (lacked) it. A refresh resets both sides, a tick adds to both, and the guard
asks for an age below that of an access token.

*Storefront.* As long as no write came late, no client was shown a stage later than
the event's at the current time (`ShownIsPast`), and a row in flight is the event's
row, or an earlier one with the same times unless that was a draft (`InFlight`). An
event on sale was launched (`LaunchKnown`). Tickets ordered and not overtaken
circulate or are NEW (`OrderedCirculate`), and of a launched event only overtaken
tickets come to be counted after the total was (`Steady`, `Counted`). The stage at
one instant is monotone in time and along the event's life, whatever the order of
its times; a stage answered is that of one of the readings (StageIsOfAReading).

*Paging.* Who has not been shown yet is behind the rows of all pages read so far,
since a new row moves others back and nobody forward.

*MenuTree.* The proofs need the recursion equations of `Copies` and `Remains`, which
hold only if some function solves them, on cycles of parents too. One does: what the
reference definitions say is left of each row (`Copied`, `Shown`; CopiesDefined,
RemainsDefined). On a cycle there may be other solutions. On rooted rows there are
none: if two differed on some, they would on one without a child among them (Lowest),
and what is left of a row is determined by its children. Such a row exists because
the table is finite, as finitely many requests made it, and of finitely many sets of
rows below a row one is least (LeastSubset): the argument needs no induction over
the depth of a tree.

*The refinement.* OnlyWritersWrite shows that all but seven actions leave tickets
and orders alone; three of the seven are invisible to TicketCustody, the others
are its Open, Report, PassTo and Close, whose guards follow from IInv.

*The safety halves of the liveness properties.* Each of the four says that something
owed is done in the end. The theorems prove who owes it, that no step of anyone
else's takes the debt away or passes it on, and that each step of the debtor's own
leaves less to do; fairness alone is what remains for TLC.

| Liveness | Proved |
|---|---|
| PaidGetsTransfered | PaidOrdersAreInFlight: a PAID order has its report. ReportsReachTheirEnd: each of the report's steps leaves one write fewer (`Owes`), the last completes the order |
| AccountGetsRecorded | AccountsAreBeingRecorded: an account the row does not know of has a handler past its RPC. RecordersOnlyRecord: only recording ends that |
| LoginFindsAccount | KnownLoginsGoOn: a login whose e-mail address has an account is not refused, whatever is created or updated meanwhile; its steps decrease `Ahead` |
| DeletedSessionsEnd | GoneUsersWindDown: a deleted user does not come back, no further login starts, no session becomes younger but by a login already under way, and every tick makes it older |

*What is never repaired.* StrandedStayStranded is about the failures these leave
out. An event is stranded when its account on Solana exists, it is not on sale and
no handler is past the RPC that created the account. Then no request by anybody,
in whatever order, puts it on sale: only `PublishActive` does, only `PublishRpc`
leads there, and it fails for an account that exists.

*Only model-checked.* The four liveness properties themselves: fairness and ENABLED
are out of the prover's reach. Every other property of a passing run is stated by a
theorem.

## 10. Where comments and code disagree

Each run checks one statement a comment makes, and TLC refutes it.

| Run | What is said | What the code does |
|---|---|---|
| first_checkout_locks | `user.service.ts:645`: after the first checkout the ticket is locked | the update to LOCK is commented out; two customers hold open orders for one NEW ticket |
| seats_distinct | `organizer.service.ts:863`: a seat whose coordinates have a ticket is ignored | lookup and creation are two statements, and no unique index backs them: two overlapping uploads create the seat twice |
| only_unsold_edited | `organizer.service.ts:1239`: only tickets in three states may be modified | the requested status is tested, the ticket's own is not |

Noted while modelling, without a run:

- An event goes off sale for good when a preview overtakes its publication: two
  previews of a draft are in flight, with an update of the avatar between them; the
  first writes PREVIEW, the event is published, and the second writes PREVIEW over
  ACTIVE (`organizer.service.ts:513`). Publishing again fails at the RPC, as after a
  failure between RPC and row (`organizer.service.ts:560`): StrandedStayStranded
  shows that nothing mends either.
- `user.service.ts:646` says that pay returns the same result as checkout; it
  signs the ticket's price of the moment, which a resale may have changed, while
  the order keeps the old one.
- updateOrder repeated on a USED ticket makes it SOLD, and the gate admits it again
  (`target/idl/ticketing_program.json:1013`: "Ticket already checked in").
  SpentStaysSpent and AdmissionsBacked allow for it by counting payment reports.
- A report whose token is null erases the token that another one stored between its
  read and its write (`user.service.ts:629`), and one with another token replaces it.
- Under overlap a check-in may be undone by an unlisting, a listing or a second
  report and repeated, as each writes the status by id (`user.service.ts:496`, `:533`,
  `staff.service.ts:173`).
- An update of a draft, or seats for it, may land after it was published
  (`organizer.service.ts:463`, `:875`, `:1266`): the times of an event on sale change,
  the stage shown goes back, and counters read one by one may show more tickets left,
  or sold, than there are.
- An image uploaded for an event that was deleted, or by a handler that failed before
  it stored the result, can never be used again (`organizer.service.ts:506`).
- `user.service.ts:141` speaks of filling in a wallet that is missing; of two
  overlapping logins the later one replaces what the earlier one filled in.
- `stopSaleBefore` counts from the start in getEventStage and in the comment
  `prisma/schema/event.prisma:9`, but from the end in `marketplace.service.ts:210`.
- A login's token has no apiPermissions, which the type of its payload has; the
  guard throws for it until the first refresh.
- refresh does not look at isFrozen, so the session of a frozen user goes on; and
  an update of a user that leaves isFrozen out unfreezes the user, by the default
  of its DTO.
- Listings made between two counters put more resold tickets than tickets left on
  the screen (`marketplace.service.ts:52`).
- The gate does not test `checkInBefore`: codes are honoured from the sale on.
- An administrator may deactivate every administrator.

## 11. Not modelled

- updateEventTicketType (name, price and colour of a type, which nothing tests),
  testPinata.
- The Solana program, token accounts, initPlatformConfig: only the program's
  interface is in the repository. The models use that an event account is created
  at most once; the generated types of the program carry no behaviour.
- Of the back office: passwords and updatePassword, the super administrator's flag,
  menu and feature permissions in payloads (each would be tested alone, like the one
  modelled), freezeUserById, which nothing calls, and APIs, which are kept and shown
  like menus, unfiltered. The lists of users and roles have no order (`orderBy`),
  so nothing can be said about their pages.
- `EventStatus` DISABLED, which nothing sets.
- HTTP layer, validation, formatting, logging, Swagger, configuration, seed.ts: no
  state that handlers share. Validated inputs are the sets the actions choose from.

## 12. Plan

Done: TicketTrading with TicketCustody; EventLifecycle; CustomerAccounts with the
organizer's settings; AdminSessions; Storefront, Paging and MenuTree; the proofs of
all safety properties, of the safety halves of the liveness properties, and of what
trading has to do with the other modules. What could follow:

1. A machine-checked link from EventLifecycle to the organizer's writes in
   Storefront, which needs the event's times in EventLifecycle.
2. A repair of stranded events in the code, and with it a property of recovery in
   place of StrandedForGood.
3. The same for a transaction around the three writes of updateOrder: PaidIsInFlight
   would then hold with faults.
