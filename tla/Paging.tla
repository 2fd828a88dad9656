------------------------------ MODULE Paging ------------------------------
(***************************************************************************)
(* The list of customers an administrator reads page by page               *)
(* (ManageService.getCustomers over PrismaService.getPaginatedList), while *)
(* customers sign up.  The list is newest first; customers are never       *)
(* deleted.  The rows of a page and their total are two statements of a    *)
(* READ COMMITTED transaction, so that customers may appear in between.    *)
(*                                                                         *)
(* One administrator reads without a keyword, from the first page until    *)
(* the pages asked for hold the total the server reported.                 *)
(* Customers of one createdAt, whose order the database leaves open and    *)
(* may choose anew for every page, are left out: no two rows have one.     *)
(***************************************************************************)
EXTENDS Integers, Sequences

CONSTANTS
    Customer,  \* the customers there may ever be
    PageSize   \* rows a page holds

ASSUME PageSizeAssumption == PageSize \in Nat \ {0}

VARIABLES
    listing,  \* the customers by createdAt, the newest first
    pager     \* the administrator's walk through the pages

pagingVars == <<listing, pager>>

Listed == {listing[i] : i \in DOMAIN listing}

\* due: customers of the list as it was when the walk began, not yet shown.
PagerRecord ==
    [pc : {"idle", "list", "count"}, page : Nat \ {0}, due : SUBSET Customer]

PagingInit ==
    /\ listing = << >>
    /\ pager = [pc |-> "idle", page |-> 1, due |-> {}]

-----------------------------------------------------------------------------

\* createPaginationParams and getPaginatedList.  PageDto refuses pages and sizes
\* below 1.  Mutant: pages are taken to be numbered from 0.
SkipFromZero(page) == page * PageSize

Skip(page) == (page - 1) * PageSize

RowsOf(page) ==
    {listing[i] : i \in {k \in DOMAIN listing :
                           k > Skip(page) /\ k <= Skip(page) + PageSize}}

\* A row is dated before it is inserted, so that a customer may come up behind
\* one who signed up later.
Enlist(c, k) ==
    [i \in 1 .. Len(listing) + 1 |->
        IF i < k THEN listing[i] ELSE IF i = k THEN c ELSE listing[i - 1]]

SignUp(c) ==
    /\ c \notin Listed
    /\ \E k \in 1 .. Len(listing) + 1 : listing' = Enlist(c, k)
    /\ UNCHANGED pager

AskFor(page, due) ==
    /\ pager' = [pc |-> "list", page |-> page, due |-> due]
    /\ UNCHANGED listing

OpenList == pager.pc = "idle" /\ AskFor(1, Listed)

\* findManyAndCount: the rows first, ...
FindMany ==
    /\ pager.pc = "list"
    /\ pager' = [pager EXCEPT !.pc = "count",
                              !.due = @ \ RowsOf(pager.page)]
    /\ UNCHANGED listing

Complete == pager.page * PageSize >= Len(listing)

\* ... then the total, by which the client knows whether to go on.
CountLast ==
    /\ pager.pc = "count"
    /\ Complete
    /\ pager' = [pager EXCEPT !.pc = "idle"]
    /\ UNCHANGED listing

CountMore ==
    /\ pager.pc = "count"
    /\ ~Complete
    /\ AskFor(pager.page + 1, pager.due)

PagingNext ==
    \/ \E c \in Customer : SignUp(c)
    \/ OpenList \/ FindMany \/ CountLast \/ CountMore

PagingSpec == PagingInit /\ [][PagingNext]_pagingVars

-----------------------------------------------------------------------------

\* The list and the administrator's walk have their types.
PagingTypeOK ==
    /\ listing \in Seq(Customer)
    /\ pager \in PagerRecord

\* A walk through the pages shows every customer there was when it began,
\* although customers who sign up move the others to later places between two
\* pages, and between the rows of a page and the total it comes with.
PagesMissNobody == pager.pc = "idle" => pager.due = {}

=============================================================================
