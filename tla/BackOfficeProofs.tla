------------------------- MODULE BackOfficeProofs -------------------------
(***************************************************************************)
(* What an administrator reads: the pages of customers and the trees of    *)
(* menus.  Paging and MenuTree share no state.                             *)
(***************************************************************************)
EXTENDS Paging, MenuTree, FiniteSetTheorems, TLAPS

(***************************************************************************)
(* The pages.  A walk misses nobody, for any number of customers and any   *)
(* size of page.  The invariant says where the customers not yet shown     *)
(* are: behind the rows of every page read so far.  Rows only move back.   *)
(***************************************************************************)

\* Customers listed behind the first n.
Behind(n) == {listing[i] : i \in {k \in DOMAIN listing : k > n}}

\* The pages read so far end here.
ReadUpTo == IF pager.pc = "count" THEN pager.page * PageSize ELSE Skip(pager.page)

\* A walk that has not ended owes its customers from what is behind.
IInv ==
    /\ PagingTypeOK
    /\ pager.pc = "idle" => pager.due = {}
    /\ pager.pc # "idle" => pager.due \subseteq Behind(ReadUpTo)

\* Where the rows of a page begin and end.
LEMMA PageBounds ==
    ASSUME NEW p \in Nat
    PROVE  /\ p * PageSize \in Nat
           /\ Skip(p + 1) = p * PageSize
           /\ p * PageSize + PageSize = (p + 1) * PageSize
  BY PageSizeAssumption DEF Skip

\* A customer who signs up moves the others back, and nobody forward.
LEMMA EnlistBehind ==
    ASSUME PagingTypeOK, NEW c \in Customer, NEW k \in 1 .. Len(listing) + 1,
           listing' = Enlist(c, k), NEW n \in Int
    PROVE  /\ listing' \in Seq(Customer)
           /\ Behind(n) \subseteq Behind(n)'
  <1>1. listing \in Seq(Customer)
    BY DEF PagingTypeOK
  <1>2. listing' \in [1 .. Len(listing) + 1 -> Customer]
    BY <1>1 DEF Enlist
  <1>3. listing' \in Seq(Customer) /\ DOMAIN listing' = 1 .. Len(listing) + 1
    BY <1>1, <1>2
  <1>4. ASSUME NEW i \in DOMAIN listing, i > n
        PROVE  \E j \in DOMAIN listing' : j > n /\ listing'[j] = listing[i]
    <2>1. CASE i < k
      BY <1>1, <1>3, <1>4, <2>1 DEF Enlist
    <2>2. CASE i >= k
      <3>1. i + 1 \in DOMAIN listing' /\ i + 1 > n
        BY <1>1, <1>3, <1>4
      <3>2. listing'[i + 1] = listing[i]
        BY <1>1, <1>3, <2>2, <3>1 DEF Enlist
      <3>. QED BY <3>1, <3>2
    <2>. QED BY <1>1, <2>1, <2>2
  <1>. QED BY <1>3, <1>4 DEF Behind

\* What is behind the rows skipped is on the page or behind it.
LEMMA PageThenRest ==
    ASSUME PagingTypeOK
    PROVE  Behind(Skip(pager.page)) \ RowsOf(pager.page)
             \subseteq Behind(pager.page * PageSize)
  <1>1. listing \in Seq(Customer) /\ pager.page \in Nat \ {0}
    BY DEF PagingTypeOK, PagerRecord
  <1>2. Skip(pager.page) \in Int /\ Skip(pager.page) + PageSize = pager.page * PageSize
    <2>1. pager.page - 1 \in Nat
      BY <1>1
    <2>2. (pager.page - 1) + 1 = pager.page
      BY <1>1
    <2>. QED BY <2>1, <2>2, PageBounds, PageSizeAssumption
  <1>3. ASSUME NEW i \in DOMAIN listing, i > Skip(pager.page),
               listing[i] \notin RowsOf(pager.page)
        PROVE  i > pager.page * PageSize
    BY <1>1, <1>2, <1>3, PageSizeAssumption DEF RowsOf
  <1>. QED BY <1>3 DEF Behind

LEMMA PagingInitInv == PagingInit => IInv
  BY DEF PagingInit, IInv, PagingTypeOK, PagerRecord

LEMMA SignUpInv ==
    ASSUME IInv, NEW c \in Customer, SignUp(c)
    PROVE  IInv'
  <1>1. PICK k \in 1 .. Len(listing) + 1 : listing' = Enlist(c, k)
    BY DEF SignUp
  <1>2. pager' = pager
    BY DEF SignUp
  <1>3. pager.page \in Nat \ {0}
    BY DEF IInv, PagingTypeOK, PagerRecord
  <1>4. ReadUpTo \in Int /\ ReadUpTo' = ReadUpTo
    BY <1>2, <1>3, PageSizeAssumption DEF ReadUpTo, Skip
  <1>5. listing' \in Seq(Customer) /\ Behind(ReadUpTo) \subseteq Behind(ReadUpTo)'
    <2>. DEFINE n == ReadUpTo
    <2>1. n \in Int /\ n' = n
      BY <1>4
    <2>2. listing' \in Seq(Customer)
      BY <1>1, EnlistBehind, <2>1 DEF IInv
    <2>3. \A m \in Int : {listing[i] : i \in {j \in DOMAIN listing : j > m}}
             \subseteq {listing'[i] : i \in {j \in DOMAIN listing' : j > m}}
      BY <1>1, EnlistBehind DEF IInv, Behind
    <2>. QED BY <2>1, <2>2, <2>3 DEF Behind
  <1>. QED BY <1>2, <1>4, <1>5 DEF IInv, PagingTypeOK

LEMMA OpenListInv ==
    ASSUME IInv, OpenList
    PROVE  IInv'
  <1>2. listing' = listing
    BY DEF OpenList, AskFor
  <1>3. pager' = [pc |-> "list", page |-> 1, due |-> Listed]
    BY DEF OpenList, AskFor
  <1>4. listing \in Seq(Customer) /\ Listed \subseteq Customer
    BY DEF IInv, PagingTypeOK, Listed
  <1>5. PagingTypeOK'
    BY <1>2, <1>3, <1>4 DEF PagingTypeOK, PagerRecord
  <1>6. ReadUpTo' = 0
    BY <1>3, PageSizeAssumption DEF ReadUpTo, Skip
  <1>7. Listed \subseteq Behind(ReadUpTo)'
    BY <1>2, <1>4, <1>6 DEF Listed, Behind
  <1>. QED BY <1>3, <1>5, <1>7 DEF IInv

LEMMA FindManyInv ==
    ASSUME IInv, FindMany
    PROVE  IInv'
  <1>1. /\ pager.pc = "list" /\ listing' = listing
        /\ pager' = [pager EXCEPT !.pc = "count", !.due = @ \ RowsOf(pager.page)]
    BY DEF FindMany
  <1>2. pager \in PagerRecord
    BY DEF IInv, PagingTypeOK
  <1>3. /\ pager'.pc = "count" /\ pager'.page = pager.page
        /\ pager'.due = pager.due \ RowsOf(pager.page)
        /\ pager' \in PagerRecord
    BY <1>1, <1>2 DEF PagerRecord
  <1>4. pager.due \subseteq Behind(Skip(pager.page))
    BY <1>1 DEF IInv, ReadUpTo
  <1>5. pager'.due \subseteq Behind(pager.page * PageSize)
    BY <1>3, <1>4, PageThenRest DEF IInv
  <1>6. Behind(ReadUpTo)' = Behind(pager.page * PageSize)
    BY <1>1, <1>3 DEF Behind, ReadUpTo
  <1>. QED BY <1>1, <1>3, <1>5, <1>6 DEF IInv, PagingTypeOK

LEMMA CountLastInv ==
    ASSUME IInv, CountLast
    PROVE  IInv'
  <1>1. /\ pager.pc = "count" /\ Complete /\ listing' = listing
        /\ pager' = [pager EXCEPT !.pc = "idle"]
    BY DEF CountLast
  <1>2. pager \in PagerRecord /\ listing \in Seq(Customer)
    BY DEF IInv, PagingTypeOK
  <1>3. /\ pager'.pc = "idle" /\ pager'.page = pager.page
        /\ pager'.due = pager.due
        /\ pager' \in PagerRecord
    BY <1>1, <1>2 DEF PagerRecord
  <1>4. pager.page * PageSize >= Len(listing)
    BY <1>1 DEF Complete
  <1>5. pager.page * PageSize \in Nat
    BY <1>2, PageBounds DEF PagerRecord
  <1>6. Behind(pager.page * PageSize) = {}
    BY <1>2, <1>4, <1>5 DEF Behind
  <1>7. pager.due = {}
    BY <1>1, <1>6 DEF IInv, ReadUpTo
  <1>. QED BY <1>1, <1>3, <1>7 DEF IInv, PagingTypeOK

LEMMA CountMoreInv ==
    ASSUME IInv, CountMore
    PROVE  IInv'
  <1>1. /\ pager.pc = "count" /\ ~Complete /\ listing' = listing
        /\ AskFor(pager.page + 1, pager.due)
    BY DEF CountMore, AskFor
  <1>2. pager \in PagerRecord /\ pager.page \in Nat \ {0}
    BY DEF IInv, PagingTypeOK, PagerRecord
  <1>3. pager' = [pc |-> "list", page |-> pager.page + 1, due |-> pager.due]
    BY <1>1 DEF AskFor
  <1>4. pager' \in PagerRecord
    BY <1>2, <1>3 DEF PagerRecord
  <1>5. ReadUpTo' = pager.page * PageSize
    <2>1. ReadUpTo' = Skip(pager.page + 1)
      BY <1>3 DEF ReadUpTo, Skip
    <2>. QED BY <2>1, <1>2, PageBounds
  <1>6. pager.due \subseteq Behind(pager.page * PageSize)
    BY <1>1 DEF IInv, ReadUpTo
  <1>7. Behind(ReadUpTo)' = Behind(pager.page * PageSize)
    BY <1>1, <1>5 DEF Behind
  <1>. QED BY <1>1, <1>3, <1>4, <1>6, <1>7 DEF IInv, PagingTypeOK

LEMMA PagingStep == IInv /\ [PagingNext]_pagingVars => IInv'
  <1>. SUFFICES ASSUME IInv, [PagingNext]_pagingVars PROVE IInv'
    OBVIOUS
  <1>1. CASE UNCHANGED pagingVars
    BY <1>1 DEF pagingVars, IInv, PagingTypeOK, Behind, ReadUpTo, Skip
  <1>2. ASSUME NEW c \in Customer, SignUp(c) PROVE IInv'
    BY <1>2, SignUpInv
  <1>3. CASE OpenList
    BY <1>3, OpenListInv
  <1>4. CASE FindMany
    BY <1>4, FindManyInv
  <1>5. CASE CountLast
    BY <1>5, CountLastInv
  <1>6. CASE CountMore
    BY <1>6, CountMoreInv
  <1>. QED BY <1>1, <1>2, <1>3, <1>4, <1>5, <1>6 DEF PagingNext

\* The invariant of the pages, for any number of customers and size of page.
THEOREM PagingInvariant == PagingSpec => []IInv
  BY PagingInitInv, PagingStep, PTL DEF PagingSpec

\* The list and the walk have their types.
THEOREM PagingTypeCorrect == PagingSpec => []PagingTypeOK
  <1>1. IInv => PagingTypeOK
    BY DEF IInv
  <1>. QED BY <1>1, PagingInvariant, PTL

\* A walk shows every customer there was when it began.
THEOREM WalksMissNobody == PagingSpec => []PagesMissNobody
  <1>1. IInv => PagesMissNobody
    BY DEF IInv, PagesMissNobody
  <1>. QED BY <1>1, PagingInvariant, PTL

-----------------------------------------------------------------------------
(***************************************************************************)
(* The trees, of any finite table.  Copies and Remains are defined by      *)
(* recursion over rows that may lie on cycles of parents; a solution of    *)
(* the equation is shown, and that all solutions agree on the rooted rows, *)
(* since a set of rooted rows has one none of whose children is in it.     *)
(***************************************************************************)

\* The parents of a row are above it.
LEMMA AboveStep ==
    ASSUME NEW rows, NEW i \in rows, menus[i].parent \in rows
    PROVE  menus[i].parent \in Above(rows, i)
  BY DEF Above

LEMMA AboveUpClosed ==
    ASSUME NEW rows, NEW i \in rows
    PROVE  Above(rows, i) \in UpClosed(rows)
  <1>1. Above(rows, i) \subseteq rows
    BY DEF Above
  <1>2. ASSUME NEW k \in Above(rows, i), menus[k].parent \in rows
        PROVE  menus[k].parent \in Above(rows, i)
    <2>1. SUFFICES ASSUME NEW up \in UpClosed(rows),
                          menus[i].parent \in rows => menus[i].parent \in up
                   PROVE  menus[k].parent \in up
      BY <1>2 DEF Above
    <2>2. k \in up
      BY <2>1 DEF Above
    <2>. QED
      BY <1>2, <2>1, <2>2 DEF UpClosed
  <1>. QED
    BY <1>1, <1>2 DEF UpClosed

LEMMA AboveLeast ==
    ASSUME NEW rows, NEW i \in rows, NEW up \in UpClosed(rows),
           menus[i].parent \in rows => menus[i].parent \in up
    PROVE  Above(rows, i) \subseteq up
  BY DEF Above

LEMMA AboveTransitive ==
    ASSUME NEW rows, NEW i \in rows, NEW k \in Above(rows, i)
    PROVE  k \in rows /\ Above(rows, k) \subseteq Above(rows, i)
  <1>1. k \in rows
    BY DEF Above
  <1>2. Above(rows, i) \in UpClosed(rows)
    BY AboveUpClosed
  <1>3. menus[k].parent \in rows => menus[k].parent \in Above(rows, i)
    BY <1>2 DEF UpClosed
  <1>. QED
    BY <1>1, <1>2, <1>3, AboveLeast

\* Who is above a row is its parent or above its parent.
LEMMA AboveFirst ==
    ASSUME NEW rows, NEW i \in rows, NEW k \in Above(rows, i)
    PROVE  /\ menus[i].parent \in rows
           /\ k = menus[i].parent \/ k \in Above(rows, menus[i].parent)
  <1>1. menus[i].parent \in rows
    <2>1. {} \in UpClosed(rows)
      BY DEF UpClosed
    <2>. QED
      BY <2>1 DEF Above
  <1>. DEFINE p == menus[i].parent
              up == {p} \cup Above(rows, p)
  <1>2. Above(rows, p) \in UpClosed(rows)
    BY <1>1, AboveUpClosed
  <1>3. up \in UpClosed(rows)
    BY <1>1, <1>2, AboveStep DEF UpClosed
  <1>4. k \in up
    BY <1>3, AboveLeast
  <1>. QED
    BY <1>1, <1>4

\* ... and has a child that is the row or above it.
LEMMA AboveLast ==
    ASSUME NEW rows, NEW i \in rows, NEW k \in Above(rows, i)
    PROVE  \E c \in Children(rows, k) : c = i \/ c \in Above(rows, i)
  <1>. DEFINE up == {x \in Above(rows, i) :
                      \E c \in Children(rows, x) : c = i \/ c \in Above(rows, i)}
  <1>1. Above(rows, i) \in UpClosed(rows)
    BY AboveUpClosed
  <1>2. up \subseteq rows
    BY DEF Above
  <1>3. ASSUME NEW x \in up, menus[x].parent \in rows PROVE menus[x].parent \in up
    BY <1>1, <1>3 DEF UpClosed, Children
  <1>4. up \in UpClosed(rows)
    BY <1>2, <1>3 DEF UpClosed
  <1>5. menus[i].parent \in rows => menus[i].parent \in up
    BY AboveStep DEF Children
  <1>6. k \in up
    BY <1>4, <1>5, AboveLeast
  <1>. QED
    BY <1>6

\* Below a row are its children and who is below them.
Below(rows, i) == {k \in rows : i \in Above(rows, k)}

LEMMA BelowByChildren ==
    ASSUME NEW rows, NEW i \in rows
    PROVE  Below(rows, i) = UNION {{c} \cup Below(rows, c) : c \in Children(rows, i)}
  <1>1. ASSUME NEW c \in Children(rows, i), NEW k \in {c} \cup Below(rows, c)
        PROVE  k \in Below(rows, i)
    <2>1. c \in rows /\ i \in Above(rows, c)
      BY AboveStep DEF Children
    <2>2. k \in rows /\ (k = c \/ c \in Above(rows, k))
      BY <2>1 DEF Below
    <2>. QED
      BY <2>1, <2>2, AboveTransitive DEF Below
  <1>2. ASSUME NEW k \in Below(rows, i)
        PROVE  \E c \in Children(rows, i) : k \in {c} \cup Below(rows, c)
    <2>1. k \in rows /\ i \in Above(rows, k)
      BY DEF Below
    <2>. QED
      BY <2>1, AboveLast DEF Below, Children
  <1>. QED
    BY <1>1, <1>2

\* Being rooted passes from a row to those above it and to its children.
LEMMA UnrootedAbove ==
    ASSUME NEW rows
    PROVE  rows \ Rooted(rows) \in UpClosed(rows)
  <1>. SUFFICES ASSUME NEW i \in rows, i \notin Rooted(rows), menus[i].parent \in rows,
                      menus[i].parent \in Rooted(rows)
               PROVE  FALSE
    BY DEF UpClosed
  <1>1. PICK k \in {i} \cup Above(rows, i) : k \in Above(rows, k)
    BY DEF Rooted
  <1>2. k \in rows
    BY DEF Above
  <1>3. k = menus[i].parent \/ k \in Above(rows, menus[i].parent)
    BY <1>1, <1>2, AboveFirst
  <1>. QED
    BY <1>1, <1>3 DEF Rooted

LEMMA RootedAbove ==
    ASSUME NEW rows, NEW i \in Rooted(rows)
    PROVE  Above(rows, i) \subseteq Rooted(rows)
  <1>. SUFFICES ASSUME NEW k \in Above(rows, i) PROVE k \in Rooted(rows)
    OBVIOUS
  <1>1. i \in rows
    BY DEF Rooted
  <1>2. k \in rows /\ Above(rows, k) \subseteq Above(rows, i)
    BY <1>1, AboveTransitive
  <1>. QED
    BY <1>2 DEF Rooted

LEMMA RootedBelow ==
    ASSUME NEW rows, NEW i \in Rooted(rows)
    PROVE  Below(rows, i) \subseteq Rooted(rows)
  <1>. SUFFICES ASSUME NEW k \in Below(rows, i), k \notin Rooted(rows) PROVE FALSE
    BY DEF Below
  <1>1. k \in rows /\ i \in Above(rows, k)
    BY DEF Below
  <1>2. rows \ Rooted(rows) \in UpClosed(rows)
    BY UnrootedAbove
  <1>3. menus[k].parent \in rows => menus[k].parent \in rows \ Rooted(rows)
    BY <1>1, <1>2 DEF UpClosed
  <1>4. Above(rows, k) \subseteq rows \ Rooted(rows)
    BY <1>1, <1>2, <1>3, AboveLeast
  <1>. QED
    BY <1>1, <1>4

LEMMA RootsRooted ==
    ASSUME NEW rows
    PROVE  Roots(rows) \subseteq Rooted(rows)
  <1>. SUFFICES ASSUME NEW r \in Roots(rows) PROVE r \in Rooted(rows)
    OBVIOUS
  <1>1. r \in rows /\ menus[r].parent \notin rows
    BY DEF Roots
  <1>2. Above(rows, r) = {}
    BY <1>1, AboveFirst
  <1>. QED
    BY <1>1, <1>2 DEF Rooted

\* Of subsets of a finite set some are least.
LEMMA LeastSubset ==
    ASSUME NEW S, IsFiniteSet(S), NEW T \in SUBSET SUBSET S, T # {}
    PROVE  \E x \in T : \A y \in T : ~(y \subseteq x /\ y # x)
  <1>1. T \subseteq FiniteSubsetsOf(S)
    BY FS_FiniteSubsetsOfFinite
  <1>2. IsWellFoundedOn(StrictSubsetOrdering(S), FiniteSubsetsOf(S))
    BY FS_StrictSubsetOrderingWellFounded
  <1>3. PICK x \in T : \A y \in T : <<y, x>> \notin StrictSubsetOrdering(S)
    BY <1>1, <1>2, WFMin
  <1>4. \A y \in T : <<y, x>> \in (SUBSET S) \X (SUBSET S)
    OBVIOUS
  <1>. QED
    BY <1>3, <1>4 DEF StrictSubsetOrdering

\* Among rooted rows of a finite table one has no parent among them, ...
LEMMA Topmost ==
    ASSUME NEW rows, IsFiniteSet(rows), NEW B \in SUBSET Rooted(rows), B # {}
    PROVE  \E i \in B : menus[i].parent \notin B
  <1>1. B \subseteq rows
    BY DEF Rooted
  <1>. DEFINE T == {Above(rows, i) : i \in B}
  <1>2. T \in SUBSET SUBSET rows /\ T # {}
    <2>1. \A i \in B : Above(rows, i) \in SUBSET rows
      BY DEF Above
    <2>. QED
      BY <2>1
  <1>3. PICK x \in T : \A y \in T : ~(y \subseteq x /\ y # x)
    <2>. HIDE DEF T
    <2>. QED
      BY <1>2, LeastSubset
  <1>4. PICK i \in B : x = Above(rows, i)
    OBVIOUS
  <1>5. ASSUME menus[i].parent \in B PROVE FALSE
    <2>. DEFINE p == menus[i].parent
    <2>1. p \in Above(rows, i)
      BY <1>1, <1>5, AboveStep
    <2>2. Above(rows, p) \subseteq Above(rows, i)
      BY <1>1, <2>1, AboveTransitive
    <2>3. p \notin Above(rows, p)
      BY <1>5 DEF Rooted
    <2>. QED
      BY <1>3, <1>4, <1>5, <2>1, <2>2, <2>3
  <1>. QED
    BY <1>5

\* ... and one has no child among them.
LEMMA Lowest ==
    ASSUME NEW rows, IsFiniteSet(rows), NEW B \in SUBSET Rooted(rows), B # {}
    PROVE  \E i \in B : Children(rows, i) \cap B = {}
  <1>1. B \subseteq rows
    BY DEF Rooted
  <1>. DEFINE T == {Below(rows, i) : i \in B}
  <1>2. T \in SUBSET SUBSET rows /\ T # {}
    BY DEF Below
  <1>3. PICK x \in T : \A y \in T : ~(y \subseteq x /\ y # x)
    <2>. HIDE DEF T
    <2>. QED
      BY <1>2, LeastSubset
  <1>4. PICK i \in B : x = Below(rows, i)
    OBVIOUS
  <1>5. ASSUME NEW c \in Children(rows, i), c \in B PROVE FALSE
    <2>1. c \in Below(rows, i) /\ Below(rows, c) \subseteq Below(rows, i)
      BY <1>1, BelowByChildren
    <2>2. c \notin Below(rows, c)
      BY <1>5 DEF Rooted, Below
    <2>. QED
      BY <1>3, <1>4, <1>5, <2>1, <2>2
  <1>. QED
    BY <1>5

-----------------------------------------------------------------------------

\* The copy of a row, and the equation the recursion of the copies must solve.
Copied(rows, i) == {i} \cup Below(rows, i)

CopyEq(rows, f) ==
    f = [i \in rows |-> {i} \cup UNION {f[k] : k \in Children(rows, i)}]

\* The recursion of cleanUpEmptyChildren has a solution, on cycles too.
LEMMA CopiesDefined ==
    ASSUME NEW rows
    PROVE  CopyEq(rows, Copies(rows))
  <1>. DEFINE g == [i \in rows |-> Copied(rows, i)]
  <1>1. ASSUME NEW i \in rows
        PROVE  g[i] = {i} \cup UNION {g[k] : k \in Children(rows, i)}
    <2>1. Children(rows, i) \subseteq rows
      BY DEF Children
    <2>2. UNION {g[k] : k \in Children(rows, i)}
            = UNION {{k} \cup Below(rows, k) : k \in Children(rows, i)}
      BY <2>1 DEF Copied
    <2>. QED
      BY <2>2, BelowByChildren DEF Copied
  <1>2. CopyEq(rows, g)
    BY <1>1 DEF CopyEq
  <1>3. CopyEq(rows, CHOOSE f : CopyEq(rows, f))
    BY <1>2
  <1>4. Copies(rows) = CHOOSE f : CopyEq(rows, f)
    BY DEF Copies, CopyEq
  <1>. QED
    BY <1>3, <1>4

\* Of a rooted row it copies the row and what is below it.
LEMMA CopiesRooted ==
    ASSUME NEW rows, IsFiniteSet(rows), NEW i \in Rooted(rows)
    PROVE  Copies(rows)[i] = Copied(rows, i)
  <1>. DEFINE f == Copies(rows)
              B == {k \in Rooted(rows) : f[k] # Copied(rows, k)}
  <1>. SUFFICES ASSUME B # {} PROVE FALSE
    OBVIOUS
  <1>1. PICK k \in B : Children(rows, k) \cap B = {}
    <2>1. B \in SUBSET Rooted(rows)
      OBVIOUS
    <2>. HIDE DEF B
    <2>. QED
      BY <2>1, Lowest
  <1>2. k \in rows
    BY DEF Rooted
  <1>3. Children(rows, k) \subseteq Rooted(rows)
    BY <1>2, BelowByChildren, RootedBelow
  <1>4. \A c \in Children(rows, k) : f[c] = Copied(rows, c)
    BY <1>1, <1>3
  <1>5. f[k] = {k} \cup UNION {f[c] : c \in Children(rows, k)}
    <2>. HIDE DEF f
    <2>1. CopyEq(rows, f)
      BY CopiesDefined DEF f
    <2>. QED
      BY <1>2, <2>1 DEF CopyEq
  <1>6. UNION {f[c] : c \in Children(rows, k)}
          = UNION {{c} \cup Below(rows, c) : c \in Children(rows, k)}
    BY <1>4 DEF Copied
  <1>. QED
    BY <1>1, <1>2, <1>5, <1>6, BelowByChildren DEF Copied

\* Rows the filter keeps for their own sake, and those it keeps of i and below.
Page(k) == menus[k].type # "DIRECTORY"
Shown(rows, i) ==
    {k \in {i} \cup Below(rows, i) : Page(k) \/ \E m \in Below(rows, k) : Page(m)}

\* The equation the recursion of the filter must solve.
RemainEq(rows, f) ==
    f = [i \in rows |->
            LET below == UNION {f[k] : k \in Children(rows, i)}
            IN  IF menus[i].type # "DIRECTORY" \/ below # {}
                THEN {i} \cup below
                ELSE {}]

\* What is shown below a row.
ShownBelow(rows, i) == UNION {Shown(rows, c) : c \in Children(rows, i)}

\* What is shown of a row is decided by what is shown of its children.
LEMMA ShownByChildren ==
    ASSUME NEW rows, NEW i \in rows
    PROVE  Shown(rows, i) = IF Page(i) \/ ShownBelow(rows, i) # {}
                            THEN {i} \cup ShownBelow(rows, i)
                            ELSE {}
  <1>. DEFINE below == ShownBelow(rows, i)
  <1>. DEFINE Kept(k) == Page(k) \/ \E m \in Below(rows, k) : Page(m)
  <1>1. below = {k \in Below(rows, i) : Kept(k)}
    <2>1. Below(rows, i) = UNION {{c} \cup Below(rows, c) : c \in Children(rows, i)}
      BY BelowByChildren
    <2>2. \A k : k \in below <=>
                   \E c \in Children(rows, i) : k \in {c} \cup Below(rows, c) /\ Kept(k)
      BY DEF Shown, ShownBelow
    <2>. HIDE DEF Kept
    <2>. QED
      BY <2>1, <2>2
  <1>2. below # {} <=> \E m \in Below(rows, i) : Page(m)
    <2>1. ASSUME NEW k \in Below(rows, i), NEW m \in Below(rows, k)
          PROVE  m \in Below(rows, i)
      BY <2>1, AboveTransitive DEF Below
    <2>. QED
      BY <1>1, <2>1
  <1>. QED
    BY <1>1, <1>2 DEF Shown

\* The recursion of filterEmptyDirectories has a solution, on cycles too.
LEMMA RemainsDefined ==
    ASSUME NEW rows
    PROVE  RemainEq(rows, Remains(rows))
  <1>. DEFINE g == [i \in rows |-> Shown(rows, i)]
  <1>1. ASSUME NEW i \in rows
        PROVE  g[i] = LET below == UNION {g[k] : k \in Children(rows, i)}
                      IN  IF menus[i].type # "DIRECTORY" \/ below # {}
                          THEN {i} \cup below
                          ELSE {}
    <2>1. Children(rows, i) \subseteq rows
      BY DEF Children
    <2>2. UNION {g[k] : k \in Children(rows, i)} = ShownBelow(rows, i)
      BY <2>1 DEF ShownBelow
    <2>3. g[i] = Shown(rows, i)
      OBVIOUS
    <2>. HIDE DEF g
    <2>. QED
      BY <2>2, <2>3, ShownByChildren DEF Page
  <1>2. RemainEq(rows, g)
    BY <1>1 DEF RemainEq
  <1>3. RemainEq(rows, CHOOSE f : RemainEq(rows, f))
    BY <1>2
  <1>4. Remains(rows) = CHOOSE f : RemainEq(rows, f)
    BY DEF Remains, RemainEq
  <1>. QED
    BY <1>3, <1>4

\* Of a rooted row it leaves what is shown of it.
LEMMA RemainsRooted ==
    ASSUME NEW rows, IsFiniteSet(rows), NEW i \in Rooted(rows)
    PROVE  Remains(rows)[i] = Shown(rows, i)
  <1>. DEFINE f == Remains(rows)
              B == {k \in Rooted(rows) : f[k] # Shown(rows, k)}
  <1>. SUFFICES ASSUME B # {} PROVE FALSE
    OBVIOUS
  <1>1. PICK k \in B : Children(rows, k) \cap B = {}
    <2>1. B \in SUBSET Rooted(rows)
      OBVIOUS
    <2>. HIDE DEF B
    <2>. QED
      BY <2>1, Lowest
  <1>2. k \in rows
    BY DEF Rooted
  <1>3. Children(rows, k) \subseteq Rooted(rows)
    BY <1>2, BelowByChildren, RootedBelow
  <1>4. \A c \in Children(rows, k) : f[c] = Shown(rows, c)
    BY <1>1, <1>3
  <1>. DEFINE below == UNION {f[c] : c \in Children(rows, k)}
  <1>5. f[k] = IF Page(k) \/ below # {} THEN {k} \cup below ELSE {}
    <2>. HIDE DEF f
    <2>1. RemainEq(rows, f)
      BY RemainsDefined DEF f
    <2>. QED
      BY <1>2, <2>1 DEF RemainEq, Page
  <1>6. below = ShownBelow(rows, k)
    BY <1>4 DEF ShownBelow
  <1>7. f[k] = Shown(rows, k)
    <2>. HIDE DEF f, below
    <2>. QED
      BY <1>2, <1>5, <1>6, ShownByChildren
  <1>. QED
    BY <1>1, <1>7

\* Every rooted row is a root or below one.
LEMMA RootedHang ==
    ASSUME NEW rows, IsFiniteSet(rows), NEW i \in Rooted(rows)
    PROVE  \E r \in Roots(rows) : i \in Copied(rows, r)
  <1>. DEFINE B == {i} \cup Above(rows, i)
  <1>1. i \in rows /\ B \subseteq rows
    BY DEF Rooted, Above
  <1>2. B \in SUBSET Rooted(rows) /\ B # {}
    BY RootedAbove
  <1>3. PICK r \in B : menus[r].parent \notin B
    <2>. HIDE DEF B
    <2>. QED
      BY <1>2, Topmost
  <1>4. r \in Roots(rows)
    <2>1. Above(rows, i) \in UpClosed(rows)
      BY <1>1, AboveUpClosed
    <2>. QED
      BY <1>1, <1>3, <2>1, AboveStep DEF Roots, UpClosed
  <1>. QED
    BY <1>1, <1>3, <1>4 DEF Copied, Below

\* In a finite table the trees hold exactly the rooted rows ...
LEMMA TreeIsRooted ==
    ASSUME NEW rows, IsFiniteSet(rows)
    PROVE  Tree(rows) = Rooted(rows)
  <1>1. ASSUME NEW r \in Roots(rows)
        PROVE  r \in Rooted(rows) /\ Copies(rows)[r] = Copied(rows, r)
    BY <1>1, RootsRooted, CopiesRooted
  <1>2. ASSUME NEW r \in Roots(rows), NEW i \in Copies(rows)[r] PROVE i \in Rooted(rows)
    BY <1>1, <1>2, RootedBelow DEF Copied
  <1>3. ASSUME NEW i \in Rooted(rows) PROVE \E r \in Roots(rows) : i \in Copies(rows)[r]
    BY <1>1, <1>3, RootedHang
  <1>. QED
    BY <1>2, <1>3 DEF Tree

\* ... and of these the filter leaves the pages and who is above one.
LEMMA FilterIsExact ==
    ASSUME NEW rows, IsFiniteSet(rows)
    PROVE  FilterEmptyDirectories(rows) =
             {i \in Rooted(rows) :
                 Page(i) \/ \E k \in Rooted(rows) : Page(k) /\ i \in Above(rows, k)}
  <1>. DEFINE Exact(i) == Page(i) \/ \E k \in Rooted(rows) : Page(k) /\ i \in Above(rows, k)
  <1>1. ASSUME NEW r \in Roots(rows)
        PROVE  r \in Rooted(rows) /\ Remains(rows)[r] = Shown(rows, r)
    BY <1>1, RootsRooted, RemainsRooted
  <1>2. ASSUME NEW i \in Rooted(rows)
        PROVE  (Page(i) \/ \E m \in Below(rows, i) : Page(m)) <=> Exact(i)
    BY <1>2, RootedBelow DEF Below, Rooted
  <1>3. ASSUME NEW r \in Roots(rows), NEW i \in Remains(rows)[r]
        PROVE  i \in Rooted(rows) /\ Exact(i)
    <2>1. i \in Shown(rows, r)
      BY <1>1, <1>3
    <2>2. i \in Rooted(rows)
      BY <1>1, <2>1, RootedBelow DEF Shown
    <2>. QED
      BY <1>2, <2>1, <2>2 DEF Shown
  <1>4. ASSUME NEW i \in Rooted(rows), Exact(i)
        PROVE  \E r \in Roots(rows) : i \in Remains(rows)[r]
    <2>1. PICK r \in Roots(rows) : i \in Copied(rows, r)
      BY RootedHang
    <2>2. i \in Shown(rows, r)
      BY <1>2, <1>4, <2>1 DEF Shown, Copied
    <2>. QED
      BY <1>1, <2>2
  <1>. QED
    BY <1>3, <1>4 DEF FilterEmptyDirectories

-----------------------------------------------------------------------------

\* The table is finite and its rows are typed.
MenusTyped == IsFiniteSet(Rows) /\ menus \in [Rows -> MenuRow]

LEMMA PutTyped ==
    ASSUME MenusTyped, NEW i \in MenuId, NEW row \in MenuRow, PutMenu(i, row)
    PROVE  MenusTyped'
  <1>1. menus' = [k \in Rows \cup {i} |-> IF k = i THEN row ELSE menus[k]]
    BY DEF PutMenu
  <1>2. IsFiniteSet(Rows \cup {i})
    BY FS_AddElement DEF MenusTyped
  <1>3. Rows' = Rows \cup {i} /\ menus' \in [Rows \cup {i} -> MenuRow]
    BY <1>1 DEF Rows, MenusTyped
  <1>. QED
    BY <1>2, <1>3 DEF MenusTyped

LEMMA DeleteTyped ==
    ASSUME MenusTyped, NEW i \in MenuId, DeleteMenu(i)
    PROVE  MenusTyped'
  <1>1. menus' = Without(i)
    BY DEF DeleteMenu
  <1>2. IsFiniteSet(Rows \ {i})
    BY FS_RemoveElement DEF MenusTyped
  <1>3. \A k \in Rows : [menus[k] EXCEPT !.parent = None] \in MenuRow
    BY DEF MenusTyped, MenuRow
  <1>4. Rows' = Rows \ {i} /\ menus' \in [Rows \ {i} -> MenuRow]
    BY <1>1, <1>3 DEF Rows, MenusTyped, Without
  <1>. QED
    BY <1>2, <1>4 DEF MenusTyped

LEMMA MenusInvariant == MenuSpec => []MenusTyped
  <1>1. MenuInit => MenusTyped
    BY FS_EmptySet DEF MenuInit, MenusTyped, Rows
  <1>2. MenusTyped /\ [MenuNext]_menus => MenusTyped'
    BY PutTyped, DeleteTyped
       DEF MenuNext, CreateMenu, UpdateMenu, MenusTyped, Rows
  <1>. QED
    BY <1>1, <1>2, PTL DEF MenuSpec

\* Whatever was moved and deleted, the tree an administrator edits holds exactly
\* the menus whose parents do not lead into a cycle.
THEOREM TreesHoldRooted == MenuSpec => []TreeHoldsRooted
  <1>1. MenusTyped => TreeHoldsRooted
    BY TreeIsRooted DEF MenusTyped, TreeHoldsRooted, MenuTreeOf
  <1>. QED
    BY <1>1, MenusInvariant, PTL

\* The navigation shows the pages that may be opened and the directories above
\* one of them, and nothing else.
THEOREM NavigationStaysExact == MenuSpec => []NavigationIsExact
  <1>1. ASSUME MenusTyped PROVE NavigationIsExact
    <2>. DEFINE rows == InNavigation
                rooted == Rooted(rows)
    <2>1. IsFiniteSet(rows)
      BY <1>1, FS_Subset DEF MenusTyped, InNavigation
    <2>2. \A k \in rooted : Page(k) <=> menus[k].type = "MENU"
      BY <1>1 DEF Rooted, InNavigation, MenusTyped, MenuRow, Kinds, Page
    <2>3. UserMenuTree = {i \in rooted :
                            Page(i) \/ \E k \in rooted : Page(k) /\ i \in Above(rows, k)}
      BY <2>1, FilterIsExact DEF UserMenuTree
    <2>. QED
      BY <2>2, <2>3 DEF NavigationIsExact
  <1>. QED
    BY <1>1, MenusInvariant, PTL

=============================================================================
