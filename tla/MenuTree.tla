----------------------------- MODULE MenuTree -----------------------------
(***************************************************************************)
(* The menus of the administration and the trees made of them:             *)
(* convertFlatDataToTree, MenuService and its use for an administrator's   *)
(* navigation.  ApiService keeps APIs in the same way and shows them by    *)
(* the same function, unfiltered.                                          *)
(*                                                                         *)
(* Nothing stops an update from giving a menu a parent that is below it.   *)
(* The order of siblings is left out.                                      *)
(***************************************************************************)
CONSTANTS
    MenuId,  \* the ids there may be
    None     \* no parent

VARIABLE menus  \* the rows of the table, by id

Kinds == {"DIRECTORY", "MENU", "FEATURE"}

\* visible: isShow is true, and the menu's code is empty or among the
\* menuPermissions of the administrator whose navigation is looked at.
MenuRow ==
    [parent : MenuId \cup {None}, type : Kinds, visible : BOOLEAN]

Rows == DOMAIN menus

MenuInit == menus = [i \in {} |-> None]

-----------------------------------------------------------------------------
(* The table.  parentId is a foreign key ON DELETE SET NULL. *)

PutMenu(i, row) ==
    /\ row.parent \in Rows \cup {i, None}
    /\ menus' = [k \in Rows \cup {i} |-> IF k = i THEN row ELSE menus[k]]

CreateMenu(i, row) == i \notin Rows /\ PutMenu(i, row)

UpdateMenu(i, row) == i \in Rows /\ PutMenu(i, row)

\* The rows left once i is gone.
Without(i) ==
    [k \in Rows \ {i} |->
        IF menus[k].parent = i THEN [menus[k] EXCEPT !.parent = None]
        ELSE menus[k]]

DeleteMenu(i) == i \in Rows /\ menus' = Without(i)

MenuNext ==
    \E i \in MenuId :
        \/ \E row \in MenuRow : CreateMenu(i, row) \/ UpdateMenu(i, row)
        \/ DeleteMenu(i)

MenuSpec == MenuInit /\ [][MenuNext]_menus

-----------------------------------------------------------------------------
(* Trees.  A node is known by its id and has one list of children, so that a *)
(* tree is told by the ids in it.                                          *)

\* convertFlatDataToTree: map[i].children.
Children(rows, i) == {k \in rows : menus[k].parent = i}

\* A row whose parent is not among the rows is a root.
\* Mutant: only rows without a parent are.
RootsTop(rows) == {i \in rows : menus[i].parent = None}

Roots(rows) == {i \in rows : menus[i].parent \notin rows}

\* cleanUpEmptyChildren, by id: a node and all that hangs from it is copied.
Copies(rows) ==
    LET Copy[i \in rows] ==
            {i} \cup UNION {Copy[k] : k \in Children(rows, i)}
    IN  Copy

\* What is on a cycle of parents, or below one, hangs from no root.
Tree(rows) == UNION {Copies(rows)[i] : i \in Roots(rows)}

\* filterEmptyDirectories, by id: what remains of a node and its children, which
\* are filtered before the node is looked at.
\* Mutant: after it was looked at.
RemainsFromTop(rows) ==
    LET Remain[i \in rows] ==
            IF menus[i].type # "DIRECTORY" \/ Children(rows, i) # {}
            THEN {i} \cup UNION {Remain[k] : k \in Children(rows, i)}
            ELSE {}
    IN  Remain

Remains(rows) ==
    LET Remain[i \in rows] ==
            LET below == UNION {Remain[k] : k \in Children(rows, i)}
            IN  IF menus[i].type # "DIRECTORY" \/ below # {}
                THEN {i} \cup below
                ELSE {}
    IN  Remain

FilterEmptyDirectories(rows) == UNION {Remains(rows)[i] : i \in Roots(rows)}

\* findMenuTree (and findApiTree) and findUserMenuTree.
\* Mutant: features are left out, as they are from the navigation.
MenuTreeOfPages == Tree({i \in Rows : menus[i].type # "FEATURE"})

MenuTreeOf == Tree(Rows)

InNavigation == {i \in Rows : menus[i].visible /\ menus[i].type # "FEATURE"}

UserMenuTree == FilterEmptyDirectories(InNavigation)

-----------------------------------------------------------------------------
(* What the trees should hold, worked out from who is above whom *)

\* Every set that holds the parents of those in it.
UpClosed(rows) ==
    {up \in SUBSET rows :
        \A k \in up : menus[k].parent \in rows => menus[k].parent \in up}

\* The parent of a row, its parent's parent, and so on.
Above(rows, i) ==
    {k \in rows :
        \A up \in UpClosed(rows) :
            (menus[i].parent \in rows => menus[i].parent \in up) => k \in up}

\* Rows neither on a cycle of parents nor below one.
Rooted(rows) ==
    {i \in rows : \A k \in {i} \cup Above(rows, i) : k \notin Above(rows, k)}

\* The tree an administrator edits holds every menu, whatever was moved and
\* deleted, but for those whose parents lead into a cycle.
TreeHoldsRooted == MenuTreeOf = Rooted(Rows)

\* The navigation shows exactly the pages the administrator may open and the
\* directories above one of them.  What hangs below something hidden is shown
\* at the top.
NavigationIsExact ==
    LET rooted == Rooted(InNavigation)
        pages  == {k \in rooted : menus[k].type = "MENU"}
    IN  UserMenuTree =
          {i \in rooted :
              i \in pages \/ \E k \in pages : i \in Above(InNavigation, k)}

=============================================================================
