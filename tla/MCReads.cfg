\* All read-only parts: every schedule, two tickets, four customers on pages of
\* two, three menus.
SPECIFICATION MCSpec
CONSTANTS
    Schedule <- Schedules
    Ticket = {t1, t2}
    Horizon = 4
    Customer = {c1, c2, c3, c4}
    PageSize = 2
    MenuId = {m1, m2, m3}
    None = None
SYMMETRY Symmetry
INVARIANTS
    TypeOK
    StageOfAnInstant
    CheckableAgrees
    OnSaleIsListed
    CountsAddUp
    PagesMissNobody
    TreeHoldsRooted
    NavigationIsExact
PROPERTIES
    StageGoesForward
CHECK_DEADLOCK FALSE
