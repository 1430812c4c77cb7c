\* Spaces of four pages, with up to two grants.
SPECIFICATION SumSpec
CONSTANTS
    UserEnd = 4
    NoRef = NoRef
    FileA = FileA
    Lender = Lender
    Sources <- MCSources
    MaxGrants = 2
    MaxKinds = 1
    MaxMove = 2
INVARIANTS HolesExact NoOtherPanic PagesAgree SchemesAreReached
CHECK_DEADLOCK FALSE
