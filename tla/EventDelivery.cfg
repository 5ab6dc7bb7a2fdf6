SPECIFICATION Spec
CONSTANTS
    narrow = narrow
    wide = wide
    moved = moved
    h1 = h1
    h2 = h2
    t1 = t1
    Subs = {narrow, wide, moved}
    Topics <- MCTopics
    Url <- MCUrl
    Events = {h1, h2, t1}
    Topic <- MCTopic
    Object <- MCObject
    MaxGroups = 1
    Window = 3
    Spacing = 2
    Life = 3
    Ttls = {4}
    Grace = 2
    Persist = 2
    MaxAge = 1
    Horizon = 4
    Budgets <- MCBudgets
INVARIANTS
    TypeOK
    OneActive
    DeliveredOnce
    ArchivedTruly
    SendsSpaced
    AskedOnce
PROPERTIES
    HandoverKeepsPending
    NoTopicStarves
SYMMETRY Alike
