\* The web app: access store, delegation form, inbox, console, simulated peer.
CONSTANTS
  t1 = t1  t2 = t2  d1 = d1  d2 = d2
  Tabs = {t1, t2}
  Docs = {d1, d2}
  Visitor = t1
  Actors <- mcActors
  Askers <- mcAskers
  FirstActor = "agent:eng/1"
  LineLength = 2
  Inbox <- INBOX_SEED
  Budgets <- mcBudgets
SPECIFICATION Spec
CHECK_DEADLOCK FALSE
INVARIANTS
  NarrowsOnly
  NothingLeaks
  OneOfEach
PROPERTIES
  GrantsWhatItShows
  NobodyTypesIntoTheVoid
  EditorOpens
  DemoEnds
  BotTakesOver
