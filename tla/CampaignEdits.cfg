\* Every sequence of four commands, undos and redos, from an empty and a filled campaign.
SPECIFICATION Spec
CONSTANTS
  Scenes = {a, b}
  Sets = {x1}
  Profiles = {p1}
  Slots = {k1, k2}
  Locales = {ru}
  Values = {v1}
  Master = Master
  NoLocale = NoLocale
  HistoryLimit = 2
  MaxRevision = 4
  a = a
  b = b
  x1 = x1
  p1 = p1
  k1 = k1
  k2 = k2
  ru = ru
  v1 = v1
INVARIANTS TypeOK SceneHistoryRetraces
PROPERTIES ReversibleCommands UndoStaysInScope
\* The bound on revisions ends a behaviour.
CHECK_DEADLOCK FALSE
