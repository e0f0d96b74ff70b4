\* Two devices, the first of which imports; two folders, one book.
CONSTANTS
  Devices = {1, 2}
  Importers = {1}
  Folders = {f, g}
  Books = {b}
  Names = {n}
  Root = Root
  Files = {a}
  None = None
  Policies = {"fillUnclassified", "replace"}
  MaxCounter = 3
SPECIFICATION Spec
CONSTRAINT FewEvents
SYMMETRY Interchangeable
INVARIANTS
  TypeOK
  Convergence
  StampsNameOneValue
PROPERTIES
  DissolvedForever
  BatchRespectsChanges
  ReimportKeepsFiled
