CONSTANTS
  ann = ann
  bob = bob
  b1 = b1
  b2 = b2
  p1 = p1
  p2 = p2
  chosen = chosen
  NoUser = NoUser
  NoProgram = NoProgram
  User = {ann, bob}
  Founders = {ann}
  Browser = {b1, b2}
  Program = {p1, p2}
  Name = {chosen}

\* Once every account there may be has been deleted, nothing happens any more.
CHECK_DEADLOCK FALSE

SPECIFICATION Spec
SYMMETRY Symmetry

INVARIANTS
  AdministratorRemains
  RowsHaveOwners
  UniqueTitles

PROPERTIES
  DeletedStaysDeleted
