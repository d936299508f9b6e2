SPECIFICATION Spec
CONSTANTS
  N = 4
  Answers <- MCAnswers
  Edits <- MCEdits
  Tables <- MCTables
  Visitors = {v1, v2}
  PerPage = 2
  Filters = {0, 2}
  Sorts = {"newest", "name", "declined", "guests_desc"}
  MaxChanges = 2
  MaxExports = 1
  None = None
SYMMETRY Symmetry
INVARIANT TypeOK
INVARIANT WalkComplete
INVARIANT FiguresAgree
INVARIANT ExportsLogged
