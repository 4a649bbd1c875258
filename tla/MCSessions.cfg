SPECIFICATION Spec
CONSTANTS
  Tokens = {s1, s2, s3}
  Handles = {h1, h2, h3}
  Cursors = {c1, c2}
  Worlds = {main, fork}
  Revisions = {base}
  None = None
  MaxSessions = 2
  MaxHandles = 2
  MaxOpen = 3
  MaxCursors = 1
  MaxAllCursors = 1
SYMMETRY Names
INVARIANT ClientsApart
