SPECIFICATION Spec
CONSTANTS
  Cli = {c1, c2}
  Ctx = {a, b}
  Own = {u}
  NoCtx = NoCtx
  MaxVersion = 2
SYMMETRY Symmetry
VIEW View
INVARIANT TypeOK
INVARIANT CurrentExists
INVARIANT OwnEntriesKept
PROPERTY MergesWhatItFetched
PROPERTY LastCopyKept
