SPECIFICATION PartsSpec
CONSTANTS
  Parts = {"code"}
  u1 = u1 u2 = u2 r1 = r1 r2 = r2 r3 = r3
  Commands <- OneCommand Revisions <- ThreeRevisions
  Places = {"root", "selected"} Root = "root" Selected = "selected"
  MaxCrashes = 0 NoRevision = NoRevision NoLink = NoLink
  Decisions = Decisions Warnings = Warnings
  preferC = preferC preferMoreC = preferMoreC preferCSharp = preferCSharp
  safe = safe other = other secret = secret fence = fence
  Nothing = Nothing
  Sections <- AllSections Titles <- AllTitles Bodies = {safe, secret, fence}
  AsRead <- ReadTitles Fencing = {fence}
  Similar <- SimilarTitles Unsafe = {secret}
  Writers = {w1}
  Template <- EmptyDoc Edits <- AllEdits
  MaxDay = 1 MaxLines = 8
  Calls = {c1, c2} Roots = {p1, p2, p3} MaxHandles = 4 MaxOpen = 2
  NoRoot = NoRoot NoHandle = NoHandle
  Installers = {i1, i2} Directories = {d1, d2, d3, d4} MaxKills = 1
  NoDirectory = NoDirectory
INVARIANTS OneWriterPerProject
CHECK_DEADLOCK FALSE
