\* Three containers, five releases: edited files, another name; two observations.
SPECIFICATION Spec
CONSTANTS
  None = None
  a = a  b = b  x = x  y = y
  Checksums = {a, b, x, y}
  Versions = {1, 2, 3, 4}
  Containers = {c1, c2, c3}
  Releases <- MCReleases
  SeedVersion = 2
  Observations = 2
SYMMETRY Symmetry
INVARIANTS TypeOK SchemaIsWholeReleases PendingStaysPending SeededOnce
