\* Scans of the server and the CLI, killed at any step.
SPECIFICATION Spec
CONSTANTS
  reader = reader  describer = describer
  Client = {reader, describer}
  Kind = {"mcp", "cli"}
  MaxFiles = 4
  KillAt = {"unlink", "sidecars", "open", "schema", "build"}
SYMMETRY ClientSymmetry
INVARIANTS
  TypeOK
  QuiescentIndexIsBuilt
PROPERTIES
  SweptScanRebuilds
  QuietClientsAnswered
