\* One writer, two readers; an edited configuration at every restart.
SPECIFICATION Spec
CONSTANTS
  Writers = {worker}
  Readers = {server, mcp}
  Fingerprints = {f1, f2}
  Embedders <- MCEmbedders
  NoIdentity = NoIdentity  Unknown = Unknown
INVARIANTS TypeOK OneIdentity NothingSkipped
