\* Two writers; not a regular run.
SPECIFICATION Spec
CONSTANTS
  Writers = {worker, curator}
  Readers = {server}
  Fingerprints = {f1, f2}
  Embedders <- MCEmbedders
  NoIdentity = NoIdentity  Unknown = Unknown
INVARIANTS OneIdentity
