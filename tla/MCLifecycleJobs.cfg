CONSTANTS
  None = None
  Runner = {r1, r2}
  Session = {s1}
  App = {a1, a2}
  Service = {rm, hdfs_init}
  OneShot = {hdfs_init}
  ResourceManager = rm
  MaxStamp = 2
  MaxSwap = 1
  Faults = {"crash", "restart"}
SPECIFICATION Spec
SYMMETRY Sym
INVARIANTS JInv CompleteMeansSmokePassed SmokeRanAlone ObservabilityAfterVerification
