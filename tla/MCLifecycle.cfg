CONSTANTS
  None = None
  Runner = {r1, r2}
  Session = {s1, s2}
  App = {a1}
  Service = {rm, hdfs_init}
  OneShot = {hdfs_init}
  ResourceManager = rm
  MaxStamp = 2
  MaxSwap = 0
  Faults = {"crash", "orphan", "restart", "disk"}
SPECIFICATION Spec
SYMMETRY Sym
INVARIANTS IInv OneScriptInCharge CompleteMeansOneRuntime
PROPERTIES CompletesWhileActive RunningSessionKept ImplementsProtocol
