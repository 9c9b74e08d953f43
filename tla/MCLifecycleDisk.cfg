CONSTANTS
  None = None
  Runner = {r1, r2}
  Session = {s1, s2}
  App = {a1}
  Service = {rm, hdfs_init}
  OneShot = {hdfs_init}
  ResourceManager = rm
  MaxStamp = 1
  MaxSwap = 1
  Faults = {"disk"}
SPECIFICATION Spec
SYMMETRY Sym
PROPERTIES FailureIsMarked
