SPECIFICATION Spec
SYMMETRY Symmetric
CONSTANTS
  Device = {d1,d2}
  Token = {t1,t2}
  Proc = {flush,web}
  Flush = flush
  None = None
  MaxItems = 2
 
PROPERTY KeepsThePromise
