\* Does Deserialize give back every label of every sample Serialize wrote?
CONSTANTS
    name = name  m1 = m1  m2 = m2  job = job  inst = inst  x = x
    v1 = v1  sample = sample
    NameLabel = name
    Lbls <- MCLbls
    Ts = {1, 2}
    Val = {v1}
    TSample = sample
    Stamp = 100
    MaxAge = 10
    MaxMetrics = 3
SPECIFICATION Spec
INVARIANT TypeOK NoLabelMisattributed
\* A batch is filled and serialized as often as the caller likes; every
\* state has the Reset and Serialize steps.
