CONSTANTS
    a = a
    b = b
    c = c
    d = d
    e = e
    w1 = w1
    w2 = w2
    NoNode = NoNode
    Node = {a, b, c, d, e}
    Worker = {w1, w2}
    Deps <- MCDeps
    Rounds <- MCRounds
    MaxRounds = 3
SPECIFICATION Spec
INVARIANT TypeOK CountsExact
PROPERTY EvalOrderSpec
\* After MaxRounds rounds the controller submits no more work and the
\* pool's workers sit idle.
CHECK_DEADLOCK FALSE
