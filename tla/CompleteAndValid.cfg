\* Two workers and two pieces.  Three names per index are as many as two workers
\* can keep busy plus one for the new object of a forced requeue.
CONSTANTS
    NumPieces = 2
    MaxGen = 2
    WritesFail = TRUE
    w1 = w1
    w2 = w2
    Workers = {w1, w2}
SPECIFICATION Spec
INVARIANTS
    CompleteAndValid
