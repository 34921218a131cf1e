SPECIFICATION Spec
CONSTANTS
    Words = {w1, w2}
    Values = {v0, v1}
    Zero = v0
    WriterPreempts = TRUE
    ReaderPreempts = TRUE
INVARIANT TypeOK
INVARIANT IntactUnlessLapped
PROPERTY CarriedForward
