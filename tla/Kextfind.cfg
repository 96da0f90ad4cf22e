SPECIFICATION Spec
CONSTANTS
    CommandLines <- MCCommandLines
    AllKexts <- MCKexts
INVARIANTS
    EvaluatesAsWritten
    AcceptedIsKept
    RowsMatchHeader
CHECK_DEADLOCK FALSE
