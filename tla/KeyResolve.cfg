SPECIFICATION Spec
INVARIANT TypeOK
INVARIANT FirstFitWins
INVARIANT RaisesOnlyWhenUnusable
