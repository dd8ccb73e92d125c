CONSTANT MaxChars = 50000
SPECIFICATION Spec
INVARIANT SizeFieldVerbatim
