SPECIFICATION Spec

INVARIANT MultiByteIsLittleEndian
INVARIANT Encode64IsBase64

\* Each helper call returns and the model stops there.
CHECK_DEADLOCK FALSE
