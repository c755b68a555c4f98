---------------------------- MODULE MCValueBuffer ----------------------------
EXTENDS ValueBuffer

CONSTANTS v1, v2, none

\* A window of two steps, or no "size" init event (mSize = -1).
MCBothSizes == {-1, 2}

====
