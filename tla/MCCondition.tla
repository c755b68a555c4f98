------------------------------ MODULE MCCondition ------------------------------
EXTENDS Condition

CONSTANTS p1, p2, v1, v2, none
====
