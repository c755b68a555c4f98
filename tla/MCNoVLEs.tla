------------------------------- MODULE MCNoVLEs -------------------------------
EXTENDS NoVLEs

CONSTANTS t1, t2, none
====
