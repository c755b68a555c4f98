---------------------- MODULE MCDifferentialEquation ----------------------
EXTENDS DifferentialEquation

CONSTANTS x, y, z, self
====
