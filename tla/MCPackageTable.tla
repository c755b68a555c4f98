--------------------------- MODULE MCPackageTable ---------------------------
EXTENDS PackageTable

CONSTANTS none, p1, p2
====
