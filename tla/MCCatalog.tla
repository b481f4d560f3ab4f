------------------------------ MODULE MCCatalog ------------------------------
\* A small instance of Catalog for TLC.
EXTENDS Catalog

CONSTANTS w1, w2, d1, d2, j1, c1, c2

MCWorkspaces == {w1, w2}
MCDatasets   == {d1, d2}
MCJobs       == {j1}
MCClients    == {c1, c2}
MCColumns    == {"name", "plan"}
=============================================================================
