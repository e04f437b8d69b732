--------------------------- MODULE MC_VersionTests ---------------------------
EXTENDS VersionTests

\* Two tests of one version: the second one waits for the first to end.
OneVersion == [t \in 1 .. 2 |-> "v"]
\* Two tests of two versions, which may be active together.
TwoVersions == [t \in 1 .. 2 |-> t]
=============================================================================
