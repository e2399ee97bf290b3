-------------------------- MODULE MCBacktestRuns ---------------------------
EXTENDS BacktestRuns

\* A run and one that may resume it, or two unrelated runs.
MCRuns == {"first", "second"}
\* Two process ids, so that a restart may be given the old one or another.
MCPids == {"p1", "p2"}
=============================================================================
