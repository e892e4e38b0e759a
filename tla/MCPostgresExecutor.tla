------------------------- MODULE MCPostgresExecutor -------------------------
\* Behaviours without a fault, and with all of them.
EXTENDS PostgresExecutor

MCFaultSets == {{}, {"connect", "thread", "submit", "database"}}
=============================================================================
