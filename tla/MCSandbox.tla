----------------------------- MODULE MCSandbox -----------------------------
\* Small instances of the sandbox executor.
EXTENDS Sandbox
============================================================================
