----------------------------- MODULE MCTaskView -----------------------------
EXTENDS TaskView
=============================================================================
