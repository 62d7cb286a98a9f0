---- MODULE MCConsole ----
EXTENDS Console
CONSTANTS agent1, agent2, binding1, binding2, run1, run2
====
