---- MODULE MCWorkbench ----
EXTENDS Workbench
CONSTANTS wf1, wf2
====
