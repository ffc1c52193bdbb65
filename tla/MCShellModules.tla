---- MODULE MCShellModules ----
\* The shell's module lifecycle for TLC; the constants are in the .cfg files.
EXTENDS ShellModules
====
