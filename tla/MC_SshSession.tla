---------------------------- MODULE MC_SshSession ----------------------------
(* Instantiation of SshSession for TLC: the goroutines and the secrets are *)
(* model values given in the .cfg files.                                  *)
EXTENDS SshSession, TLC

\* The key is replaced by another key or cleared; the password is set or cleared.
MCKeys == {"k2", Empty}
MCPasswords == {"p1", Empty}
=============================================================================
