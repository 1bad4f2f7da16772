---------------------- MODULE MCWorkspaceSyncScheduler ----------------------
(* WorkspaceSyncScheduler on two groups, so that a request can overlap     *)
(* with, add to, or repeat what is pending and what is running.            *)
EXTENDS WorkspaceSyncScheduler, TLC

CONSTANTS g1, g2, f1, f2, w1

MCGroups == {g1, g2}
MCFlushers == {f1, f2}
MCWaiters == {w1}
=============================================================================
