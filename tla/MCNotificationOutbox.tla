-------------------------- MODULE MCNotificationOutbox --------------------------
(* NotificationOutbox on a few rows and flushes.                           *)
EXTENDS NotificationOutbox, TLC

Workers == Permutations(Worker)

================================================================================
