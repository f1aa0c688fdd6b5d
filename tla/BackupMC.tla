------------------------------ MODULE BackupMC ------------------------------
(* Small instances of Backup for TLC. *)
EXTENDS Backup, TLC
CONSTANTS d1, d2, w1, w2, x, y

\* The scheduled batch w1 takes both devices, the manual backup w2 only the first.
ScheduleAndManual == (w1 :> {{d1, d2}}) @@ (w2 :> {{d1}})

\* One batch at a time: everything, or what could be collected of it.
ScheduleAlone == w1 :> {{d1, d2}, {d1}, {d2}}

\* Two batches of the same device.
SameDevice == (w1 :> {{d1}}) @@ (w2 :> {{d1}})

Symmetry == Permutations({x, y})
=============================================================================
