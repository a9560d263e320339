----------------------------- MODULE MCBackups -----------------------------
(***************************************************************************)
(* Instances of Backups: the contents of the OADP ConfigMap.               *)
(***************************************************************************)
EXTENDS Backups

Backup(w, os) == [wave |-> w, objs |-> os]
Restore(w, b) == [wave |-> w, of |-> b]

\* Two waves, against the order of the names; the second has no annotation.
TwoWaves == [backups |-> (1 :> Backup(NoWave, {"o1"}) @@ 2 :> Backup(1, {"o2"})),
             restores |-> (1 :> Restore(2, 2) @@ 2 :> Restore(1, 1))]

\* One wave with an object that both backups list.
Shared == [backups |-> (1 :> Backup(1, {"o1", "o2"}) @@ 2 :> Backup(1, {"o2"})),
           restores |-> (1 :> Restore(1, 1) @@ 2 :> Restore(1, 2))]

\* As many restores as backups, and two of the same backup.
SameTwice == [backups |-> (1 :> Backup(1, {"o1"}) @@ 2 :> Backup(1, {"o2"})),
              restores |-> (1 :> Restore(1, 1) @@ 2 :> Restore(1, 1))]

\* A restore of a backup that is not there.
Unknown == [backups |-> (1 :> Backup(1, {"o1"})), restores |-> (1 :> Restore(1, 2))]

\* An edit from here to TwoWaves puts backup 1, which may be there, behind one
\* that is not, and gives its object to that one while it is being made.
Moving == [backups |-> (1 :> Backup(1, {"o2"})), restores |-> (2 :> Restore(1, 1))]

Changing == {TwoWaves, Unknown, Moving}
=============================================================================
