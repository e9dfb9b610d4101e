------------------------------ MODULE EnvStore ------------------------------
(***************************************************************************)
(* What the environment promises to its users, without the hash table: a   *)
(* finite map in RAM and the copy `saveenv' keeps on the flash.  A step     *)
(* sets or deletes one variable and leaves the others alone; a save stores  *)
(* the whole map or leaves a copy that is not used.                         *)
(***************************************************************************)
CONSTANTS Keys,      \* names of variables
          Values,    \* values a variable may have, Empty among them
          Unset,     \* stands for a variable that does not exist
          Empty,     \* the value of no characters: not kept by a save
          NoCopy     \* the flash has no copy with a good checksum

VARIABLES env,       \* the map in RAM
          saved      \* the map on the flash, or NoCopy

\* What a saved map is after it has been loaded again.
Kept(m) == [k \in Keys |-> IF m[k] = Empty THEN Unset ELSE m[k]]

AllUnset == [k \in Keys |-> Unset]

Init == env = AllUnset /\ saved = NoCopy

Change(k, v) == env' = [env EXCEPT ![k] = v] /\ UNCHANGED saved

\* A new table, or the loss of RAM at a power cut.
Forget == env' = AllUnset /\ UNCHANGED saved

EraseCopy == saved' = NoCopy /\ UNCHANGED env

Save == saved = NoCopy /\ saved' = Kept(env) /\ UNCHANGED env

Next == \/ \E k \in Keys, v \in Values \cup {Unset} : Change(k, v)
        \/ Forget
        \/ EraseCopy
        \/ Save

Spec == Init /\ [][Next]_<<env, saved>>
=============================================================================
