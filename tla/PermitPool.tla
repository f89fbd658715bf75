----------------------------- MODULE PermitPool -----------------------------
(***************************************************************************)
(* What a counting lock promises.  A permit is available or belongs to an  *)
(* owner; permits are created and change hands but are never lost, owned   *)
(* twice or taken from nothing.  sync::mutex implements this with a single *)
(* permit, sync::semaphore with those it starts with and is given.         *)
(***************************************************************************)
EXTENDS Integers, FiniteSets

CONSTANTS Clients,  \* the operations that may own a permit
          Initial   \* the permits there are at first

VARIABLES available,  \* the permits nobody owns
          owners,     \* the clients that own one
          created     \* the permits created so far

vars == <<available, owners, created>>

Init == available = Initial /\ owners = {} /\ created = 0

(* Some owners give their permit back, some clients get one, and permits    *)
(* are created, all at once: a release that hands permits to waiters is one *)
(* step.                                                                    *)
Next ==
    /\ owners' \subseteq Clients
    /\ created' >= created
    /\ available' = available + (created' - created)
                        + Cardinality(owners \ owners')
                        - Cardinality(owners' \ owners)
    /\ available' >= 0

Spec == Init /\ [][Next]_vars

=============================================================================
