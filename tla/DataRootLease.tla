--------------------------- MODULE DataRootLease ---------------------------
(***************************************************************************)
(* What BackendInstanceLock promises the backends of one data root: at any *)
(* time one of them owns it, and at most one other, of another site, has   *)
(* been let in to take over when the owner leaves.                         *)
(***************************************************************************)
CONSTANTS Backends, Sites, NoSite

VARIABLES role, at   \* what a backend is, and the site it serves

Owners == {b \in Backends : role[b] = "owner"}
Successors == {b \in Backends : role[b] = "successor"}

LeaseInit ==
  /\ role = [b \in Backends |-> "out"]
  /\ at = [b \in Backends |-> NoSite]

(* An ordinary start: nobody is there.                                     *)
Own(b, s) ==
  /\ Owners = {} /\ Successors = {}
  /\ role' = [role EXCEPT ![b] = "owner"]
  /\ at' = [at EXCEPT ![b] = s]

(* A warm start: nobody else waits, and the owner serves another site.     *)
Succeed(b, s) ==
  /\ role[b] = "out"
  /\ Successors = {}
  /\ \A c \in Owners : at[c] # s
  /\ role' = [role EXCEPT ![b] = "successor"]
  /\ at' = [at EXCEPT ![b] = s]

Promote(b) ==
  /\ role[b] = "successor"
  /\ Owners = {}
  /\ role' = [role EXCEPT ![b] = "owner"]
  /\ UNCHANGED at

Quit(b) ==
  /\ role' = [role EXCEPT ![b] = "out"]
  /\ at' = [at EXCEPT ![b] = NoSite]

LeaseNext ==
  \E b \in Backends :
    \/ \E s \in Sites \cup {NoSite} : Own(b, s)
    \/ \E s \in Sites : Succeed(b, s)
    \/ Promote(b) \/ Quit(b)

LeaseSpec == LeaseInit /\ [][LeaseNext]_<<role, at>>
=============================================================================
