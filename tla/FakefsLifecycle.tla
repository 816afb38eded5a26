--------------------------- MODULE FakefsLifecycle ---------------------------
(***************************************************************************)
(* What the boot promises about fakefs volumes, whatever the host asks and *)
(* wherever power is lost.  A fakefs is absent, being built, or ready (it  *)
(* carries the snapshot taken of the finished copy).                       *)
(***************************************************************************)
CONSTANTS Devs, NoDev

VARIABLES
    state,    \* of each volume name
    builder,  \* the volume the current boot is building, or NoDev
    inuse     \* the volume mounted as "/", or NoDev

fvars == <<state, builder, inuse>>

Init ==
    /\ state = [d \in Devs |-> "absent"]
    /\ builder = NoDev
    /\ inuse = NoDev

(* A volume is created for this boot to build, or under another name than
   the one wanted: then nobody builds it. *)
Create(d) ==
    /\ builder = NoDev
    /\ state[d] = "absent"
    /\ state' = [state EXCEPT ![d] = "building"]
    /\ builder' \in {d, NoDev}
    /\ UNCHANGED inuse

(* Only the boot that created a volume ever finishes it. *)
Finish(d) ==
    /\ builder = d
    /\ state[d] = "building"
    /\ state' = [state EXCEPT ![d] = "ready"]
    /\ builder' = NoDev
    /\ UNCHANGED inuse

(* A volume that is in use is never deleted. *)
Delete(d) ==
    /\ state[d] # "absent"
    /\ builder = NoDev
    /\ inuse # d
    /\ state' = [state EXCEPT ![d] = "absent"]
    /\ UNCHANGED <<builder, inuse>>

GiveUp ==
    /\ builder' = NoDev
    /\ inuse' \in {inuse, NoDev}
    /\ UNCHANGED state

(* "/" is mounted once, while nothing is being built. *)
Use(d) ==
    /\ builder = NoDev /\ inuse = NoDev
    /\ inuse' = d
    /\ UNCHANGED <<state, builder>>

Next ==
    \/ \E d \in Devs : Create(d) \/ Finish(d) \/ Delete(d) \/ Use(d)
    \/ GiveUp

Spec == Init /\ [][Next]_fvars
=============================================================================
