------------------------------ MODULE Palerain ------------------------------
(***************************************************************************)
(* What every stage of the boot shares: the options the host writes into   *)
(* the ramdisk (src/src/include/kerninfo.h), the APFS volumes of the       *)
(* device, and the control state of the program that boots it.             *)
(*                                                                         *)
(* A bit field of options is the set of the names of its set bits.  A      *)
(* volume is a record of what the boot code can tell apart:                *)
(*   role   "none" (no such volume), "system", "recovery" (the role a      *)
(*          fakefs is created with) or "data" (any other volume)           *)
(*   tree   what has been copied onto it: "noprivate" (stat of /private    *)
(*          fails), "private" (it succeeds, the copy is not finished),     *)
(*          "copied" (the whole tree)                                      *)
(*   skip   the directories the copy left out on purpose                   *)
(*   orig   it has the snapshot "orig-fs"                                  *)
(*   dirty  it was written to since it was copied or reverted              *)
(***************************************************************************)
EXTENDS FiniteSets, Sequences, Integers

CONSTANTS
    Devs,          \* names of volumes, those in use and those that may be
    SysDev,        \* the volume iOS was installed on
    ForeignDevs,   \* other volumes that were there before the jailbreak
    Disk0Devs,     \* the names that start with "disk0s1s"
    EndsInOne      \* the names whose last character is '1'

(* The names hard-coded in jbinit.c, and no name at all. *)
Ios15 == "disk0s1s1"
Ios16 == "disk1s1"
NoDev == "nodev"

ASSUME DevsAssumption ==
    /\ NoDev \notin Devs
    /\ SysDev \in Devs \cap {Ios15, Ios16}
    /\ ~ {Ios15, Ios16} \subseteq Devs
    /\ ForeignDevs \subseteq Devs \ {SysDev}
    /\ Disk0Devs \subseteq Devs
    /\ EndsInOne \subseteq Devs
    /\ SysDev \in EndsInOne
    /\ SysDev = Ios15 <=> SysDev \in Disk0Devs

VARIABLES
    pc,        \* where the booting program is
    info,      \* kerninfo.flags in the ramdisk
    pinfo,     \* paleinfo.flags in the ramdisk
    hostdev,   \* paleinfo.rootdev in the ramdisk
    wdt,       \* whether the boot arguments contain "wdt=-1"
    nodes,     \* the volumes whose device node is in /dev
    vol,       \* the volume behind each name
    mnt,       \* the volume mounted on /mnt, or NoDev
    root,      \* the volume mounted on "/", and live or by its snapshot
    bound      \* the directories bound from the system volume

host == <<info, pinfo, hostdev, wdt>>
disk == <<nodes, vol>>

InfoOptions == {"bind_mount", "force_revert"}
PinfoOptions == {"rootful", "setup_rootful", "setup_rootful_forced",
                 "setup_partial_root", "rootless_livefs", "clean_fakefs"}

(* The directories a partial fakefs leaves to the system volume
   (copyfile_fakefs_cb), given the name of the fakefs. *)
CommonSkip == {"Frameworks", "AccessibilityBundles", "Assistant", "Audio", "Fonts",
               "Health", "LinguisticData", "OnBoardingBundles", "Photos",
               "PreferenceBundles", "PreinstalledAssetsV2"}
SkipDirs(d) ==
    CommonSkip \cup (IF d \in Disk0Devs THEN {"PrivateFrameworks", "Caches"} ELSE {})

Dirs == CommonSkip \cup {"PrivateFrameworks", "Caches", "standalone/update"}
-----------------------------------------------------------------------------
Volumes == [role  : {"none", "system", "recovery", "data"},
            tree  : {"none", "noprivate", "private", "copied"},
            skip  : SUBSET Dirs,
            orig  : BOOLEAN,
            dirty : BOOLEAN]

Bare(r, t) == [role |-> r, tree |-> t, skip |-> {}, orig |-> FALSE, dirty |-> FALSE]

NoVolume == Bare("none", "none")
NewVolume == Bare("recovery", "noprivate")
SystemVolume == Bare("system", "copied")
ForeignVolume == Bare("data", "noprivate")

HasPrivate(v) == v.tree \in {"private", "copied"}

(* The snapshot is taken last: a volume that has it holds the whole copy. *)
SnapshotMeansComplete ==
    \A d \in Devs : vol[d].orig => vol[d].role = "recovery" /\ vol[d].tree = "copied"

(* A step of the program from one control state to another. *)
Go(from, to) == pc = from /\ pc' = to

(* The kernel publishes the device node of a volume some time after boot. *)
NodeAppears(d) ==
    /\ d \notin nodes
    /\ vol[d].role # "none"
    /\ nodes' = nodes \cup {d}
    /\ UNCHANGED <<pc, host, vol, mnt, root, bound>>

SharedTypeOK ==
    /\ info \subseteq InfoOptions
    /\ pinfo \subseteq PinfoOptions
    /\ hostdev \in Devs
    /\ wdt \in BOOLEAN
    /\ nodes \subseteq Devs
    /\ vol \in [Devs -> Volumes]
    /\ mnt \in Devs \cup {NoDev}
    /\ root \in [dev : Devs \cup {NoDev}, live : BOOLEAN]
    /\ bound \subseteq Dirs
=============================================================================
