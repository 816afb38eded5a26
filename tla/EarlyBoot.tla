----------------------------- MODULE EarlyBoot ------------------------------
(***************************************************************************)
(* What happens between the execve of launchd and a running userland: the  *)
(* constructor of payload.dylib in pid 1 (systemhooks/payload.c), the      *)
(* jbloader -f it waits for, which deletes and creates the fakefs          *)
(* (jbloader/loader/launchd.c, fakefs.c, delete_fs.c), and the remount     *)
(* jbloader -s makes (sysstatuscheck.c, remount.c).                        *)
(*                                                                         *)
(* pid 1 waits for each child, so one control state serves them all.  A    *)
(* child that spins leaves pid 1 waiting: that is "spin" too.  An          *)
(* operation the system may refuse either succeeds or ends in "spin".      *)
(***************************************************************************)
EXTENDS Palerain

VARIABLES
    fake,      \* the volume mounted on /cores/fs/fake, or NoDev
    ubooted,   \* XPC_USERSPACE_REBOOTED is in the environment
    rw         \* "/" is mounted writable

early == <<fake, ubooted, rw>>

EarlyStates == {"launchd", "mount_dmg", "mount_loader", "create_remove_fakefs", "setup_decide",
                "setup_fakefs", "setup_create", "setup_mount", "copyfile",
                "copyfile_rest", "snapshot", "setup_done", "abort", "ctor_flags",
                "reboot", "sysstatuscheck", "running"}

InitEarly == fake = NoDev /\ ubooted = FALSE /\ rw = FALSE
-----------------------------------------------------------------------------
(* customConstructor spawns jbloader -f; jbloader_early has nothing to do
   after a userspace reboot. *)
SpawnJbloader ==
    /\ pc = "launchd"
    /\ pc' \in {IF ubooted THEN "ctor_flags" ELSE "mount_dmg", "spin"}
    /\ UNCHANGED <<host, disk, mnt, root, bound, early>>

(* mount_dmg: an image is attached, or the assertion that it can be fails, and
   every entry found below it is tried on the same directory; one mount that
   works is enough, whichever entry it was.  works holds their results. *)
mount_dmg(next) ==
    \/ pc' = "spin"
    \/ \E works \in SUBSET BOOLEAN : pc' = IF TRUE \in works THEN next ELSE "spin"

(* check_and_mount_dmg and check_and_mount_loader: what jbloader needs is there,
   or it is mounted on a directory that has to be there. *)
MountOverlay ==
    /\ pc = "mount_dmg"
    /\ pc' = "mount_loader" \/ mount_dmg("mount_loader")
    /\ UNCHANGED <<host, disk, mnt, root, bound, early>>

MountLoader ==
    /\ pc = "mount_loader"
    /\ pc' = "create_remove_fakefs" \/ mount_dmg("create_remove_fakefs")
    /\ UNCHANGED <<host, disk, mnt, root, bound, early>>

(* DeleteAPFSVolumeWithRole: a published volume, of the role a fakefs has. *)
DeletableAnyRole(d) == d \in nodes
Deletable(d) == d \in nodes /\ vol[d].role = "recovery"

DeleteVolume(d) ==
    /\ Deletable(d)
    /\ vol' = [vol EXCEPT ![d] = NoVolume]
    /\ nodes' = nodes \ {d}

(* create_remove_fakefs 267-278: on a rootful boot with force_revert the
   fakefs goes; a failure is only logged, and a name ending in 1 is spared. *)
RevertUnlessSetup ==
    "force_revert" \in info /\ "rootful" \in pinfo /\ "setup_rootful" \notin pinfo
RevertWanted == "force_revert" \in info /\ "rootful" \in pinfo

RevertFakefs ==
    /\ pc = "create_remove_fakefs"
    /\ IF RevertWanted /\ hostdev \in EndsInOne
         THEN pc' = "ctor_flags" /\ UNCHANGED disk
         ELSE /\ pc' = "setup_decide"
              /\ \/ RevertWanted /\ DeleteVolume(hostdev)
                 \/ UNCHANGED disk
    /\ UNCHANGED <<host, mnt, root, bound, early>>

(* create_remove_fakefs 279-295: a fakefs in the way is deleted if the boot
   is forced, and otherwise fails an assertion. *)
SetupDecide ==
    /\ pc = "setup_decide"
    /\ IF "setup_rootful" \notin pinfo
         THEN pc' = "ctor_flags" /\ UNCHANGED disk
         ELSE IF hostdev \notin nodes
         THEN pc' = "setup_fakefs" /\ UNCHANGED disk
         ELSE IF "setup_rootful_forced" \notin pinfo
         THEN pc' = "abort" /\ UNCHANGED disk
         ELSE \/ pc' = "setup_fakefs" /\ DeleteVolume(hostdev)
              \/ pc' = "spin" /\ UNCHANGED disk
    /\ UNCHANGED <<host, mnt, root, bound, early>>
-----------------------------------------------------------------------------
(* setup_fakefs 117-152: fsck, the type of "/", no fakefs, room for the
   copy, and "/" bound where the copy will read it. *)
SetupChecks ==
    /\ pc = "setup_fakefs"
    /\ \/ hostdev \notin nodes /\ pc' = "setup_create"
       \/ pc' = "spin"
    /\ UNCHANGED <<host, disk, mnt, root, bound, early>>

(* Names APFSVolumeCreate may give: unused, in the container that the name
   the host gave stands for; there is one only if it is the container of "/". *)
SameContainer(d, e) == d \in Disk0Devs <=> e \in Disk0Devs
FreeNames ==
    {d \in Devs : /\ vol[d].role = "none"
                  /\ SameContainer(d, hostdev)
                  /\ SameContainer(hostdev, SysDev)}

(* setup_fakefs 154-194: the system picks the index; a volume that did not
   get the name the host expects is left where it is. *)
SetupCreate ==
    /\ pc = "setup_create"
    /\ \/ \E d \in FreeNames :
            /\ vol' = [vol EXCEPT ![d] = NewVolume]
            /\ pc' = IF d = hostdev THEN "setup_mount" ELSE "spin"
       \/ pc' = "spin" /\ UNCHANGED vol
    /\ UNCHANGED <<host, nodes, mnt, root, bound, early>>

(* 195-199: two seconds later the node has to be there. *)
SetupMount ==
    /\ pc = "setup_mount"
    /\ \/ hostdev \in nodes /\ fake' = hostdev /\ pc' = "copyfile"
       \/ pc' = "spin" /\ UNCHANGED fake
    /\ UNCHANGED <<host, disk, mnt, root, bound, ubooted, rw>>

(* copyfile with copyfile_fakefs_cb, in two halves: until /private is there,
   and to the end.  The callback leaves out SkipDirs of the name the host
   gave. *)
CopySkipsTooMuch ==
    IF "setup_partial_root" \in pinfo THEN SkipDirs(hostdev) \cup {"LaunchDaemons"} ELSE {}
CopySkips == IF "setup_partial_root" \in pinfo THEN SkipDirs(hostdev) ELSE {}

CopyFiles(from, to, tree) ==
    /\ pc = from
    /\ \/ /\ pc' = to
          /\ vol' = [vol EXCEPT ![fake].tree = tree, ![fake].skip = CopySkips]
       \/ pc' = "spin" /\ UNCHANGED vol
    /\ UNCHANGED <<host, nodes, mnt, root, bound, early>>

CopyFirst == CopyFiles("copyfile", "copyfile_rest", "private")
CopyRest == CopyFiles("copyfile_rest", "snapshot", "copied")

(* 223-230: the snapshot clean_fakefs reverts to. *)
SnapshotBeforeRest ==
    /\ pc = "copyfile_rest"
    /\ \/ pc' = "setup_done" /\ vol' = [vol EXCEPT ![fake].orig = TRUE]
       \/ pc' = "spin" /\ UNCHANGED vol
    /\ UNCHANGED <<host, nodes, mnt, root, bound, early>>
SnapshotUnchecked ==
    /\ Go("snapshot", "setup_done")
    /\ vol' \in {vol, [vol EXCEPT ![fake].orig = TRUE]}
    /\ UNCHANGED <<host, nodes, mnt, root, bound, early>>
TakeSnapshot ==
    /\ pc = "snapshot"
    /\ \/ pc' = "setup_done" /\ vol' = [vol EXCEPT ![fake].orig = TRUE]
       \/ pc' = "spin" /\ UNCHANGED vol
    /\ UNCHANGED <<host, nodes, mnt, root, bound, early>>

(* 231-262: unmounts whose result nobody looks at, and success. *)
SetupDone ==
    /\ Go("setup_done", "ctor_flags")
    /\ fake' \in {fake, NoDev}
    /\ UNCHANGED <<host, disk, mnt, root, bound, ubooted, rw>>

(* jbloader died of SIGABRT: the constructor spins. *)
Abort ==
    /\ Go("abort", "spin")
    /\ UNCHANGED <<host, disk, mnt, root, bound, early>>
-----------------------------------------------------------------------------
(* get_flags_from_p1ctl reads the flags again and looks at no result: if
   /dev/rmd0 does not open or its flags are not read, none is set, and without
   the size of the ramdisk, or the seek behind it, four other bytes are taken
   for them.  The device reboots if setup_rootful is among them. *)
CtorFlags ==
    /\ pc = "ctor_flags"
    /\ \E pflags \in SUBSET PinfoOptions :
         pc' = IF "setup_rootful" \in pflags THEN "reboot" ELSE "sysstatuscheck"
    /\ UNCHANGED <<host, disk, mnt, root, bound, early>>

(* fakefs_is_in_use (jbloader.h) looks for force_revert among the flags of
   paleinfo, where that bit means nothing and is never set. *)
FakefsIsInUse == "rootful" \in pinfo /\ "force_revert" \notin pinfo

(* remount: "/" is made writable if the fakefs is in use or /.mount_rw
   exists; the mount names the volume of paleinfo and may fail.  The remount of
   /private/preboot behind it concerns no volume of this module: it decides
   whether the moves of RootlessJb succeed, and each of those may fail.  The
   real sysstatuscheck is executed last, and a failure of that spins. *)
Sysstatuscheck ==
    /\ pc = "sysstatuscheck"
    /\ pc' \in {"running", "spin"}
    /\ \E mount_rw \in BOOLEAN :
         IF ~ ubooted /\ (FakefsIsInUse \/ mount_rw)
           THEN rw' \in BOOLEAN
           ELSE rw' = rw
    /\ UNCHANGED <<host, disk, mnt, root, bound, fake, ubooted>>

(* Userland writes to its root. *)
WriteRoot ==
    /\ pc = "running"
    /\ rw /\ root.live
    /\ vol' = [vol EXCEPT ![root.dev].dirty = TRUE]
    /\ UNCHANGED <<pc, host, nodes, mnt, root, bound, early>>

(* launchctl reboot userspace: launchd is executed again. *)
UserspaceReboot ==
    /\ Go("running", "launchd")
    /\ ubooted' = TRUE
    /\ UNCHANGED <<host, disk, mnt, root, bound, fake, rw>>

EarlyStep ==
    \/ SpawnJbloader \/ MountOverlay \/ MountLoader \/ RevertFakefs \/ SetupDecide
    \/ SetupChecks \/ SetupCreate \/ SetupMount \/ CopyFirst \/ CopyRest
    \/ TakeSnapshot \/ SetupDone \/ Abort \/ CtorFlags \/ Sysstatuscheck

EarlyTypeOK ==
    /\ fake \in Devs \cup {NoDev}
    /\ ubooted \in BOOLEAN
    /\ rw \in BOOLEAN
=============================================================================
