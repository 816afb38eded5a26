------------------------------ MODULE Fakedyld ------------------------------
(***************************************************************************)
(* jbinit, the program the kernel starts in place of dyld: from the        *)
(* ramdisk it picks the volume to boot from, reverts a fakefs if asked to, *)
(* mounts the root, binds what a partial fakefs leaves out, patches dyld   *)
(* and executes launchd (src/src/jbinit/jbinit.c, main).                   *)
(*                                                                         *)
(* One action per function main calls.  spin() never returns: it is the    *)
(* control state "spin".  A mount that is retried until it succeeds is an  *)
(* action that is taken when it succeeds: a failed attempt changes nothing.*)
(***************************************************************************)
EXTENDS Palerain

VARIABLES
    usefs,     \* use_fakefs
    rootdev,   \* the local rootdev of main
    live,      \* rootlivefs: mount the volume itself (TRUE) or its snapshot
    darwin22   \* the root was found under its iOS 16 name

jbinit == <<usefs, rootdev, live, darwin22>>
mounts == <<mnt, root, bound>>
vars == <<pc, host, disk, mounts, jbinit>>

JbinitStates == {"read_file", "rootwait", "get_info", "pinfo_check", "select_root",
                 "remount_rdisk", "clean_fakefs", "clean_list", "clean_unmount",
                 "mountroot", "mount_devfs", "mount_cores", "init_log", "init_cores",
                 "prepare_rootfs", "patch_dyld", "execve"}
-----------------------------------------------------------------------------
(* Volumes jbinit may find: what setup_fakefs leaves behind at any point. *)
Copies(d) == [role : {"recovery"}, tree : {"private", "copied"},
              skip : {{}, SkipDirs(d)}, orig : BOOLEAN, dirty : BOOLEAN]

Fakefs(d) == {NoVolume, NewVolume} \cup {v \in Copies(d) : v.orig => v.tree = "copied"}

FoundOn(d) ==
    IF d = SysDev THEN {SystemVolume}
    ELSE IF d \in ForeignDevs THEN {ForeignVolume}
    ELSE IF d \in Disk0Devs <=> SysDev \in Disk0Devs THEN Fakefs(d)
    ELSE {NoVolume}

InitJbinit ==
    /\ usefs = FALSE
    /\ rootdev = NoDev
    /\ live = FALSE
    /\ darwin22 = FALSE

InitMounts ==
    /\ mnt = NoDev
    /\ root = [dev |-> NoDev, live |-> FALSE]
    /\ bound = {}

Init ==
    /\ pc = "read_file"
    /\ info \in SUBSET InfoOptions
    /\ pinfo \in SUBSET PinfoOptions
    /\ hostdev \in Devs
    /\ wdt \in BOOLEAN
    /\ nodes = {}
    /\ vol \in {v \in [Devs -> UNION {FoundOn(d) : d \in Devs}] :
                    \A d \in Devs : v[d] \in FoundOn(d)}
    /\ InitMounts
    /\ InitJbinit
-----------------------------------------------------------------------------
(* main 41-67: the boot arguments, jbloader and the payload. *)
ReadFiles ==
    /\ pc = "read_file"
    /\ pc' \in {"rootwait", "spin"}
    /\ UNCHANGED <<host, disk, mounts, jbinit>>

(* rootwait: wait for either root device; the iOS 15 name is looked up last. *)
RootNamesIos15Only == {Ios15}
RootNames == {Ios15, Ios16}

Rootwait ==
    /\ Go("rootwait", "get_info")
    /\ nodes \cap RootNames # {}
    /\ rootdev' = IF Ios15 \in nodes THEN Ios15 ELSE Ios16
    /\ darwin22' = (Ios15 \notin nodes)
    /\ UNCHANGED <<host, disk, mounts, usefs, live>>

(* get_info: the option blocks are read and checked, or the boot ends. *)
GetInfo ==
    /\ pc = "get_info"
    /\ pc' \in {"pinfo_check", "spin"}
    /\ UNCHANGED <<host, disk, mounts, jbinit>>

(* pinfo_check: whether "/" will be the fakefs ... *)
UseFakefsKeepsOnRevert ==
    "rootful" \in pinfo /\ "setup_rootful" \notin pinfo
UseFakefs ==
    /\ "rootful" \in pinfo
    /\ "force_revert" \notin info
    /\ "setup_rootful" \notin pinfo

(* ... the combinations of options it refuses, and a setup over a fakefs
   whose node is there. *)
Conflicting ==
    \/ "force_revert" \in info /\ "clean_fakefs" \in pinfo
    \/ "clean_fakefs" \in pinfo /\ "rootful" \notin pinfo
    \/ /\ "setup_rootful" \in pinfo
       /\ "rootful" \notin pinfo \/ ~ wdt \/ "clean_fakefs" \in pinfo
    \/ "setup_partial_root" \in pinfo /\ "setup_rootful" \notin pinfo

OverExistingFakefs ==
    /\ "setup_rootful" \in pinfo
    /\ hostdev \in nodes
    /\ "setup_rootful_forced" \notin pinfo
    /\ "force_revert" \notin info

PinfoCheck ==
    /\ pc = "pinfo_check"
    /\ usefs' = UseFakefs
    /\ pc' = IF Conflicting \/ OverExistingFakefs THEN "spin" ELSE "select_root"
    /\ UNCHANGED <<host, disk, mounts, rootdev, live, darwin22>>

(* select_root: later assignments to rootlivefs win. *)
LiveIgnoresSetup ==
    \/ usefs \/ "bind_mount" \notin info
    \/ "rootful" \notin pinfo /\ "rootless_livefs" \in pinfo
LiveRoot ==
    \/ "setup_rootful" \notin pinfo /\ (usefs \/ "bind_mount" \notin info)
    \/ "rootful" \notin pinfo /\ "rootless_livefs" \in pinfo

SelectRoot ==
    /\ pc = "select_root"
    /\ rootdev' = IF usefs THEN hostdev ELSE rootdev
    /\ live' = LiveRoot
    /\ pc' = "remount_rdisk"
    /\ UNCHANGED <<host, disk, mounts, usefs, darwin22>>

(* remount_rdisk: the ramdisk becomes read-only, or it does not: either way the
   boot goes on. *)
RemountRdisk ==
    /\ pc = "remount_rdisk"
    /\ pc' = IF "clean_fakefs" \in pinfo THEN "clean_fakefs" ELSE "mountroot"
    /\ UNCHANGED <<host, disk, mounts, jbinit>>
-----------------------------------------------------------------------------
(* clean_fakefs: test-mount the root until /mnt/private is there ... *)
CleanMount ==
    /\ pc = "clean_fakefs"
    /\ rootdev \in nodes
    /\ mnt' = rootdev
    /\ IF HasPrivate(vol[rootdev])
         THEN pc' \in {"clean_list", "spin"}      \* open("/mnt")
         ELSE pc' = pc
    /\ UNCHANGED <<host, disk, root, bound, jbinit>>

(* ... and revert it, if its snapshot is listed. *)
FoundOrigFsAlways == TRUE
FoundOrigFs == vol[rootdev].orig

CleanRevert ==
    /\ pc = "clean_list"
    /\ \/ /\ FoundOrigFs
          /\ pc' = "clean_unmount"
          /\ vol' = [vol EXCEPT ![rootdev].dirty = FALSE]
       \/ pc' = "spin" /\ UNCHANGED vol
    /\ UNCHANGED <<host, nodes, mounts, jbinit>>

CleanUnmount ==
    /\ pc = "clean_unmount"
    /\ \/ pc' = "mountroot" /\ mnt' = NoDev
       \/ pc' = "spin" /\ UNCHANGED mnt
    /\ UNCHANGED <<host, disk, root, bound, jbinit>>
-----------------------------------------------------------------------------
(* mountroot: retried for as long as /private is missing.  MNT_UNION, which
   select_root adds exactly when bind mounts are off, changes what is seen
   through "/" and is looked at by no code. *)
Mountroot ==
    /\ pc = "mountroot"
    /\ rootdev \in nodes
    /\ root' = [dev |-> rootdev, live |-> live]
    /\ pc' = IF HasPrivate(vol[rootdev]) THEN "mount_devfs" ELSE pc
    /\ UNCHANGED <<host, disk, mnt, bound, jbinit>>

MountDevfs ==
    /\ pc = "mount_devfs"
    /\ pc' \in {"mount_cores", "spin"}
    /\ UNCHANGED <<host, disk, mounts, jbinit>>

(* mount_cores: the page size, and a tmpfs; then the log, if it is asked for by
   an option nothing else looks at. *)
MountCores ==
    /\ pc = "mount_cores"
    /\ pc' \in {"init_log", "init_cores", "spin"}
    /\ UNCHANGED <<host, disk, mounts, jbinit>>

(* init_log: no error of it ends the boot. *)
InitLog ==
    /\ Go("init_log", "init_cores")
    /\ UNCHANGED <<host, disk, mounts, jbinit>>

(* init_cores and write_file: a directory that is not there, or a file that
   cannot be opened for writing, ends the boot; a short write does not. *)
InitCores ==
    /\ pc = "init_cores"
    /\ pc' \in {"prepare_rootfs", "spin"}
    /\ UNCHANGED <<host, disk, mounts, jbinit>>

(* prepare_rootfs: nothing to bind where IOKit is already there; an
   unfinished copy may have it or not. *)
IOKitPresence ==
    IF vol[rootdev].tree = "copied" THEN {"Frameworks" \notin vol[rootdev].skip} ELSE BOOLEAN

CommonBinds == {"standalone/update", "Frameworks", "AccessibilityBundles", "Assistant",
                "Audio", "Fonts", "Health", "LinguisticData", "OnBoardingBundles",
                "Photos", "PreferenceBundles", "PreinstalledAssetsV2"}
BindsNoCaches == CommonBinds
Binds ==
    CommonBinds \cup (IF darwin22 THEN {} ELSE {"PrivateFrameworks", "Caches"})

(* The first bind that fails ends the boot, and nobody looks at those made
   before it. *)
PrepareRootfs ==
    /\ pc = "prepare_rootfs"
    /\ \E iokit \in IOKitPresence :
         IF iokit \/ ~ usefs \/ "bind_mount" \notin info
           THEN pc' = "patch_dyld" /\ UNCHANGED bound
           ELSE \/ pc' = "patch_dyld" /\ bound' = Binds
                \/ pc' = "spin" /\ UNCHANGED bound
    /\ UNCHANGED <<host, disk, mnt, root, jbinit>>

(* get_and_patch_dyld: reads, patches and deploys dyld, or spins. *)
PatchDyld ==
    /\ pc = "patch_dyld"
    /\ pc' \in {"execve", "spin"}
    /\ UNCHANGED <<host, disk, mounts, jbinit>>

(* execve of launchd with the payload inserted. *)
Execve ==
    /\ pc = "execve"
    /\ pc' \in {"launchd", "spin"}
    /\ UNCHANGED <<host, disk, mounts, jbinit>>
-----------------------------------------------------------------------------
JbinitStep ==
    \/ ReadFiles \/ Rootwait \/ GetInfo \/ PinfoCheck \/ SelectRoot \/ RemountRdisk
    \/ CleanMount \/ CleanRevert \/ CleanUnmount
    \/ Mountroot \/ MountDevfs \/ MountCores \/ InitLog \/ InitCores
    \/ PrepareRootfs \/ PatchDyld \/ Execve

KernelStep == \E d \in Devs : NodeAppears(d) /\ UNCHANGED jbinit

Next == JbinitStep \/ KernelStep

Spec == Init /\ [][Next]_vars
-----------------------------------------------------------------------------
TypeOK ==
    /\ SharedTypeOK
    /\ pc \in JbinitStates \cup {"launchd", "spin"}
    /\ usefs \in BOOLEAN
    /\ rootdev \in Devs \cup {NoDev}
    /\ live \in BOOLEAN
    /\ darwin22 \in BOOLEAN

(* A boot that is going to delete or create a fakefs (force_revert in
   kerninfo, setup_rootful in paleinfo) hands launchd the system volume as
   "/", never the volume it names, and a setup boot its sealed snapshot: what
   is deleted or copied is not what the system is running from. *)
RescueRootIsSystem ==
    pc = "launchd" /\ ("force_revert" \in info \/ "setup_rootful" \in pinfo) =>
        /\ root.dev = SysDev
        /\ "setup_rootful" \in pinfo => ~ root.live

(* A boot asked to clean the fakefs gets to the execve of launchd only on the
   fakefs the host named, with the revert done, over a finished copy, and with
   the test mount gone (clean_fakefs). *)
CleanBootIsPristine ==
    pc = "execve" /\ "clean_fakefs" \in pinfo =>
        /\ root = [dev |-> hostdev, live |-> TRUE]
        /\ vol[hostdev].orig /\ vol[hostdev].tree = "copied" /\ ~ vol[hostdev].dirty
        /\ mnt = NoDev

(* When launchd starts on a finished fakefs with bind mounts on, every
   directory the copy skipped is bound from the system volume: the list of
   fakefs.c, which goes by the name of the device, is covered by the list of
   prepare_rootfs.c, which goes by the device node jbinit found. *)
SkippedDirsBound ==
    pc = "launchd" /\ usefs /\ "bind_mount" \in info /\ vol[root.dev].tree = "copied" =>
        vol[root.dev].skip \subseteq bound

(* jbinit writes to no volume but the one the host names as its fakefs, in a
   boot that is going to run from that fakefs. *)
WritesOnlyNamedFakefs ==
    [][\A d \in Devs : vol'[d] # vol[d] =>
          /\ d = hostdev /\ vol[d].role = "recovery"
          /\ {"rootful", "clean_fakefs"} \subseteq pinfo
          /\ "force_revert" \notin info /\ "setup_rootful" \notin pinfo]_vars

(* The retry loops of mountroot and clean_fakefs have no end on a volume that
   does not exist or has no /private. *)
UnusableRoot ==
    /\ pc \in {"clean_fakefs", "mountroot"}
    /\ vol[rootdev].role = "none" \/ ~ HasPrivate(vol[rootdev])

(* Every boot ends in launchd or in spin(), however late the kernel publishes
   the volumes; only one that is to run from a fakefs can retry for ever, and
   only over a fakefs that is not there or was left without /private. *)
BootDecides == pc = "read_file" ~> (pc \in {"launchd", "spin"} \/ (usefs /\ UnusableRoot))
-----------------------------------------------------------------------------
(* The inductive invariant: what each local of main holds from the call that
   sets it, and what that call has established about the disk. *)
Mounted == {"mount_devfs", "mount_cores", "init_log", "init_cores", "prepare_rootfs",
            "patch_dyld", "execve", "launchd"}
Selected == {"remount_rdisk", "clean_fakefs", "clean_list", "clean_unmount", "mountroot"} \cup Mounted
Checked == {"select_root"} \cup Selected

(* No node without a volume, no snapshot without a whole copy, and a copy
   leaves out either nothing or what its name says. *)
DiskInv ==
    /\ \A d \in nodes : vol[d].role # "none"
    /\ SnapshotMeansComplete
    /\ \A d \in Devs : vol[d].skip \in {{}, SkipDirs(SysDev)}

LocalsInv ==
    /\ pc \in {"get_info", "pinfo_check", "select_root"} => rootdev = SysDev
    /\ pc \in {"get_info", "pinfo_check"} \cup Checked => darwin22 = (SysDev # Ios15)
    /\ pc \in Checked => usefs = UseFakefs /\ ~ Conflicting
    /\ pc \in Selected =>
          /\ rootdev = IF usefs THEN hostdev ELSE SysDev
          /\ live = LiveRoot

CleanInv ==
    /\ pc \in {"clean_fakefs", "clean_list", "clean_unmount"} => "clean_fakefs" \in pinfo
    /\ pc = "clean_unmount" \/ (pc \in {"mountroot"} \cup Mounted /\ "clean_fakefs" \in pinfo) =>
          vol[rootdev].orig /\ ~ vol[rootdev].dirty
    /\ pc \notin {"clean_fakefs", "clean_list", "clean_unmount", "spin"} => mnt = NoDev

RootInv ==
    /\ pc \in Mounted => root = [dev |-> rootdev, live |-> live]
    /\ pc \in {"patch_dyld", "execve", "launchd"} /\ usefs /\ "bind_mount" \in info
         /\ vol[root.dev].tree = "copied" => vol[root.dev].skip \subseteq bound

IInv == TypeOK /\ DiskInv /\ LocalsInv /\ CleanInv /\ RootInv
=============================================================================
