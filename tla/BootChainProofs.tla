-------------------------- MODULE BootChainProofs --------------------------
(***************************************************************************)
(* Proofs about BootChain: any number of boots with any options, on any    *)
(* set of volumes, with power lost anywhere.  ChainInv is inductive; what  *)
(* the boots may never do to the volumes follows from it.                  *)
(***************************************************************************)
EXTENDS BootChain, TLAPS

(* Skip lists hold directories, and names in one container share one. *)
LEMMA SkipLists ==
    /\ \A d \in Devs : SkipDirs(d) \subseteq Dirs
    /\ \A d \in Devs : SameContainer(d, SysDev) => SkipDirs(d) = SkipDirs(SysDev)
BY DEF SkipDirs, Dirs, CommonSkip, SameContainer

(* A volume without a copy: typed, no snapshot, nothing skipped. *)
LEMMA BareVolumes ==
    ASSUME NEW v \in {NoVolume, NewVolume, SystemVolume, ForeignVolume}
    PROVE  v \in Volumes /\ ~ v.orig /\ v.skip = {}
<1>1. \A r \in {"none", "system", "recovery", "data"} :
      \A t \in {"none", "noprivate", "private", "copied"} :
         Bare(r, t) \in Volumes /\ ~ Bare(r, t).orig /\ Bare(r, t).skip = {}
  BY DEF Bare, Volumes
<1>2. QED
  BY <1>1 DEF NoVolume, NewVolume, SystemVolume, ForeignVolume

(* The roles of the volumes the model writes down. *)
LEMMA BareRoles ==
    /\ NoVolume.role = "none" /\ NewVolume.role = "recovery"
    /\ SystemVolume.role = "system" /\ ForeignVolume.role = "data"
BY DEF NoVolume, NewVolume, SystemVolume, ForeignVolume, Bare

(* A device that was never jailbroken satisfies the inductive invariant. *)
LEMMA InitChain == ChainInit => ChainInv
<1> SUFFICES ASSUME ChainInit PROVE ChainInv
  OBVIOUS
<1> USE DEF ChainInit, InitMounts, InitJbinit, InitEarly
<1>1. /\ vol \in [Devs -> Volumes]
      /\ \A d \in Devs : ~ vol[d].orig /\ vol[d].skip = {}
  BY BareVolumes
<1>2. vol[SysDev].role = "system"
  BY BareRoles, DevsAssumption
<1>3. ChainTypeOK
  BY <1>1, DevsAssumption DEF ChainTypeOK, SharedTypeOK, EarlyTypeOK
<1>4. DiskChain
  BY <1>1, <1>2 DEF DiskChain, DiskInv, SnapshotMeansComplete
<1>5. LocalsChain /\ RootChain /\ SetupChain
  BY DevsAssumption DEF LocalsChain, RootChain, SetupChain, Checked, Selected, Mounted, SetupStates,
     Building, EarlyStates, JbinitStates, LoaderDone, AfterLoader
<1>6. QED
  BY <1>3, <1>4, <1>5 DEF ChainInv

(* Marking one volume clean or dirty changes nothing else. *)
LEMMA OnlyDirty ==
    ASSUME vol \in [Devs -> Volumes], NEW e \in Devs, NEW b \in BOOLEAN,
           vol' = [vol EXCEPT ![e].dirty = b] \/ vol' = vol
    PROVE  /\ vol' \in [Devs -> Volumes]
           /\ \A d \in Devs : /\ vol'[d].role = vol[d].role /\ vol'[d].tree = vol[d].tree
                              /\ vol'[d].skip = vol[d].skip /\ vol'[d].orig = vol[d].orig
<1>1. CASE vol' = vol
  BY <1>1
<1>2. CASE vol' = [vol EXCEPT ![e].dirty = b]
  <2>1. vol[e] \in Volumes /\ [vol[e] EXCEPT !.dirty = b] \in Volumes
    BY DEF Volumes
  <2>2. \A d \in Devs : vol'[d] = IF d = e THEN [vol[e] EXCEPT !.dirty = b] ELSE vol[d]
    BY <1>2
  <2>3. vol' \in [Devs -> Volumes]
    BY <1>2, <2>1
  <2>4. QED
    BY <2>1, <2>2, <2>3 DEF Volumes
<1>3. QED
  BY <1>1, <1>2

(* Nor does taking a snapshot of one. *)
LEMMA OnlyOrig ==
    ASSUME vol \in [Devs -> Volumes], NEW e \in Devs, vol' = [vol EXCEPT ![e].orig = TRUE] \/ vol' = vol
    PROVE  /\ vol' \in [Devs -> Volumes]
           /\ \A d \in Devs : /\ vol'[d].role = vol[d].role /\ vol'[d].tree = vol[d].tree
                              /\ vol'[d].skip = vol[d].skip
                              /\ d # e => vol'[d].orig = vol[d].orig
<1>1. CASE vol' = vol
  BY <1>1
<1>2. CASE vol' = [vol EXCEPT ![e].orig = TRUE]
  <2>1. vol[e] \in Volumes /\ [vol[e] EXCEPT !.orig = TRUE] \in Volumes
    BY DEF Volumes
  <2>2. \A d \in Devs : vol'[d] = IF d = e THEN [vol[e] EXCEPT !.orig = TRUE] ELSE vol[d]
    BY <1>2
  <2>3. vol' \in [Devs -> Volumes]
    BY <1>2, <2>1
  <2>4. QED
    BY <2>1, <2>2, <2>3 DEF Volumes
<1>3. QED
  BY <1>1, <1>2

(* Every call main of jbinit makes keeps the inductive invariant. *)
LEMMA JbinitKeeps == ChainInv /\ JbinitRuns => ChainInv'
<1> SUFFICES ASSUME ChainInv, JbinitRuns PROVE ChainInv'
  OBVIOUS
<1> USE DEF ChainInv, Go, host, disk, mounts, jbinit, early, JbinitRuns
<1>1. CASE ReadFiles \/ GetInfo \/ RemountRdisk \/ MountDevfs \/ MountCores \/ InitLog
           \/ InitCores \/ PatchDyld \/ Execve
  <2>1. UNCHANGED <<info, pinfo, usefs, rootdev, darwin22, hostdev>> /\ UseFakefs' = UseFakefs
    BY <1>1 DEF ReadFiles, GetInfo, RemountRdisk, MountDevfs, MountCores,
       InitLog, InitCores, PatchDyld, Execve, UseFakefs
  <2>2. ChainTypeOK'
    BY <1>1, <2>1 DEF ReadFiles, GetInfo, RemountRdisk, MountDevfs, MountCores,
       InitLog, InitCores, PatchDyld, Execve, ChainTypeOK,
       SharedTypeOK, EarlyTypeOK, JbinitStates, EarlyStates
  <2>3. DiskChain'
    BY <1>1, <2>1, DevsAssumption DEF ReadFiles, GetInfo, RemountRdisk, MountDevfs, MountCores,
       InitLog, InitCores, PatchDyld, Execve,
       ChainTypeOK, SharedTypeOK, DiskChain, DiskInv, SnapshotMeansComplete
  <2>4. LocalsChain'
    BY <1>1, <2>1 DEF ReadFiles, GetInfo, RemountRdisk, MountDevfs, MountCores,
       InitLog, InitCores, PatchDyld, Execve, ChainTypeOK,
       SharedTypeOK, LocalsChain, Checked, Selected, Mounted, EarlyStates, UseFakefs
  <2>5. RootChain'
    BY <1>1, <2>1 DEF ReadFiles, GetInfo, RemountRdisk, MountDevfs, MountCores,
       InitLog, InitCores, PatchDyld, Execve, ChainTypeOK,
       SharedTypeOK, RootChain, LocalsChain, Checked, Selected, Mounted, JbinitStates,
       EarlyStates
  <2>6. SetupChain'
    BY <1>1, <2>1 DEF ReadFiles, GetInfo, RemountRdisk, MountDevfs, MountCores, InitLog,
       InitCores, PatchDyld, Execve, ChainTypeOK, SharedTypeOK, EarlyTypeOK, SetupChain,
       SetupStates, Building, LoaderDone, AfterLoader, SetupTaken, RevertWanted, Ready
  <2>7. QED
    BY <2>2, <2>3, <2>4, <2>5, <2>6
<1>2. CASE Rootwait
  <2>1. rootdev' = SysDev /\ darwin22' = (SysDev # Ios15)
    BY <1>2, DevsAssumption DEF Rootwait, RootNames, ChainTypeOK, SharedTypeOK, Ios15, Ios16
  <2>2. SysDev \in Devs /\ darwin22' \in BOOLEAN
    BY <1>2, DevsAssumption DEF Rootwait
  <2>3. ChainTypeOK'
    BY <1>2, <2>1, <2>2 DEF Rootwait, ChainTypeOK, SharedTypeOK, EarlyTypeOK, JbinitStates,
       EarlyStates
  <2>4. DiskChain'
    BY <1>2, <2>1, <2>2, DevsAssumption DEF Rootwait, ChainTypeOK, SharedTypeOK, DiskChain,
       DiskInv, SnapshotMeansComplete
  <2>5. LocalsChain'
    BY <1>2, <2>1, <2>2 DEF Rootwait, ChainTypeOK, SharedTypeOK, LocalsChain, Checked,
       Selected, Mounted, EarlyStates, UseFakefs
  <2>6. RootChain'
    BY <1>2, <2>1, <2>2 DEF Rootwait, ChainTypeOK, SharedTypeOK, RootChain, LocalsChain,
       Checked, Selected, Mounted, JbinitStates, EarlyStates
  <2>7. SetupChain'
    BY <1>2, <2>1, <2>2 DEF Rootwait, ChainTypeOK, SharedTypeOK, EarlyTypeOK, SetupChain,
       SetupStates, Building, LoaderDone, AfterLoader, SetupTaken, RevertWanted, Ready
  <2>8. QED
    BY <2>3, <2>4, <2>5, <2>6, <2>7
<1>3. CASE PinfoCheck
  <2>1. UseFakefs \in BOOLEAN
    BY DEF UseFakefs
  <2>2. ChainTypeOK'
    BY <1>3, <2>1 DEF PinfoCheck, ChainTypeOK, SharedTypeOK, EarlyTypeOK, JbinitStates,
       EarlyStates
  <2>3. DiskChain'
    BY <1>3, <2>1, DevsAssumption DEF PinfoCheck, ChainTypeOK, SharedTypeOK, DiskChain,
       DiskInv, SnapshotMeansComplete
  <2>4. LocalsChain'
    BY <1>3, <2>1 DEF PinfoCheck, ChainTypeOK, SharedTypeOK, LocalsChain, Checked, Selected,
       Mounted, EarlyStates, UseFakefs
  <2>5. RootChain'
    BY <1>3, <2>1 DEF PinfoCheck, ChainTypeOK, SharedTypeOK, RootChain, LocalsChain,
       Checked, Selected, Mounted, JbinitStates, EarlyStates
  <2>6. SetupChain'
    BY <1>3, <2>1 DEF PinfoCheck, ChainTypeOK, SharedTypeOK, EarlyTypeOK, SetupChain,
       SetupStates, Building, LoaderDone, AfterLoader, SetupTaken, RevertWanted, Ready
  <2>7. QED
    BY <2>2, <2>3, <2>4, <2>5, <2>6
<1>4. CASE SelectRoot
  <2>1. LiveRoot \in BOOLEAN
    BY DEF LiveRoot, ChainTypeOK
  <2>2. ChainTypeOK'
    BY <1>4, <2>1 DEF SelectRoot, ChainTypeOK, SharedTypeOK, EarlyTypeOK, JbinitStates,
       EarlyStates
  <2>3. DiskChain'
    BY <1>4, <2>1, DevsAssumption DEF SelectRoot, ChainTypeOK, SharedTypeOK, DiskChain,
       DiskInv, SnapshotMeansComplete
  <2>4. LocalsChain'
    BY <1>4, <2>1 DEF SelectRoot, ChainTypeOK, SharedTypeOK, LocalsChain, Checked, Selected,
       Mounted, EarlyStates, UseFakefs
  <2>5. RootChain'
    BY <1>4, <2>1 DEF SelectRoot, ChainTypeOK, SharedTypeOK, RootChain, LocalsChain,
       Checked, Selected, Mounted, JbinitStates, EarlyStates
  <2>6. SetupChain'
    BY <1>4, <2>1 DEF SelectRoot, ChainTypeOK, SharedTypeOK, EarlyTypeOK, SetupChain,
       SetupStates, Building, LoaderDone, AfterLoader, SetupTaken, RevertWanted, Ready
  <2>7. QED
    BY <2>2, <2>3, <2>4, <2>5, <2>6
<1>5. CASE CleanMount
  <2>1. ChainTypeOK'
    BY <1>5 DEF CleanMount, ChainTypeOK, SharedTypeOK, EarlyTypeOK, JbinitStates,
       EarlyStates
  <2>2. DiskChain'
    BY <1>5, DevsAssumption DEF CleanMount, ChainTypeOK, SharedTypeOK, DiskChain, DiskInv,
       SnapshotMeansComplete
  <2>3. LocalsChain'
    BY <1>5 DEF CleanMount, ChainTypeOK, SharedTypeOK, LocalsChain, Checked, Selected,
       Mounted, EarlyStates, UseFakefs
  <2>4. RootChain'
    BY <1>5 DEF CleanMount, ChainTypeOK, SharedTypeOK, RootChain, LocalsChain, Checked,
       Selected, Mounted, JbinitStates, EarlyStates
  <2>5. SetupChain'
    BY <1>5 DEF CleanMount, ChainTypeOK, SharedTypeOK, EarlyTypeOK, SetupChain,
       SetupStates, Building, LoaderDone, AfterLoader, SetupTaken, RevertWanted, Ready
  <2>6. QED
    BY <2>1, <2>2, <2>3, <2>4, <2>5
<1>6. CASE CleanRevert
  <2>1. rootdev \in Devs
    BY <1>6, DevsAssumption DEF CleanRevert, LocalsChain, Selected, ChainTypeOK,
       SharedTypeOK
  <2>2. /\ vol' \in [Devs -> Volumes]
        /\ \A d \in Devs : /\ vol'[d].role = vol[d].role /\ vol'[d].tree = vol[d].tree
                           /\ vol'[d].skip = vol[d].skip /\ vol'[d].orig = vol[d].orig
    BY <1>6, <2>1, OnlyDirty DEF CleanRevert, ChainTypeOK, SharedTypeOK
  <2>3. ChainTypeOK'
    BY <1>6, <2>1, <2>2 DEF CleanRevert, ChainTypeOK, SharedTypeOK, EarlyTypeOK,
       JbinitStates, EarlyStates
  <2>4. DiskChain'
    BY <1>6, <2>1, <2>2, DevsAssumption DEF CleanRevert, ChainTypeOK, SharedTypeOK,
       DiskChain, DiskInv, SnapshotMeansComplete
  <2>5. LocalsChain'
    BY <1>6, <2>1, <2>2 DEF CleanRevert, ChainTypeOK, SharedTypeOK, LocalsChain, Checked,
       Selected, Mounted, EarlyStates, UseFakefs
  <2>6. RootChain'
    BY <1>6, <2>1, <2>2 DEF CleanRevert, ChainTypeOK, SharedTypeOK, RootChain, LocalsChain,
       Checked, Selected, Mounted, JbinitStates, EarlyStates
  <2>7. SetupChain'
    BY <1>6, <2>1, <2>2 DEF CleanRevert, ChainTypeOK, SharedTypeOK, EarlyTypeOK,
       SetupChain, SetupStates, Building, LoaderDone, AfterLoader, SetupTaken, RevertWanted,
       Ready
  <2>8. QED
    BY <2>3, <2>4, <2>5, <2>6, <2>7
<1>7. CASE CleanUnmount
  <2>1. ChainTypeOK'
    BY <1>7 DEF CleanUnmount, ChainTypeOK, SharedTypeOK, EarlyTypeOK, JbinitStates,
       EarlyStates
  <2>2. DiskChain'
    BY <1>7, DevsAssumption DEF CleanUnmount, ChainTypeOK, SharedTypeOK, DiskChain, DiskInv,
       SnapshotMeansComplete
  <2>3. LocalsChain'
    BY <1>7 DEF CleanUnmount, ChainTypeOK, SharedTypeOK, LocalsChain, Checked, Selected,
       Mounted, EarlyStates, UseFakefs
  <2>4. RootChain'
    BY <1>7 DEF CleanUnmount, ChainTypeOK, SharedTypeOK, RootChain, LocalsChain, Checked,
       Selected, Mounted, JbinitStates, EarlyStates
  <2>5. SetupChain'
    BY <1>7 DEF CleanUnmount, ChainTypeOK, SharedTypeOK, EarlyTypeOK, SetupChain,
       SetupStates, Building, LoaderDone, AfterLoader, SetupTaken, RevertWanted, Ready
  <2>6. QED
    BY <2>1, <2>2, <2>3, <2>4, <2>5
<1>8. CASE Mountroot
  <2>1. root' = [dev |-> rootdev, live |-> live] /\ live \in BOOLEAN /\ rootdev \in Devs \cup {NoDev}
    BY <1>8 DEF Mountroot, ChainTypeOK, SharedTypeOK
  <2>2. ChainTypeOK'
    BY <1>8, <2>1 DEF Mountroot, ChainTypeOK, SharedTypeOK, EarlyTypeOK, JbinitStates,
       EarlyStates
  <2>3. DiskChain'
    BY <1>8, <2>1, DevsAssumption DEF Mountroot, ChainTypeOK, SharedTypeOK, DiskChain,
       DiskInv, SnapshotMeansComplete
  <2>4. LocalsChain'
    BY <1>8, <2>1 DEF Mountroot, ChainTypeOK, SharedTypeOK, LocalsChain, Checked, Selected,
       Mounted, EarlyStates, UseFakefs
  <2>5. RootChain'
    BY <1>8, <2>1 DEF Mountroot, ChainTypeOK, SharedTypeOK, RootChain, LocalsChain, Checked,
       Selected, Mounted, JbinitStates, EarlyStates
  <2>6. SetupChain'
    BY <1>8, <2>1 DEF Mountroot, ChainTypeOK, SharedTypeOK, EarlyTypeOK, SetupChain,
       SetupStates, Building, LoaderDone, AfterLoader, SetupTaken, RevertWanted, Ready
  <2>7. QED
    BY <2>2, <2>3, <2>4, <2>5, <2>6
<1>9. CASE PrepareRootfs
  <2>1. Binds \subseteq Dirs
    BY DEF Binds, CommonBinds, Dirs, CommonSkip
  <2>2. SkipDirs(SysDev) \subseteq Binds
    BY <1>9, DevsAssumption DEF PrepareRootfs, LocalsChain, Checked, Selected, Mounted,
       SkipDirs, CommonSkip, Binds, CommonBinds
  <2>3. IOKitPresence = {"Frameworks" \notin vol[rootdev].skip} \/ vol[rootdev].tree # "copied"
    BY DEF IOKitPresence
  <2>4. usefs /\ "bind_mount" \in info /\ vol[rootdev].tree = "copied" /\ pc' = "patch_dyld" =>
            vol[rootdev].skip \subseteq bound'
    <3> SUFFICES ASSUME usefs, "bind_mount" \in info, vol[rootdev].tree = "copied",
                        pc' = "patch_dyld"
                 PROVE  vol[rootdev].skip \subseteq bound'
      OBVIOUS
    <3>1. rootdev \in Devs
      BY <1>9 DEF PrepareRootfs, LocalsChain, Selected, Mounted, ChainTypeOK, SharedTypeOK
    <3>2. vol[rootdev].skip \in {{}, SkipDirs(SysDev)} /\ "Frameworks" \in SkipDirs(SysDev)
      BY <3>1 DEF DiskChain, DiskInv, SkipDirs, CommonSkip
    <3>3. "Frameworks" \notin vol[rootdev].skip \/ bound' = Binds
      BY <1>9, <2>3 DEF PrepareRootfs
    <3>4. QED
      BY <2>2, <3>2, <3>3
  <2>5. ChainTypeOK'
    BY <1>9, <2>1, <2>2, <2>3, <2>4 DEF PrepareRootfs, ChainTypeOK, SharedTypeOK,
       EarlyTypeOK, JbinitStates, EarlyStates
  <2>6. DiskChain'
    BY <1>9, <2>1, <2>2, <2>3, <2>4, DevsAssumption DEF PrepareRootfs, ChainTypeOK,
       SharedTypeOK, DiskChain, DiskInv, SnapshotMeansComplete
  <2>7. LocalsChain'
    BY <1>9, <2>1, <2>2, <2>3, <2>4 DEF PrepareRootfs, ChainTypeOK, SharedTypeOK,
       LocalsChain, Checked, Selected, Mounted, EarlyStates, UseFakefs
  <2>8. RootChain'
    BY <1>9, <2>1, <2>2, <2>3, <2>4, DevsAssumption DEF PrepareRootfs, ChainTypeOK,
       SharedTypeOK, RootChain, LocalsChain, Checked, Selected, Mounted, JbinitStates,
       EarlyStates, DiskChain, DiskInv, SkipDirs, CommonSkip
  <2>9. SetupChain'
    BY <1>9, <2>1, <2>2, <2>3, <2>4 DEF PrepareRootfs, ChainTypeOK, SharedTypeOK,
       EarlyTypeOK, SetupChain, SetupStates, Building, LoaderDone, AfterLoader, SetupTaken,
       RevertWanted, Ready
  <2>10. QED
    BY <2>5, <2>6, <2>7, <2>8, <2>9
<1>10. QED
  BY <1>1, <1>2, <1>3, <1>4, <1>5, <1>6, <1>7, <1>8, <1>9 DEF JbinitRuns, JbinitStep

(* Copying into the volume of a setup: only that volume changes, and what it
   leaves out is nothing or what its name, in the container of the system
   volume, calls for. *)
LEMMA CopyKeeps ==
    ASSUME vol \in [Devs -> Volumes], hostdev \in Devs, fake = hostdev,
           SameContainer(hostdev, SysDev), NEW t \in {"private", "copied"},
           vol[hostdev].skip \in {{}, SkipDirs(SysDev)},
           \/ vol' = [vol EXCEPT ![fake].tree = t, ![fake].skip = CopySkips]
           \/ vol' = vol
    PROVE  /\ vol' \in [Devs -> Volumes]
           /\ \A d \in Devs \ {hostdev} : vol'[d] = vol[d]
           /\ vol'[hostdev].role = vol[hostdev].role
           /\ vol'[hostdev].orig = vol[hostdev].orig
           /\ vol'[hostdev].skip \in {{}, SkipDirs(SysDev)}
           /\ vol' = [vol EXCEPT ![fake].tree = t, ![fake].skip = CopySkips] =>
                 vol'[hostdev].tree = t
<1>1. CopySkips \in {{}, SkipDirs(SysDev)} /\ CopySkips \subseteq Dirs
  BY SkipLists DEF CopySkips
<1>2. CASE vol' = vol /\ vol' # [vol EXCEPT ![fake].tree = t, ![fake].skip = CopySkips]
  BY <1>2
<1>3. CASE vol' = [vol EXCEPT ![fake].tree = t, ![fake].skip = CopySkips]
  <2>1. vol'[hostdev] = [vol[hostdev] EXCEPT !.tree = t, !.skip = CopySkips]
    BY <1>3
  <2>2. vol[hostdev] \in Volumes /\ vol'[hostdev] \in Volumes
    BY <1>1, <2>1 DEF Volumes
  <2>3. \A d \in Devs \ {hostdev} : vol'[d] = vol[d]
    BY <1>3
  <2>4. vol' \in [Devs -> Volumes]
    BY <1>3, <2>2, <2>3
  <2>5. QED
    BY <1>1, <2>1, <2>2, <2>3, <2>4 DEF Volumes
<1>4. QED
  BY <1>2, <1>3

(* So does every step of the constructor of payload.dylib and of jbloader. *)
LEMMA EarlyKeeps == ChainInv /\ EarlyRuns => ChainInv'
<1> SUFFICES ASSUME ChainInv, EarlyRuns PROVE ChainInv'
  OBVIOUS
<1> USE DEF ChainInv, Go, host, disk, mounts, jbinit, early, EarlyRuns
<1>1. CASE SpawnJbloader \/ MountOverlay \/ MountLoader \/ SetupChecks \/ Abort \/ CtorFlags
  <2>1. UNCHANGED <<host, disk, mounts, early>>
    BY <1>1 DEF SpawnJbloader, MountOverlay, MountLoader, SetupChecks, Abort, CtorFlags
  <2>2. /\ pc \in {"launchd", "mount_dmg", "mount_loader", "setup_fakefs", "abort", "ctor_flags"}
        /\ \/ pc' \in {"ctor_flags", "mount_dmg", "mount_loader", "create_remove_fakefs",
                       "spin", "sysstatuscheck"}
           \/ pc' = "setup_create" /\ pc = "setup_fakefs"
           \/ pc' = "reboot" /\ pc = "ctor_flags"
    BY <1>1 DEF SpawnJbloader, MountOverlay, MountLoader, mount_dmg, SetupChecks, Abort, CtorFlags
  <2>3. ChainTypeOK'
    BY <2>1, <2>2 DEF ChainTypeOK, SharedTypeOK, EarlyTypeOK, JbinitStates, EarlyStates
  <2>4. DiskChain'
    BY <2>1, DevsAssumption DEF ChainTypeOK, SharedTypeOK, DiskChain, DiskInv,
       SnapshotMeansComplete
  <2>5. LocalsChain'
    BY <2>1, <2>2 DEF ChainTypeOK, SharedTypeOK, LocalsChain, Checked, Selected, Mounted,
       EarlyStates, UseFakefs
  <2>6. RootChain'
    BY <2>1, <2>2 DEF ChainTypeOK, SharedTypeOK, RootChain, LocalsChain, Checked, Selected,
       Mounted, JbinitStates, EarlyStates
  <2>7. /\ pc' = "ctor_flags" => pc = "launchd" /\ ubooted
        /\ pc' \in {"sysstatuscheck", "reboot"} => pc = "ctor_flags"
        /\ pc' \in {"mount_dmg", "mount_loader", "create_remove_fakefs"} => ~ ubooted
    BY <1>1, <2>2 DEF SpawnJbloader, MountOverlay, MountLoader, mount_dmg, SetupChecks, Abort,
       CtorFlags, SetupChain, AfterLoader
  <2>8. (SetupTaken => Ready(hostdev))' \/ ~ LoaderDone'
    BY <2>1, <2>2, <2>7 DEF SetupChain, LoaderDone, AfterLoader, SetupTaken, RevertWanted, Ready
  <2>9. SetupChain'
    BY <2>1, <2>2, <2>7, <2>8 DEF SetupChain, SetupStates, Building, AfterLoader
  <2>10. QED
    BY <2>3, <2>4, <2>5, <2>6, <2>9
<1>2. CASE RevertFakefs
  <2>1. /\ vol' \in [Devs -> Volumes]
        /\ nodes' \subseteq nodes
        /\ \A d \in Devs : vol'[d] = vol[d] \/ (vol'[d] = NoVolume /\ d \notin nodes' /\ d # SysDev)
    BY <1>2, BareVolumes DEF RevertFakefs, DeleteVolume, Deletable, ChainTypeOK,
       SharedTypeOK, DiskChain
  <2>2. vol' # vol => ~ usefs
    BY <1>2 DEF RevertFakefs, RevertWanted, LocalsChain, UseFakefs, EarlyStates
  <2>3. ChainTypeOK'
    BY <1>2, <2>1, <2>2 DEF RevertFakefs, ChainTypeOK, SharedTypeOK, EarlyTypeOK,
       JbinitStates, EarlyStates
  <2>4. DiskChain'
    BY <1>2, <2>1, <2>2, DevsAssumption DEF RevertFakefs, ChainTypeOK, SharedTypeOK,
       DiskChain, DiskInv, SnapshotMeansComplete, NoVolume, Bare
  <2>5. LocalsChain'
    BY <1>2, <2>1, <2>2 DEF RevertFakefs, ChainTypeOK, SharedTypeOK, LocalsChain, Checked,
       Selected, Mounted, EarlyStates, UseFakefs
  <2>6. RootChain'
    BY <1>2, <2>1, <2>2 DEF RevertFakefs, ChainTypeOK, SharedTypeOK, RootChain, LocalsChain,
       Checked, Selected, Mounted, JbinitStates, EarlyStates
  <2>7. SetupChain'
    BY <1>2, <2>1, <2>2 DEF RevertFakefs, ChainTypeOK, SharedTypeOK, EarlyTypeOK,
       SetupChain, SetupStates, Building, LoaderDone, AfterLoader, SetupTaken, RevertWanted,
       Ready
  <2>8. QED
    BY <2>3, <2>4, <2>5, <2>6, <2>7
<1>3. CASE SetupDecide
  <2>1. /\ vol' \in [Devs -> Volumes]
        /\ nodes' \subseteq nodes
        /\ \A d \in Devs : vol'[d] = vol[d] \/ (vol'[d] = NoVolume /\ d \notin nodes' /\ d # SysDev)
    BY <1>3, BareVolumes DEF SetupDecide, DeleteVolume, Deletable, ChainTypeOK,
       SharedTypeOK, DiskChain
  <2>2. vol' # vol => ~ usefs
    BY <1>3 DEF SetupDecide, RevertWanted, LocalsChain, UseFakefs, EarlyStates
  <2>3. ChainTypeOK'
    BY <1>3, <2>1, <2>2 DEF SetupDecide, ChainTypeOK, SharedTypeOK, EarlyTypeOK,
       JbinitStates, EarlyStates
  <2>4. DiskChain'
    BY <1>3, <2>1, <2>2, DevsAssumption DEF SetupDecide, ChainTypeOK, SharedTypeOK,
       DiskChain, DiskInv, SnapshotMeansComplete, NoVolume, Bare
  <2>5. LocalsChain'
    BY <1>3, <2>1, <2>2 DEF SetupDecide, ChainTypeOK, SharedTypeOK, LocalsChain, Checked,
       Selected, Mounted, EarlyStates, UseFakefs
  <2>6. RootChain'
    BY <1>3, <2>1, <2>2 DEF SetupDecide, ChainTypeOK, SharedTypeOK, RootChain, LocalsChain,
       Checked, Selected, Mounted, JbinitStates, EarlyStates
  <2>7. SetupChain'
    BY <1>3, <2>1, <2>2 DEF SetupDecide, ChainTypeOK, SharedTypeOK, EarlyTypeOK,
       SetupChain, SetupStates, Building, LoaderDone, AfterLoader, SetupTaken, RevertWanted,
       Ready
  <2>8. QED
    BY <2>3, <2>4, <2>5, <2>6, <2>7
<1>4. CASE SetupCreate
  <2>1. ~ usefs /\ "setup_rootful" \in pinfo
    BY <1>4 DEF SetupCreate, SetupChain, SetupStates, Building, LocalsChain, UseFakefs,
       EarlyStates
  <2>2. /\ vol' \in [Devs -> Volumes]
        /\ \A d \in Devs : vol'[d] = vol[d] \/ (vol'[d] = NewVolume /\ d # SysDev)
        /\ pc' = "setup_mount" =>
              vol'[hostdev] = NewVolume /\ SameContainer(hostdev, SysDev)
        /\ pc' \in {"setup_mount", "spin"}
    BY <1>4, BareVolumes DEF SetupCreate, FreeNames, ChainTypeOK, SharedTypeOK, DiskChain
  <2>3. NewVolume.role = "recovery" /\ ~ NewVolume.orig /\ NewVolume.skip = {}
    BY BareVolumes, BareRoles
  <2>4. ChainTypeOK'
    BY <1>4, <2>1, <2>2, <2>3 DEF SetupCreate, ChainTypeOK, SharedTypeOK, EarlyTypeOK,
       JbinitStates, EarlyStates
  <2>5. DiskChain'
    BY <1>4, <2>1, <2>2, <2>3, DevsAssumption DEF SetupCreate, ChainTypeOK, SharedTypeOK,
       DiskChain, DiskInv, SnapshotMeansComplete
  <2>6. LocalsChain'
    BY <1>4, <2>1, <2>2, <2>3 DEF SetupCreate, ChainTypeOK, SharedTypeOK, LocalsChain,
       Checked, Selected, Mounted, EarlyStates, UseFakefs
  <2>7. RootChain'
    BY <1>4, <2>1, <2>2, <2>3 DEF SetupCreate, ChainTypeOK, SharedTypeOK, RootChain,
       LocalsChain, Checked, Selected, Mounted, JbinitStates, EarlyStates
  <2>8. SetupChain'
    BY <1>4, <2>1, <2>2, <2>3 DEF SetupCreate, ChainTypeOK, SharedTypeOK, EarlyTypeOK,
       SetupChain, SetupStates, Building, LoaderDone, AfterLoader, SetupTaken, RevertWanted,
       Ready
  <2>9. QED
    BY <2>4, <2>5, <2>6, <2>7, <2>8
<1>5. CASE SetupMount
  <2>1. ~ usefs /\ "setup_rootful" \in pinfo
    BY <1>5 DEF SetupMount, SetupChain, SetupStates, Building, LocalsChain, UseFakefs,
       EarlyStates
  <2>2. ChainTypeOK'
    BY <1>5, <2>1 DEF SetupMount, ChainTypeOK, SharedTypeOK, EarlyTypeOK, JbinitStates,
       EarlyStates
  <2>3. DiskChain'
    BY <1>5, <2>1, DevsAssumption DEF SetupMount, ChainTypeOK, SharedTypeOK, DiskChain,
       DiskInv, SnapshotMeansComplete
  <2>4. LocalsChain'
    BY <1>5, <2>1 DEF SetupMount, ChainTypeOK, SharedTypeOK, LocalsChain, Checked, Selected,
       Mounted, EarlyStates, UseFakefs
  <2>5. RootChain'
    BY <1>5, <2>1 DEF SetupMount, ChainTypeOK, SharedTypeOK, RootChain, LocalsChain,
       Checked, Selected, Mounted, JbinitStates, EarlyStates
  <2>6. SetupChain'
    BY <1>5, <2>1 DEF SetupMount, ChainTypeOK, SharedTypeOK, EarlyTypeOK, SetupChain,
       SetupStates, Building, LoaderDone, AfterLoader, SetupTaken, RevertWanted, Ready
  <2>7. QED
    BY <2>2, <2>3, <2>4, <2>5, <2>6
<1>6. CASE CopyFirst
  <2>1. ~ usefs /\ "setup_rootful" \in pinfo
    BY <1>6 DEF CopyFirst, CopyFiles, SetupChain, SetupStates, Building, LocalsChain,
       UseFakefs, EarlyStates
  <2>2. /\ vol' \in [Devs -> Volumes]
        /\ \A d \in Devs \ {hostdev} : vol'[d] = vol[d]
        /\ vol'[hostdev].role = "recovery" /\ ~ vol'[hostdev].orig
        /\ vol'[hostdev].skip \in {{}, SkipDirs(SysDev)}
        /\ hostdev # SysDev /\ fake = hostdev
    BY <1>6, CopyKeeps DEF CopyFirst, CopyFiles, ChainTypeOK, SharedTypeOK, DiskChain,
       DiskInv, SetupChain, Building
  <2>3. ChainTypeOK'
    BY <1>6, <2>1, <2>2 DEF CopyFirst, CopyFiles, ChainTypeOK, SharedTypeOK, EarlyTypeOK,
       JbinitStates, EarlyStates
  <2>4. DiskChain'
    BY <1>6, <2>1, <2>2, DevsAssumption DEF CopyFirst, CopyFiles, ChainTypeOK, SharedTypeOK,
       DiskChain, DiskInv, SnapshotMeansComplete
  <2>5. LocalsChain'
    BY <1>6, <2>1, <2>2 DEF CopyFirst, CopyFiles, ChainTypeOK, SharedTypeOK, LocalsChain,
       Checked, Selected, Mounted, EarlyStates, UseFakefs
  <2>6. RootChain'
    BY <1>6, <2>1, <2>2 DEF CopyFirst, CopyFiles, ChainTypeOK, SharedTypeOK, RootChain,
       LocalsChain, Checked, Selected, Mounted, JbinitStates, EarlyStates
  <2>7. SetupChain'
    BY <1>6, <2>1, <2>2 DEF CopyFirst, CopyFiles, ChainTypeOK, SharedTypeOK, EarlyTypeOK,
       SetupChain, SetupStates, Building, LoaderDone, AfterLoader, SetupTaken, RevertWanted,
       Ready
  <2>8. QED
    BY <2>3, <2>4, <2>5, <2>6, <2>7
<1>7. CASE CopyRest
  <2>1. ~ usefs /\ "setup_rootful" \in pinfo
    BY <1>7 DEF CopyRest, CopyFiles, SetupChain, SetupStates, Building, LocalsChain,
       UseFakefs, EarlyStates
  <2>2. /\ vol' \in [Devs -> Volumes]
        /\ \A d \in Devs \ {hostdev} : vol'[d] = vol[d]
        /\ vol'[hostdev].role = "recovery" /\ ~ vol'[hostdev].orig
        /\ vol'[hostdev].skip \in {{}, SkipDirs(SysDev)}
        /\ pc' = "snapshot" => vol'[hostdev].tree = "copied"
        /\ hostdev # SysDev /\ fake = hostdev
    BY <1>7, CopyKeeps DEF CopyRest, CopyFiles, ChainTypeOK, SharedTypeOK, DiskChain,
       DiskInv, SetupChain, Building
  <2>3. ChainTypeOK'
    BY <1>7, <2>1, <2>2 DEF CopyRest, CopyFiles, ChainTypeOK, SharedTypeOK, EarlyTypeOK,
       JbinitStates, EarlyStates
  <2>4. DiskChain'
    BY <1>7, <2>1, <2>2, DevsAssumption DEF CopyRest, CopyFiles, ChainTypeOK, SharedTypeOK,
       DiskChain, DiskInv, SnapshotMeansComplete
  <2>5. LocalsChain'
    BY <1>7, <2>1, <2>2 DEF CopyRest, CopyFiles, ChainTypeOK, SharedTypeOK, LocalsChain,
       Checked, Selected, Mounted, EarlyStates, UseFakefs
  <2>6. RootChain'
    BY <1>7, <2>1, <2>2 DEF CopyRest, CopyFiles, ChainTypeOK, SharedTypeOK, RootChain,
       LocalsChain, Checked, Selected, Mounted, JbinitStates, EarlyStates
  <2>7. SetupChain'
    BY <1>7, <2>1, <2>2 DEF CopyRest, CopyFiles, ChainTypeOK, SharedTypeOK, EarlyTypeOK,
       SetupChain, SetupStates, Building, LoaderDone, AfterLoader, SetupTaken, RevertWanted,
       Ready
  <2>8. QED
    BY <2>3, <2>4, <2>5, <2>6, <2>7
<1>8. CASE TakeSnapshot
  <2>1. ~ usefs /\ "setup_rootful" \in pinfo
    BY <1>8 DEF TakeSnapshot, SetupChain, SetupStates, Building, LocalsChain, UseFakefs,
       EarlyStates
  <2>2. fake = hostdev /\ hostdev \in Devs /\ hostdev # SysDev /\ vol[hostdev] \in Volumes
    BY <1>8 DEF TakeSnapshot, SetupChain, Building, DiskChain, ChainTypeOK, SharedTypeOK
  <2>3. /\ vol' \in [Devs -> Volumes]
        /\ \A d \in Devs : /\ vol'[d].role = vol[d].role /\ vol'[d].tree = vol[d].tree
                           /\ vol'[d].skip = vol[d].skip
                           /\ d # hostdev => vol'[d].orig = vol[d].orig
    BY <1>8, <2>2, OnlyOrig DEF TakeSnapshot, ChainTypeOK, SharedTypeOK
  <2>4. ChainTypeOK'
    BY <1>8, <2>1, <2>2, <2>3 DEF TakeSnapshot, ChainTypeOK, SharedTypeOK, EarlyTypeOK,
       JbinitStates, EarlyStates
  <2>5. DiskChain'
    BY <1>8, <2>1, <2>2, <2>3, DevsAssumption DEF TakeSnapshot, ChainTypeOK, SharedTypeOK,
       DiskChain, DiskInv, SnapshotMeansComplete, SetupChain, Building
  <2>6. LocalsChain'
    BY <1>8, <2>1, <2>2, <2>3 DEF TakeSnapshot, ChainTypeOK, SharedTypeOK, LocalsChain,
       Checked, Selected, Mounted, EarlyStates, UseFakefs
  <2>7. RootChain'
    BY <1>8, <2>1, <2>2, <2>3 DEF TakeSnapshot, ChainTypeOK, SharedTypeOK, RootChain,
       LocalsChain, Checked, Selected, Mounted, JbinitStates, EarlyStates
  <2>8. pc' # "spin" => vol'[hostdev].orig
    BY <1>8, <2>2 DEF TakeSnapshot, Volumes, ChainTypeOK, SharedTypeOK
  <2>9. SetupChain'
    BY <1>8, <2>1, <2>2, <2>3, <2>8 DEF TakeSnapshot, ChainTypeOK, SharedTypeOK, EarlyTypeOK,
       SetupChain, SetupStates, Building, LoaderDone, AfterLoader, SetupTaken, RevertWanted,
       Ready
  <2>10. QED
    BY <2>4, <2>5, <2>6, <2>7, <2>9
<1>9. CASE SetupDone
  <2>1. ChainTypeOK'
    BY <1>9 DEF SetupDone, ChainTypeOK, SharedTypeOK, EarlyTypeOK, JbinitStates, EarlyStates
  <2>2. DiskChain'
    BY <1>9, DevsAssumption DEF SetupDone, ChainTypeOK, SharedTypeOK, DiskChain, DiskInv,
       SnapshotMeansComplete
  <2>3. LocalsChain'
    BY <1>9 DEF SetupDone, ChainTypeOK, SharedTypeOK, LocalsChain, Checked, Selected,
       Mounted, EarlyStates, UseFakefs
  <2>4. RootChain'
    BY <1>9 DEF SetupDone, ChainTypeOK, SharedTypeOK, RootChain, LocalsChain, Checked,
       Selected, Mounted, JbinitStates, EarlyStates
  <2>5. SetupChain'
    BY <1>9 DEF SetupDone, ChainTypeOK, SharedTypeOK, EarlyTypeOK, SetupChain,
       SetupStates, Building, LoaderDone, AfterLoader, SetupTaken, RevertWanted, Ready
  <2>6. QED
    BY <2>1, <2>2, <2>3, <2>4, <2>5
<1>10. CASE Sysstatuscheck
  <2>1. ChainTypeOK'
    BY <1>10 DEF Sysstatuscheck, ChainTypeOK, SharedTypeOK, EarlyTypeOK, JbinitStates,
       EarlyStates
  <2>2. DiskChain'
    BY <1>10, DevsAssumption DEF Sysstatuscheck, ChainTypeOK, SharedTypeOK, DiskChain,
       DiskInv, SnapshotMeansComplete
  <2>3. LocalsChain'
    BY <1>10 DEF Sysstatuscheck, ChainTypeOK, SharedTypeOK, LocalsChain, Checked, Selected,
       Mounted, EarlyStates, UseFakefs
  <2>4. RootChain'
    BY <1>10 DEF Sysstatuscheck, ChainTypeOK, SharedTypeOK, RootChain, LocalsChain, Checked,
       Selected, Mounted, JbinitStates, EarlyStates
  <2>5. SetupChain'
    BY <1>10 DEF Sysstatuscheck, ChainTypeOK, SharedTypeOK, EarlyTypeOK, SetupChain,
       SetupStates, Building, LoaderDone, AfterLoader, SetupTaken, RevertWanted, Ready
  <2>6. QED
    BY <2>1, <2>2, <2>3, <2>4, <2>5
<1>11. QED
  BY <1>1, <1>2, <1>3, <1>4, <1>5, <1>6, <1>7, <1>8, <1>9, <1>10 DEF EarlyRuns, EarlyStep

(* So does everything else that happens to the device. *)
LEMMA ChainKeeps == ChainInv /\ [ChainNext]_chainvars => ChainInv'
<1> SUFFICES ASSUME ChainInv, [ChainNext]_chainvars PROVE ChainInv'
  OBVIOUS
<1> USE DEF ChainInv, Go, host, disk, mounts, jbinit, early
<1>1. CASE HostBoot
  <2>1. /\ info' \subseteq InfoOptions /\ pinfo' \subseteq PinfoOptions
        /\ hostdev' \in Devs /\ wdt' \in BOOLEAN
    BY <1>1, RequestsAssumption DEF HostBoot
  <2>2. ChainTypeOK'
    BY <1>1, <2>1 DEF HostBoot, ChainTypeOK, SharedTypeOK, EarlyTypeOK, JbinitStates,
       EarlyStates
  <2>3. DiskChain'
    BY <1>1, <2>1, DevsAssumption DEF HostBoot, ChainTypeOK, SharedTypeOK, DiskChain,
       DiskInv, SnapshotMeansComplete
  <2>4. LocalsChain'
    BY <1>1, <2>1 DEF HostBoot, ChainTypeOK, SharedTypeOK, LocalsChain, Checked, Selected,
       Mounted, EarlyStates, UseFakefs
  <2>5. RootChain'
    BY <1>1, <2>1 DEF HostBoot, ChainTypeOK, SharedTypeOK, RootChain, LocalsChain, Checked,
       Selected, Mounted, JbinitStates, EarlyStates
  <2>6. SetupChain'
    BY <1>1, <2>1 DEF HostBoot, ChainTypeOK, SharedTypeOK, EarlyTypeOK, SetupChain,
       SetupStates, Building, LoaderDone, AfterLoader, SetupTaken, RevertWanted, Ready
  <2>7. QED
    BY <2>2, <2>3, <2>4, <2>5, <2>6
<1>2. CASE SwitchOff
  <2>1. SysDev \in Devs /\ NoDev \notin Devs
    BY DevsAssumption
  <2>2. ChainTypeOK'
    BY <1>2, <2>1 DEF SwitchOff, ChainTypeOK, SharedTypeOK, EarlyTypeOK, JbinitStates,
       EarlyStates
  <2>3. DiskChain'
    BY <1>2, <2>1, DevsAssumption DEF SwitchOff, ChainTypeOK, SharedTypeOK, DiskChain,
       DiskInv, SnapshotMeansComplete
  <2>4. LocalsChain'
    BY <1>2, <2>1 DEF SwitchOff, ChainTypeOK, SharedTypeOK, LocalsChain, Checked, Selected,
       Mounted, EarlyStates, UseFakefs
  <2>5. RootChain'
    BY <1>2, <2>1 DEF SwitchOff, ChainTypeOK, SharedTypeOK, RootChain, LocalsChain, Checked,
       Selected, Mounted, JbinitStates, EarlyStates
  <2>6. SetupChain'
    BY <1>2, <2>1 DEF SwitchOff, ChainTypeOK, SharedTypeOK, EarlyTypeOK, SetupChain,
       SetupStates, Building, LoaderDone, AfterLoader, SetupTaken, RevertWanted, Ready
  <2>7. QED
    BY <2>2, <2>3, <2>4, <2>5, <2>6
<1>3. CASE Reboot /\ ~ SwitchOff
  <2>1. ChainTypeOK'
    BY <1>3 DEF Reboot, ChainTypeOK, SharedTypeOK, EarlyTypeOK, JbinitStates, EarlyStates
  <2>2. DiskChain'
    BY <1>3, DevsAssumption DEF Reboot, ChainTypeOK, SharedTypeOK, DiskChain, DiskInv,
       SnapshotMeansComplete
  <2>3. LocalsChain'
    BY <1>3 DEF Reboot, ChainTypeOK, SharedTypeOK, LocalsChain, Checked, Selected, Mounted,
       EarlyStates, UseFakefs
  <2>4. RootChain'
    BY <1>3 DEF Reboot, ChainTypeOK, SharedTypeOK, RootChain, LocalsChain, Checked,
       Selected, Mounted, JbinitStates, EarlyStates
  <2>5. SetupChain'
    BY <1>3 DEF Reboot, ChainTypeOK, SharedTypeOK, EarlyTypeOK, SetupChain, SetupStates,
       Building, LoaderDone, AfterLoader, SetupTaken, RevertWanted, Ready
  <2>6. QED
    BY <2>1, <2>2, <2>3, <2>4, <2>5
<1>4. CASE KernelRuns
  <2>1. /\ UNCHANGED <<pc, host, vol, mounts, jbinit, early>>
        /\ UseFakefs' = UseFakefs
    BY <1>4 DEF KernelRuns, NodeAppears, UseFakefs
  <2>2. ChainTypeOK'
    BY <1>4, <2>1 DEF KernelRuns, NodeAppears, ChainTypeOK, SharedTypeOK, EarlyTypeOK,
       JbinitStates, EarlyStates
  <2>3. DiskChain'
    BY <1>4, <2>1, DevsAssumption DEF KernelRuns, NodeAppears, ChainTypeOK, SharedTypeOK,
       DiskChain, DiskInv, SnapshotMeansComplete
  <2>4. LocalsChain'
    BY <1>4, <2>1 DEF KernelRuns, NodeAppears, ChainTypeOK, SharedTypeOK, LocalsChain,
       Checked, Selected, Mounted, EarlyStates, UseFakefs
  <2>5. RootChain'
    BY <1>4, <2>1 DEF KernelRuns, NodeAppears, ChainTypeOK, SharedTypeOK, RootChain,
       LocalsChain, Checked, Selected, Mounted, JbinitStates, EarlyStates
  <2>6. SetupChain'
    BY <1>4, <2>1 DEF KernelRuns, NodeAppears, ChainTypeOK, SharedTypeOK, EarlyTypeOK,
       SetupChain, SetupStates, Building, LoaderDone, AfterLoader, SetupTaken, RevertWanted,
       Ready
  <2>7. QED
    BY <2>2, <2>3, <2>4, <2>5, <2>6
<1>5. CASE UserspaceReboot /\ UNCHANGED jbinit
  <2>1. ChainTypeOK'
    BY <1>5 DEF UserspaceReboot, ChainTypeOK, SharedTypeOK, EarlyTypeOK, JbinitStates,
       EarlyStates
  <2>2. DiskChain'
    BY <1>5, DevsAssumption DEF UserspaceReboot, ChainTypeOK, SharedTypeOK, DiskChain,
       DiskInv, SnapshotMeansComplete
  <2>3. LocalsChain'
    BY <1>5 DEF UserspaceReboot, ChainTypeOK, SharedTypeOK, LocalsChain, Checked, Selected,
       Mounted, EarlyStates, UseFakefs
  <2>4. RootChain'
    BY <1>5 DEF UserspaceReboot, ChainTypeOK, SharedTypeOK, RootChain, LocalsChain, Checked,
       Selected, Mounted, JbinitStates, EarlyStates
  <2>5. SetupChain'
    BY <1>5 DEF UserspaceReboot, ChainTypeOK, SharedTypeOK, EarlyTypeOK, SetupChain,
       SetupStates, Building, LoaderDone, AfterLoader, SetupTaken, RevertWanted, Ready
  <2>6. QED
    BY <2>1, <2>2, <2>3, <2>4, <2>5
<1>6. CASE WriteRoot /\ UNCHANGED jbinit
  <2>1. rootdev \in Devs \cup {NoDev} /\ root.dev = rootdev
    BY <1>6 DEF WriteRoot, RootChain, EarlyStates, ChainTypeOK
  <2>2. /\ vol' \in [Devs -> Volumes]
        /\ \A d \in Devs : /\ vol'[d].role = vol[d].role /\ vol'[d].tree = vol[d].tree
                           /\ vol'[d].skip = vol[d].skip /\ vol'[d].orig = vol[d].orig
    BY <1>6, <2>1, DevsAssumption, OnlyDirty DEF WriteRoot, ChainTypeOK, SharedTypeOK
  <2>3. ChainTypeOK'
    BY <1>6, <2>1, <2>2 DEF WriteRoot, ChainTypeOK, SharedTypeOK, EarlyTypeOK, JbinitStates,
       EarlyStates
  <2>4. DiskChain'
    BY <1>6, <2>1, <2>2, DevsAssumption DEF WriteRoot, ChainTypeOK, SharedTypeOK, DiskChain,
       DiskInv, SnapshotMeansComplete
  <2>5. LocalsChain'
    BY <1>6, <2>1, <2>2 DEF WriteRoot, ChainTypeOK, SharedTypeOK, LocalsChain, Checked,
       Selected, Mounted, EarlyStates, UseFakefs
  <2>6. RootChain'
    BY <1>6, <2>1, <2>2 DEF WriteRoot, ChainTypeOK, SharedTypeOK, RootChain, LocalsChain,
       Checked, Selected, Mounted, JbinitStates, EarlyStates
  <2>7. SetupChain'
    BY <1>6, <2>1, <2>2 DEF WriteRoot, ChainTypeOK, SharedTypeOK, EarlyTypeOK, SetupChain,
       SetupStates, Building, LoaderDone, AfterLoader, SetupTaken, RevertWanted, Ready
  <2>8. QED
    BY <2>3, <2>4, <2>5, <2>6, <2>7
<1>7. CASE UNCHANGED chainvars
  <2>1. ChainTypeOK'
    BY <1>7 DEF chainvars, ChainTypeOK, SharedTypeOK, EarlyTypeOK, JbinitStates, EarlyStates
  <2>2. DiskChain'
    BY <1>7, DevsAssumption DEF chainvars, ChainTypeOK, SharedTypeOK, DiskChain, DiskInv,
       SnapshotMeansComplete
  <2>3. LocalsChain'
    BY <1>7 DEF chainvars, ChainTypeOK, SharedTypeOK, LocalsChain, Checked, Selected,
       Mounted, EarlyStates, UseFakefs
  <2>4. RootChain'
    BY <1>7 DEF chainvars, ChainTypeOK, SharedTypeOK, RootChain, LocalsChain, Checked,
       Selected, Mounted, JbinitStates, EarlyStates
  <2>5. SetupChain'
    BY <1>7 DEF chainvars, ChainTypeOK, SharedTypeOK, EarlyTypeOK, SetupChain,
       SetupStates, Building, LoaderDone, AfterLoader, SetupTaken, RevertWanted, Ready
  <2>6. QED
    BY <2>1, <2>2, <2>3, <2>4, <2>5
<1>8. QED
  BY <1>1, <1>2, <1>3, <1>4, <1>5, <1>6, <1>7, JbinitKeeps, EarlyKeeps
     DEF ChainNext, UserRuns, PowerCycle, PowerLoss

(* The inductive invariant holds over any number of boots. *)
THEOREM ChainInductive == ChainSpec => []ChainInv
BY InitChain, ChainKeeps, PTL DEF ChainSpec

(* Every variable stays typed, whatever the host asks for and wherever power
   is lost. *)
THEOREM ChainTypeCorrect == ChainSpec => []ChainTypeOK
BY ChainInductive, PTL DEF ChainInv

(* The snapshot orig-fs is found only on a finished copy (setup_fakefs takes
   it last, and nothing writes a tree under it). *)
THEOREM SnapshotComplete == ChainSpec => []SnapshotMeansComplete
BY ChainInductive, PTL DEF ChainInv, DiskChain, DiskInv

(* A boot that took on a setup gets past jbloader -f only behind a finished
   fakefs, still on the system volume, whichever flags the constructor reads. *)
THEOREM SetupIsReady == ChainSpec => []SetupLeavesReady
<1>1. ChainInv => SetupLeavesReady
  <2> SUFFICES ASSUME ChainInv, pc \in AfterLoader, SetupTaken
               PROVE  Ready(hostdev) /\ root.dev = SysDev
    BY DEF SetupLeavesReady
  <2>1. Ready(hostdev)
    BY DEF ChainInv, SetupChain, LoaderDone
  <2>2. ~ usefs /\ rootdev = SysDev /\ root.dev = rootdev
    BY DEF ChainInv, LocalsChain, RootChain, UseFakefs, SetupTaken, AfterLoader, EarlyStates
  <2>3. QED
    BY <2>1, <2>2
<1>2. QED
  BY <1>1, ChainInductive, PTL

(* Over any sequence of boots, launchd starts on a partial fakefs with all
   bound that the boot which copied it left out. *)
THEOREM ChainSkippedBound == ChainSpec => []SkippedDirsBound
<1>1. ChainInv => SkippedDirsBound
  BY DEF ChainInv, RootChain, EarlyStates, SkippedDirsBound
<1>2. QED
  BY <1>1, ChainInductive, PTL

(* The steps that write to a volume. *)
LEMMA Writers ==
    ASSUME ChainNext, vol' # vol
    PROVE  \/ CleanRevert \/ RevertFakefs \/ SetupDecide \/ SetupCreate
           \/ CopyFirst \/ CopyRest \/ TakeSnapshot \/ WriteRoot
<1> USE DEF disk
<1>1. CASE JbinitRuns
  BY <1>1 DEF JbinitRuns, JbinitStep, ReadFiles, Rootwait, GetInfo, PinfoCheck, SelectRoot,
     CleanMount, CleanUnmount, Mountroot, RemountRdisk, MountDevfs, MountCores,
       InitLog, InitCores, PrepareRootfs, PatchDyld, Execve
<1>2. CASE EarlyRuns
  BY <1>2 DEF EarlyRuns, EarlyStep, SpawnJbloader, MountOverlay, MountLoader, mount_dmg, SetupChecks, SetupMount, SetupDone,
     Abort, CtorFlags, Sysstatuscheck
<1>3. QED
  BY <1>1, <1>2 DEF ChainNext, HostBoot, Reboot, SwitchOff, KernelRuns, NodeAppears, UserRuns,
     UserspaceReboot, PowerCycle, PowerLoss

(* The volumes that were there before the jailbreak are never deleted,
   replaced or reverted. *)
THEOREM ForeignKept == ChainSpec => ForeignVolumesKept
<1> DEFINE Kept(d) ==
      vol[d].role \in {"system", "data"} =>
          /\ vol'[d].role = vol[d].role
          /\ vol'[d].tree = vol[d].tree
          /\ vol[d].dirty => vol'[d].dirty
<1>1. ChainInv /\ ChainNext => \A d \in Devs : Kept(d)
  <2> SUFFICES ASSUME ChainInv, ChainNext, NEW d \in Devs, vol[d].role \in {"system", "data"},
                      vol'[d] # vol[d]
               PROVE  /\ vol'[d].role = vol[d].role
                      /\ vol'[d].tree = vol[d].tree
                      /\ vol[d].dirty => vol'[d].dirty
    OBVIOUS
  <2>1. vol \in [Devs -> Volumes] /\ vol[d] \in Volumes
    BY DEF ChainInv, ChainTypeOK, SharedTypeOK
  <2>2. CASE CleanRevert
    <3>1. vol[rootdev].orig /\ d = rootdev
      BY <2>1, <2>2 DEF CleanRevert, FoundOrigFs
    <3>2. QED
      BY <3>1 DEF ChainInv, DiskChain, DiskInv, SnapshotMeansComplete
  <2>3. CASE RevertFakefs \/ SetupDecide
    BY <2>1, <2>3 DEF RevertFakefs, SetupDecide, DeleteVolume, Deletable, disk
  <2>4. CASE SetupCreate
    BY <2>1, <2>4 DEF SetupCreate, FreeNames
  <2>5. CASE CopyFirst \/ CopyRest
    BY <2>1, <2>5 DEF CopyFirst, CopyRest, CopyFiles, ChainInv, SetupChain, Building
  <2>6. CASE TakeSnapshot
    BY <2>1, <2>6 DEF TakeSnapshot, ChainInv, SetupChain, Building
  <2>7. CASE WriteRoot
    <3>1. d = root.dev /\ vol'[d] = [vol[d] EXCEPT !.dirty = TRUE]
      BY <2>1, <2>7 DEF WriteRoot
    <3>2. QED
      BY <2>1, <3>1 DEF Volumes
  <2>8. QED
    BY <2>2, <2>3, <2>4, <2>5, <2>6, <2>7, Writers
<1>2. ChainInv /\ [ChainNext]_chainvars => [\A d \in Devs : Kept(d)]_chainvars
  BY <1>1
<1>3. QED
  BY <1>2, ChainInductive, PTL DEF ChainSpec, ForeignVolumesKept
-----------------------------------------------------------------------------
(* A step that changes neither which volumes are fakefs volumes nor which have
   their snapshot, nor the builder, nor the root, is a stuttering step of the
   life cycle. *)
LEMMA Stutters ==
    ASSUME \A d \in Devs : vol'[d].role = vol[d].role /\ vol'[d].orig = vol[d].orig,
           Builder' = Builder, root' = root
    PROVE  UNCHANGED Lifecycle!fvars
<1>1. FakefsState' = FakefsState
  BY DEF FakefsState
<1>2. QED
  BY <1>1 DEF Lifecycle!fvars

(* A step that changes one volume changes its state alone. *)
LEMMA OneVolume ==
    ASSUME NEW e \in Devs, \A d \in Devs \ {e} : vol'[d] = vol[d],
           NEW s, FakefsState'[e] = s
    PROVE  FakefsState' = [FakefsState EXCEPT ![e] = s]
<1>1. \A d \in Devs : FakefsState'[d] = [FakefsState EXCEPT ![e] = s][d]
  BY DEF FakefsState
<1>2. QED
  BY <1>1 DEF FakefsState

(* What jbinit does to the fakefs volumes: it mounts one as the root. *)
LEMMA JbinitRefines == ChainInv /\ JbinitRuns => [Lifecycle!Next]_Lifecycle!fvars
<1> SUFFICES ASSUME ChainInv, JbinitRuns PROVE [Lifecycle!Next]_Lifecycle!fvars
  OBVIOUS
<1> USE DEF Go, host, disk, mounts, JbinitRuns, ChainInv
<1>1. CASE ReadFiles \/ Rootwait \/ GetInfo \/ PinfoCheck \/ SelectRoot \/ CleanMount
           \/ CleanUnmount \/ RemountRdisk \/ MountDevfs \/ MountCores \/ InitLog
           \/ InitCores \/ PrepareRootfs \/ PatchDyld \/ Execve
  <2>1. UNCHANGED <<vol, root>>
    BY <1>1 DEF ReadFiles, Rootwait, GetInfo, PinfoCheck, SelectRoot, CleanMount, CleanUnmount,
       RemountRdisk, MountDevfs, MountCores,
       InitLog, InitCores, PrepareRootfs, PatchDyld, Execve
  <2>2. pc \notin Building /\ pc' \notin Building
    BY <1>1 DEF ReadFiles, Rootwait, GetInfo, PinfoCheck, SelectRoot, CleanMount, CleanUnmount,
       RemountRdisk, MountDevfs, MountCores,
       InitLog, InitCores, PrepareRootfs, PatchDyld, Execve, Building
  <2>3. QED
    BY <2>1, <2>2, Stutters DEF Builder
<1>2. CASE CleanRevert
  <2>1. rootdev \in Devs
    BY <1>2, DevsAssumption DEF CleanRevert, LocalsChain, Selected, ChainTypeOK, SharedTypeOK
  <2>2. \A d \in Devs : vol'[d].role = vol[d].role /\ vol'[d].orig = vol[d].orig
    BY <1>2, <2>1, OnlyDirty DEF CleanRevert, ChainTypeOK, SharedTypeOK
  <2>3. Builder' = Builder /\ root' = root
    BY <1>2 DEF CleanRevert, Builder, Building
  <2>4. QED
    BY <2>2, <2>3, Stutters
<1>3. CASE Mountroot
  <2>1. rootdev \in Devs /\ root.dev \in {NoDev, rootdev} /\ root'.dev = rootdev
    BY <1>3 DEF Mountroot, ChainTypeOK, SharedTypeOK, RootChain
  <2>2. Builder = NoDev /\ Builder' = NoDev
    BY <1>3 DEF Mountroot, Builder, Building
  <2>3. FakefsState' = FakefsState
    BY <1>3 DEF Mountroot, FakefsState
  <2>4. CASE root.dev = NoDev
    BY <2>1, <2>2, <2>3, <2>4 DEF Lifecycle!Next, Lifecycle!Use
  <2>5. CASE root.dev = rootdev
    BY <2>1, <2>2, <2>3, <2>5 DEF Lifecycle!fvars
  <2>6. QED
    BY <2>1, <2>4, <2>5
<1>4. QED
  BY <1>1, <1>2, <1>3 DEF JbinitStep

(* What jbloader -f deletes is not the volume "/" is mounted from: the boot
   that deletes a fakefs was not booted from it. *)
LEMMA NotInUse ==
    ASSUME ChainInv, pc \in EarlyStates, ~ UseFakefs, vol[hostdev].role = "recovery"
    PROVE  root.dev # hostdev
<1>1. root.dev = SysDev
  BY DEF ChainInv, RootChain, LocalsChain
<1>2. QED
  BY <1>1 DEF ChainInv, DiskChain

(* A deletion is the abstract one. *)
LEMMA DeleteRefines ==
    ASSUME ChainInv, pc \in EarlyStates \ Building, pc' \notin Building, ~ UseFakefs,
           DeleteVolume(hostdev), root' = root
    PROVE  Lifecycle!Next
<1>1. hostdev \in Devs /\ vol[hostdev].role = "recovery" /\ vol \in [Devs -> Volumes]
  BY DEF DeleteVolume, Deletable, ChainInv, ChainTypeOK, SharedTypeOK
<1>2. vol' = [vol EXCEPT ![hostdev] = NoVolume]
  BY DEF DeleteVolume
<1>3. FakefsState'[hostdev] = "absent"
  BY <1>1, <1>2, BareRoles DEF FakefsState
<1>4. FakefsState' = [FakefsState EXCEPT ![hostdev] = "absent"]
  BY <1>1, <1>2, <1>3, OneVolume
<1>5. FakefsState[hostdev] # "absent"
  BY <1>1 DEF FakefsState
<1>6. QED
  BY <1>1, <1>4, <1>5, NotInUse DEF Lifecycle!Next, Lifecycle!Delete, Builder

(* What jbloader does to the fakefs volumes. *)
LEMMA EarlyRefines == ChainInv /\ EarlyRuns => [Lifecycle!Next]_Lifecycle!fvars
<1> SUFFICES ASSUME ChainInv, EarlyRuns PROVE [Lifecycle!Next]_Lifecycle!fvars
  OBVIOUS
<1> USE DEF Go, host, disk, early, EarlyRuns
<1>1. CASE SpawnJbloader \/ MountOverlay \/ MountLoader \/ SetupChecks \/ SetupDone \/ Abort \/ CtorFlags
           \/ Sysstatuscheck
  <2>1. UNCHANGED <<vol, root>>
    BY <1>1 DEF SpawnJbloader, MountOverlay, MountLoader, mount_dmg, SetupChecks, SetupDone, Abort, CtorFlags, Sysstatuscheck
  <2>2. pc \notin Building /\ pc' \notin Building
    BY <1>1 DEF SpawnJbloader, MountOverlay, MountLoader, mount_dmg, SetupChecks, SetupDone, Abort, CtorFlags, Sysstatuscheck,
       Building
  <2>3. QED
    BY <2>1, <2>2, Stutters DEF Builder
<1>2. CASE RevertFakefs
  <2>1. pc \in EarlyStates \ Building /\ pc' \notin Building /\ root' = root
    BY <1>2 DEF RevertFakefs, EarlyStates, Building
  <2>2. CASE RevertWanted /\ DeleteVolume(hostdev)
    BY <2>1, <2>2, DeleteRefines DEF RevertWanted, UseFakefs
  <2>3. CASE vol' = vol
    BY <2>1, <2>3, Stutters DEF Builder
  <2>4. QED
    BY <1>2, <2>2, <2>3 DEF RevertFakefs
<1>3. CASE SetupDecide
  <2>1. pc \in EarlyStates \ Building /\ pc' \notin Building /\ root' = root
    BY <1>3 DEF SetupDecide, EarlyStates, Building
  <2>2. CASE "setup_rootful" \in pinfo /\ DeleteVolume(hostdev)
    BY <2>1, <2>2, DeleteRefines DEF UseFakefs
  <2>3. CASE vol' = vol
    BY <2>1, <2>3, Stutters DEF Builder
  <2>4. QED
    BY <1>3, <2>2, <2>3 DEF SetupDecide
<1>4. CASE SetupCreate
  <2>1. Builder = NoDev /\ root' = root /\ vol \in [Devs -> Volumes] /\ hostdev' = hostdev
    BY <1>4 DEF SetupCreate, Builder, Building, ChainInv, ChainTypeOK, SharedTypeOK
  <2>2. CASE pc' = "spin" /\ vol' = vol
    BY <2>1, <2>2, Stutters DEF Builder, Building
  <2>3. ASSUME NEW d \in FreeNames, vol' = [vol EXCEPT ![d] = NewVolume],
               pc' = IF d = hostdev THEN "setup_mount" ELSE "spin"
        PROVE  Lifecycle!Next
    <3>1. d \in Devs /\ vol[d].role = "none"
      BY DEF FreeNames
    <3>2. FakefsState[d] = "absent" /\ FakefsState'[d] = "building"
      BY <2>1, <2>3, <3>1, BareVolumes, BareRoles DEF FakefsState
    <3>3. FakefsState' = [FakefsState EXCEPT ![d] = "building"]
      BY <2>1, <2>3, <3>1, <3>2, OneVolume
    <3>4. Builder' \in {d, NoDev}
      BY <2>1, <2>3 DEF Builder, Building
    <3>5. QED
      BY <2>1, <3>1, <3>2, <3>3, <3>4 DEF Lifecycle!Next, Lifecycle!Create
  <2>4. QED
    BY <1>4, <2>2, <2>3 DEF SetupCreate
<1>5. CASE (SetupMount \/ CopyFirst \/ CopyRest \/ TakeSnapshot) /\ vol' = vol
  <2>1. FakefsState' = FakefsState /\ root' = root
    BY <1>5 DEF SetupMount, CopyFirst, CopyRest, CopyFiles, TakeSnapshot, FakefsState
  <2>2. Builder' = Builder \/ Builder' = NoDev
    BY <1>5 DEF SetupMount, CopyFirst, CopyRest, CopyFiles, TakeSnapshot, Builder, Building
  <2>3. QED
    BY <2>1, <2>2 DEF Lifecycle!Next, Lifecycle!GiveUp, Lifecycle!fvars
<1>6. CASE (CopyFirst \/ CopyRest) /\ vol' # vol
  <2>1. /\ \A d \in Devs \ {hostdev} : vol'[d] = vol[d]
        /\ vol'[hostdev].role = vol[hostdev].role
        /\ vol'[hostdev].orig = vol[hostdev].orig
    BY <1>6, CopyKeeps DEF CopyFirst, CopyRest, CopyFiles, ChainInv, ChainTypeOK, SharedTypeOK,
       DiskChain, DiskInv, SetupChain, Building
  <2>2. Builder' = Builder /\ root' = root
    BY <1>6 DEF CopyFirst, CopyRest, CopyFiles, Builder, Building
  <2>3. QED
    BY <2>1, <2>2, Stutters
<1>7. CASE TakeSnapshot /\ vol' # vol
  <2>1. /\ hostdev \in Devs /\ fake = hostdev /\ vol[hostdev].role = "recovery"
        /\ ~ vol[hostdev].orig /\ vol[hostdev] \in Volumes /\ vol \in [Devs -> Volumes]
    BY <1>7 DEF TakeSnapshot, ChainInv, ChainTypeOK, SharedTypeOK, SetupChain, Building
  <2>2. vol'[hostdev] = [vol[hostdev] EXCEPT !.orig = TRUE]
        /\ \A d \in Devs \ {hostdev} : vol'[d] = vol[d]
    BY <1>7, <2>1 DEF TakeSnapshot
  <2>3. FakefsState[hostdev] = "building" /\ FakefsState'[hostdev] = "ready"
    BY <2>1, <2>2 DEF FakefsState, Volumes
  <2>4. FakefsState' = [FakefsState EXCEPT ![hostdev] = "ready"]
    BY <2>1, <2>2, <2>3, OneVolume
  <2>5. Builder = hostdev /\ Builder' = NoDev /\ root' = root
    BY <1>7 DEF TakeSnapshot, Builder, Building
  <2>6. QED
    BY <2>1, <2>3, <2>4, <2>5 DEF Lifecycle!Next, Lifecycle!Finish
<1>8. QED
  BY <1>1, <1>2, <1>3, <1>4, <1>5, <1>6, <1>7 DEF EarlyStep, SetupMount

(* The boots implement the abstract life cycle: a volume in use is never
   deleted, and only the boot that created a volume finishes it. *)
THEOREM Refines == ChainSpec => LifecycleSpec
<1>1. ChainInit => Lifecycle!Init
  <2> SUFFICES ASSUME ChainInit PROVE Lifecycle!Init
    OBVIOUS
  <2>1. \A d \in Devs : vol[d].role # "recovery"
    BY BareRoles DEF ChainInit
  <2>2. QED
    BY <2>1 DEF ChainInit, InitMounts, Lifecycle!Init, FakefsState, Builder, Building
<1>2. ChainInv /\ [ChainNext]_chainvars => [Lifecycle!Next]_Lifecycle!fvars
  <2> SUFFICES ASSUME ChainInv, [ChainNext]_chainvars
               PROVE  [Lifecycle!Next]_Lifecycle!fvars
    OBVIOUS
  <2> USE DEF Go, host, disk, mounts
  <2>1. CASE SwitchOff
    <3>1. FakefsState' = FakefsState /\ Builder' = NoDev /\ root'.dev = NoDev
      BY <2>1 DEF SwitchOff, FakefsState, Builder, Building
    <3>2. QED
      BY <3>1 DEF Lifecycle!Next, Lifecycle!GiveUp
  <2>2. CASE HostBoot \/ (Reboot /\ ~ SwitchOff) \/ KernelRuns \/ UserspaceReboot
             \/ UNCHANGED chainvars
    <3>1. UNCHANGED <<vol, root>>
      BY <2>2 DEF HostBoot, Reboot, KernelRuns, NodeAppears, UserspaceReboot, chainvars
    <3>2. Builder' = Builder
      BY <2>2 DEF HostBoot, Reboot, KernelRuns, NodeAppears, UserspaceReboot, chainvars, Builder,
         Building
    <3>3. QED
      BY <3>1, <3>2, Stutters
  <2>3. CASE WriteRoot
    <3>1. rootdev \in Devs \cup {NoDev} /\ root.dev = rootdev
      BY <2>3 DEF WriteRoot, ChainInv, RootChain, EarlyStates, ChainTypeOK
    <3>2. \A d \in Devs : vol'[d].role = vol[d].role /\ vol'[d].orig = vol[d].orig
      BY <2>3, <3>1, DevsAssumption, OnlyDirty DEF WriteRoot, ChainInv, ChainTypeOK, SharedTypeOK
    <3>3. Builder' = Builder /\ root' = root
      BY <2>3 DEF WriteRoot, Builder, Building
    <3>4. QED
      BY <3>2, <3>3, Stutters
  <2>4. QED
    BY <2>1, <2>2, <2>3, JbinitRefines, EarlyRefines
       DEF ChainNext, UserRuns, PowerCycle, PowerLoss
<1>3. QED
  BY <1>1, <1>2, ChainInductive, PTL DEF ChainSpec, LifecycleSpec, Lifecycle!Spec
=============================================================================
