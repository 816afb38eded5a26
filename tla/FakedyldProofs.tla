--------------------------- MODULE FakedyldProofs ---------------------------
(***************************************************************************)
(* Proofs about Fakedyld, for any set of volumes on either generation of   *)
(* devices.  IInv is inductive; the properties follow from it.             *)
(***************************************************************************)
EXTENDS Fakedyld, TLAPS

(* A volume that carries no copy has neither snapshot nor anything skipped. *)
LEMMA BareVolume ==
    ASSUME NEW r \in {"none", "system", "recovery", "data"},
           NEW t \in {"none", "noprivate", "private", "copied"}
    PROVE  Bare(r, t) \in Volumes /\ ~ Bare(r, t).orig /\ Bare(r, t).skip = {}
BY DEF Bare, Volumes

(* A fakefs in the container of the system volume skips what its name, hence
   what the system volume's name, calls for; whatever jbinit may find on a
   volume is typed, and carries orig-fs only over a finished copy. *)
GoodVolume(v) ==
    /\ v \in Volumes
    /\ v.orig => v.role = "recovery" /\ v.tree = "copied"
    /\ v.skip \in {{}, SkipDirs(SysDev)}

LEMMA FoundVolumes ==
    ASSUME NEW d \in Devs, NEW v \in FoundOn(d)
    PROVE  GoodVolume(v)
<1>1. {} \subseteq Dirs /\ SkipDirs(d) \subseteq Dirs
  BY DEF SkipDirs, Dirs, CommonSkip
<1>2. (d \in Disk0Devs <=> SysDev \in Disk0Devs) => SkipDirs(d) = SkipDirs(SysDev)
  BY DEF SkipDirs
<1>3. CASE v \in {NoVolume, NewVolume, SystemVolume, ForeignVolume}
  BY <1>3, BareVolume DEF GoodVolume, NoVolume, NewVolume, SystemVolume, ForeignVolume
<1>4. CASE /\ d \in Disk0Devs <=> SysDev \in Disk0Devs
           /\ v \in Copies(d) /\ (v.orig => v.tree = "copied")
  BY <1>1, <1>2, <1>4 DEF GoodVolume, Copies, Volumes
<1>5. QED
  BY <1>3, <1>4 DEF FoundOn, Fakefs

(* The inductive invariant holds when the kernel starts jbinit. *)
LEMMA InitIInv == Init => IInv
<1> SUFFICES ASSUME Init PROVE IInv
  OBVIOUS
<1>1. \A d \in Devs : vol[d] \in FoundOn(d)
  BY DEF Init
<1>2. vol \in [Devs -> Volumes]
  BY <1>1, FoundVolumes DEF GoodVolume, Init
<1>3. TypeOK
  BY <1>2, DevsAssumption DEF Init, InitMounts, InitJbinit, TypeOK, SharedTypeOK, JbinitStates
<1>4. DiskInv
  BY <1>1, FoundVolumes DEF GoodVolume, Init, DiskInv, SnapshotMeansComplete
<1>5. LocalsInv /\ CleanInv /\ RootInv
  BY DEF Init, InitMounts, LocalsInv, CleanInv, RootInv, Mounted, Selected, Checked
<1>6. QED
  BY <1>3, <1>4, <1>5 DEF IInv
(* Every step of jbinit, and every device node the kernel publishes, keeps
   the inductive invariant. *)
LEMMA NextIInv == IInv /\ [Next]_vars => IInv'
<1> SUFFICES ASSUME IInv, [Next]_vars PROVE IInv'
  OBVIOUS
<1> USE DEF IInv, Go, host, disk, mounts, jbinit
<1>1. CASE ReadFiles
  <2>1. TypeOK'
    BY <1>1 DEF ReadFiles, TypeOK, SharedTypeOK, JbinitStates
  <2>2. DiskInv'
    BY <1>1 DEF ReadFiles, DiskInv, SnapshotMeansComplete
  <2>3. LocalsInv'
    BY <1>1 DEF ReadFiles, LocalsInv, TypeOK, Selected, Mounted, Checked, UseFakefs,
       LiveRoot, Conflicting
  <2>4. CleanInv'
    BY <1>1 DEF ReadFiles, CleanInv, LocalsInv, TypeOK, Selected, Mounted, Checked
  <2>5. RootInv'
    BY <1>1 DEF ReadFiles, RootInv, TypeOK, Mounted
  <2>6. QED
    BY <2>1, <2>2, <2>3, <2>4, <2>5
<1>2. CASE Rootwait
  <2>1. IF Ios15 \in nodes THEN SysDev = Ios15 ELSE SysDev = Ios16
    BY <1>2, DevsAssumption DEF Rootwait, RootNames, TypeOK, SharedTypeOK, Ios15,
       Ios16
  <2>2. TypeOK'
    BY <1>2, <2>1, DevsAssumption DEF Rootwait, TypeOK, SharedTypeOK, JbinitStates
  <2>3. DiskInv'
    BY <1>2 DEF Rootwait, DiskInv, SnapshotMeansComplete
  <2>4. LocalsInv'
    BY <1>2, <2>1, DevsAssumption DEF Rootwait, LocalsInv, TypeOK, Selected,
       Mounted, Checked, Ios15, Ios16
  <2>5. CleanInv'
    BY <1>2 DEF Rootwait, CleanInv, LocalsInv, TypeOK, Selected, Mounted, Checked
  <2>6. RootInv'
    BY <1>2 DEF Rootwait, RootInv, TypeOK, Mounted
  <2>7. QED
    BY <2>2, <2>3, <2>4, <2>5, <2>6
<1>3. CASE GetInfo
  <2>1. TypeOK'
    BY <1>3 DEF GetInfo, TypeOK, SharedTypeOK, JbinitStates
  <2>2. DiskInv'
    BY <1>3 DEF GetInfo, DiskInv, SnapshotMeansComplete
  <2>3. LocalsInv'
    BY <1>3 DEF GetInfo, LocalsInv, TypeOK, Selected, Mounted, Checked, UseFakefs,
       LiveRoot, Conflicting
  <2>4. CleanInv'
    BY <1>3 DEF GetInfo, CleanInv, LocalsInv, TypeOK, Selected, Mounted, Checked
  <2>5. RootInv'
    BY <1>3 DEF GetInfo, RootInv, TypeOK, Mounted
  <2>6. QED
    BY <2>1, <2>2, <2>3, <2>4, <2>5
<1>4. CASE PinfoCheck
  <2>1. UseFakefs \in BOOLEAN
    BY DEF UseFakefs
  <2>2. TypeOK'
    BY <1>4, <2>1 DEF PinfoCheck, TypeOK, SharedTypeOK, JbinitStates
  <2>3. DiskInv'
    BY <1>4 DEF PinfoCheck, DiskInv, SnapshotMeansComplete
  <2>4. LocalsInv'
    BY <1>4 DEF PinfoCheck, LocalsInv, TypeOK, Selected, Mounted, Checked,
       UseFakefs, LiveRoot, Conflicting
  <2>5. CleanInv'
    BY <1>4 DEF PinfoCheck, CleanInv, LocalsInv, TypeOK, Selected, Mounted, Checked
  <2>6. RootInv'
    BY <1>4 DEF PinfoCheck, RootInv, TypeOK, Mounted
  <2>7. QED
    BY <2>2, <2>3, <2>4, <2>5, <2>6
<1>5. CASE SelectRoot
  <2>1. LiveRoot \in BOOLEAN
    BY DEF LiveRoot
  <2>2. TypeOK'
    BY <1>5, <2>1 DEF SelectRoot, TypeOK, SharedTypeOK, JbinitStates
  <2>3. DiskInv'
    BY <1>5 DEF SelectRoot, DiskInv, SnapshotMeansComplete
  <2>4. LocalsInv'
    BY <1>5 DEF SelectRoot, LocalsInv, TypeOK, Selected, Mounted, Checked,
       UseFakefs, LiveRoot, Conflicting
  <2>5. CleanInv'
    BY <1>5 DEF SelectRoot, CleanInv, LocalsInv, TypeOK, Selected, Mounted, Checked
  <2>6. RootInv'
    BY <1>5 DEF SelectRoot, RootInv, TypeOK, Mounted
  <2>7. QED
    BY <2>2, <2>3, <2>4, <2>5, <2>6
<1>6. CASE CleanMount
  <2>1. TypeOK'
    BY <1>6 DEF CleanMount, TypeOK, SharedTypeOK, JbinitStates
  <2>2. DiskInv'
    BY <1>6 DEF CleanMount, DiskInv, SnapshotMeansComplete
  <2>3. LocalsInv'
    BY <1>6 DEF CleanMount, LocalsInv, TypeOK, Selected, Mounted, Checked,
       UseFakefs, LiveRoot, Conflicting
  <2>4. CleanInv'
    BY <1>6 DEF CleanMount, CleanInv, LocalsInv, TypeOK, Selected, Mounted, Checked
  <2>5. RootInv'
    BY <1>6 DEF CleanMount, RootInv, TypeOK, Mounted
  <2>6. QED
    BY <2>1, <2>2, <2>3, <2>4, <2>5
<1>7. CASE CleanRevert
  <2>1. rootdev \in Devs
    BY <1>7, DevsAssumption DEF CleanRevert, LocalsInv, Selected, TypeOK,
       SharedTypeOK
  <2>2. /\ vol' \in [Devs -> Volumes]
        /\ \A d \in Devs : /\ vol'[d].role = vol[d].role /\ vol'[d].tree = vol[d].tree
                           /\ vol'[d].skip = vol[d].skip /\ vol'[d].orig = vol[d].orig
        /\ vol'[rootdev].dirty = FALSE \/ pc' = "spin"
    <3>1. CASE UNCHANGED vol /\ pc' = "spin"
      BY <3>1 DEF TypeOK, SharedTypeOK
    <3>2. CASE vol' = [vol EXCEPT ![rootdev].dirty = FALSE]
      <4>1. vol[rootdev] \in Volumes /\ vol \in [Devs -> Volumes]
        BY <2>1 DEF TypeOK, SharedTypeOK
      <4>2. [vol[rootdev] EXCEPT !.dirty = FALSE] \in Volumes
        BY <4>1 DEF Volumes
      <4>3. QED
        BY <2>1, <3>2, <4>1, <4>2 DEF Volumes
    <3>3. QED
      BY <1>7, <3>1, <3>2 DEF CleanRevert
  <2>3. TypeOK'
    BY <1>7, <2>2 DEF CleanRevert, TypeOK, SharedTypeOK, JbinitStates
  <2>4. DiskInv'
    BY <1>7, <2>2 DEF CleanRevert, DiskInv, SnapshotMeansComplete, TypeOK,
       SharedTypeOK
  <2>5. LocalsInv'
    BY <1>7 DEF CleanRevert, LocalsInv, TypeOK, Selected, Mounted, Checked,
       UseFakefs, LiveRoot, Conflicting
  <2>6. CleanInv'
    BY <1>7, <2>1, <2>2 DEF CleanRevert, FoundOrigFs, CleanInv, Selected, Mounted,
       Checked
  <2>7. RootInv'
    BY <1>7 DEF CleanRevert, RootInv, TypeOK, Mounted
  <2>8. QED
    BY <2>3, <2>4, <2>5, <2>6, <2>7
<1>8. CASE CleanUnmount
  <2>1. TypeOK'
    BY <1>8 DEF CleanUnmount, TypeOK, SharedTypeOK, JbinitStates
  <2>2. DiskInv'
    BY <1>8 DEF CleanUnmount, DiskInv, SnapshotMeansComplete
  <2>3. LocalsInv'
    BY <1>8 DEF CleanUnmount, LocalsInv, TypeOK, Selected, Mounted, Checked,
       UseFakefs, LiveRoot, Conflicting
  <2>4. CleanInv'
    BY <1>8 DEF CleanUnmount, CleanInv, LocalsInv, TypeOK, Selected, Mounted,
       Checked
  <2>5. RootInv'
    BY <1>8 DEF CleanUnmount, RootInv, TypeOK, Mounted
  <2>6. QED
    BY <2>1, <2>2, <2>3, <2>4, <2>5
<1>9. CASE Mountroot
  <2>1. TypeOK'
    BY <1>9 DEF Mountroot, TypeOK, SharedTypeOK, JbinitStates
  <2>2. DiskInv'
    BY <1>9 DEF Mountroot, DiskInv, SnapshotMeansComplete
  <2>3. LocalsInv'
    BY <1>9 DEF Mountroot, LocalsInv, TypeOK, Selected, Mounted, Checked, UseFakefs,
       LiveRoot, Conflicting
  <2>4. CleanInv'
    BY <1>9 DEF Mountroot, CleanInv, LocalsInv, TypeOK, Selected, Mounted, Checked
  <2>5. RootInv'
    BY <1>9 DEF Mountroot, RootInv, TypeOK, Mounted
  <2>6. QED
    BY <2>1, <2>2, <2>3, <2>4, <2>5
<1>10. CASE MountDevfs \/ MountCores \/ InitLog \/ InitCores
  <2>1. /\ pc \in {"mount_devfs", "mount_cores", "init_log", "init_cores"}
        /\ pc' \in {"mount_cores", "init_log", "init_cores", "prepare_rootfs", "spin"}
        /\ UNCHANGED <<host, disk, mounts, jbinit>>
    BY <1>10 DEF MountDevfs, MountCores, InitLog, InitCores
  <2>2. TypeOK'
    BY <2>1 DEF TypeOK, SharedTypeOK, JbinitStates
  <2>3. DiskInv'
    BY <2>1 DEF DiskInv, SnapshotMeansComplete
  <2>4. LocalsInv'
    BY <2>1 DEF LocalsInv, TypeOK, Selected, Mounted, Checked, UseFakefs, LiveRoot,
       Conflicting
  <2>5. CleanInv'
    BY <2>1 DEF CleanInv, LocalsInv, TypeOK, Selected, Mounted, Checked
  <2>6. RootInv'
    BY <2>1 DEF RootInv, TypeOK, Mounted
  <2>7. QED
    BY <2>2, <2>3, <2>4, <2>5, <2>6
<1>11. CASE PrepareRootfs
  <2>1. Binds \subseteq Dirs
    BY DEF Binds, CommonBinds, Dirs, CommonSkip
  <2>2. rootdev \in Devs
    BY <1>11, DevsAssumption DEF PrepareRootfs, LocalsInv, Selected, Mounted, TypeOK, SharedTypeOK
  <2>3. ASSUME pc' = "patch_dyld", usefs, "bind_mount" \in info, vol[rootdev].tree = "copied"
        PROVE  vol[rootdev].skip \subseteq bound'
    <3>1. SkipDirs(SysDev) \subseteq Binds
      BY <1>11, DevsAssumption
         DEF PrepareRootfs, LocalsInv, Checked, Selected, Mounted, SkipDirs, CommonSkip, Binds, CommonBinds
    <3>2. vol[rootdev].skip \in {{}, SkipDirs(SysDev)}
      BY <2>2 DEF DiskInv
    <3>3. CASE "Frameworks" \in vol[rootdev].skip
      BY <1>11, <2>3, <3>1, <3>2, <3>3 DEF PrepareRootfs, IOKitPresence
    <3>4. CASE "Frameworks" \notin vol[rootdev].skip
      BY <3>2, <3>4 DEF SkipDirs, CommonSkip
    <3>5. QED
      BY <3>3, <3>4
  <2>4. TypeOK'
    BY <1>11, <2>1 DEF PrepareRootfs, TypeOK, SharedTypeOK, JbinitStates
  <2>5. DiskInv'
    BY <1>11 DEF PrepareRootfs, DiskInv, SnapshotMeansComplete
  <2>6. LocalsInv'
    BY <1>11 DEF PrepareRootfs, LocalsInv, TypeOK, Selected, Mounted, Checked, UseFakefs,
       LiveRoot, Conflicting
  <2>7. CleanInv'
    BY <1>11 DEF PrepareRootfs, CleanInv, LocalsInv, TypeOK, Selected, Mounted, Checked
  <2>8. RootInv'
    BY <1>11, <2>3 DEF PrepareRootfs, RootInv, TypeOK, Mounted
  <2>9. QED
    BY <2>4, <2>5, <2>6, <2>7, <2>8
<1>12. CASE PatchDyld
  <2>1. TypeOK'
    BY <1>12 DEF PatchDyld, TypeOK, SharedTypeOK, JbinitStates
  <2>2. DiskInv'
    BY <1>12 DEF PatchDyld, DiskInv, SnapshotMeansComplete
  <2>3. LocalsInv'
    BY <1>12 DEF PatchDyld, LocalsInv, TypeOK, Selected, Mounted, Checked,
       UseFakefs, LiveRoot, Conflicting
  <2>4. CleanInv'
    BY <1>12 DEF PatchDyld, CleanInv, LocalsInv, TypeOK, Selected, Mounted, Checked
  <2>5. RootInv'
    BY <1>12 DEF PatchDyld, RootInv, TypeOK, Mounted
  <2>6. QED
    BY <2>1, <2>2, <2>3, <2>4, <2>5
<1>13. CASE Execve
  <2>1. TypeOK'
    BY <1>13 DEF Execve, TypeOK, SharedTypeOK, JbinitStates
  <2>2. DiskInv'
    BY <1>13 DEF Execve, DiskInv, SnapshotMeansComplete
  <2>3. LocalsInv'
    BY <1>13 DEF Execve, LocalsInv, TypeOK, Selected, Mounted, Checked, UseFakefs,
       LiveRoot, Conflicting
  <2>4. CleanInv'
    BY <1>13 DEF Execve, CleanInv, LocalsInv, TypeOK, Selected, Mounted, Checked
  <2>5. RootInv'
    BY <1>13 DEF Execve, RootInv, TypeOK, Mounted
  <2>6. QED
    BY <2>1, <2>2, <2>3, <2>4, <2>5
<1>14. CASE KernelStep
  <2> SUFFICES ASSUME NEW d \in Devs, NodeAppears(d), UNCHANGED jbinit
               PROVE  IInv'
    BY <1>14 DEF KernelStep
  <2>1. TypeOK'
    BY DEF NodeAppears, TypeOK, SharedTypeOK
  <2>2. DiskInv'
    BY DEF NodeAppears, DiskInv, SnapshotMeansComplete
  <2>3. LocalsInv'
    BY DEF NodeAppears, LocalsInv, UseFakefs, LiveRoot, Conflicting
  <2>4. CleanInv'
    BY DEF NodeAppears, CleanInv
  <2>5. RootInv'
    BY DEF NodeAppears, RootInv
  <2>6. QED
    BY <2>1, <2>2, <2>3, <2>4, <2>5
<1>15. CASE UNCHANGED vars
  <2> USE <1>15 DEF vars
  <2>1. TypeOK'
    BY DEF TypeOK, SharedTypeOK
  <2>2. DiskInv'
    BY DEF DiskInv, SnapshotMeansComplete
  <2>3. LocalsInv'
    BY DEF LocalsInv, UseFakefs, LiveRoot, Conflicting
  <2>4. CleanInv' /\ RootInv'
    BY DEF CleanInv, RootInv
  <2>5. QED
    BY <2>1, <2>2, <2>3, <2>4
<1>16. CASE RemountRdisk
  <2>1. TypeOK'
    BY <1>16 DEF RemountRdisk, TypeOK, SharedTypeOK, JbinitStates
  <2>2. DiskInv'
    BY <1>16 DEF RemountRdisk, DiskInv, SnapshotMeansComplete
  <2>3. LocalsInv'
    BY <1>16 DEF RemountRdisk, LocalsInv, TypeOK, Selected, Mounted, Checked,
       UseFakefs, LiveRoot, Conflicting
  <2>4. CleanInv'
    BY <1>16 DEF RemountRdisk, CleanInv, LocalsInv, TypeOK, Selected, Mounted, Checked
  <2>5. RootInv'
    BY <1>16 DEF RemountRdisk, RootInv, TypeOK, Mounted
  <2>6. QED
    BY <2>1, <2>2, <2>3, <2>4, <2>5
<1>17. QED
  BY <1>1, <1>2, <1>3, <1>4, <1>5, <1>6, <1>7, <1>8, <1>9, <1>10, <1>11, <1>12, <1>13, <1>14,
     <1>15, <1>16 DEF Next, JbinitStep

(* The inductive invariant holds throughout a boot. *)
THEOREM Inductive == Spec => []IInv
       BY InitIInv, NextIInv, PTL DEF Spec

(* The state of jbinit stays typed, whatever the host asks for. *)
THEOREM TypeCorrect == Spec => []TypeOK
<1>1. IInv => TypeOK
  BY DEF IInv
<1>2. QED
  BY <1>1, Inductive, PTL

(* A boot that will delete or create a fakefs hands launchd the system volume
   as "/": select_root and pinfo_check agree on use_fakefs. *)
THEOREM RescueRoot == Spec => []RescueRootIsSystem
<1>1. IInv => RescueRootIsSystem
  <2> SUFFICES ASSUME IInv, pc = "launchd",
                      "force_revert" \in info \/ "setup_rootful" \in pinfo
               PROVE  /\ root.dev = SysDev
                      /\ "setup_rootful" \in pinfo => ~ root.live
    BY DEF RescueRootIsSystem
  <2>1. ~ UseFakefs
    BY DEF UseFakefs
  <2>2. root = [dev |-> SysDev, live |-> LiveRoot] /\ ~ usefs
    BY <2>1 DEF IInv, LocalsInv, RootInv, Checked, Selected, Mounted
  <2>3. "setup_rootful" \in pinfo => ~ LiveRoot
    BY DEF IInv, LocalsInv, Checked, Selected, Mounted, Conflicting, LiveRoot
  <2>4. QED
    BY <2>2, <2>3
<1>2. QED
  BY <1>1, Inductive, PTL

(* A boot asked to clean the fakefs gets to execve launchd only on the named fakefs,
   reverted to the snapshot of a finished copy. *)
THEOREM CleanBoot == Spec => []CleanBootIsPristine
<1>1. IInv => CleanBootIsPristine
  <2> SUFFICES ASSUME IInv, pc = "execve", "clean_fakefs" \in pinfo
               PROVE  /\ root = [dev |-> hostdev, live |-> TRUE]
                      /\ vol[hostdev].orig /\ vol[hostdev].tree = "copied"
                      /\ ~ vol[hostdev].dirty
                      /\ mnt = NoDev
    BY DEF CleanBootIsPristine
  <2>1. ~ Conflicting /\ usefs = UseFakefs
    BY DEF IInv, LocalsInv, Checked, Selected, Mounted
  <2>2. UseFakefs /\ "setup_rootful" \notin pinfo
    BY <2>1 DEF Conflicting, UseFakefs
  <2>3. rootdev = hostdev /\ root = [dev |-> hostdev, live |-> TRUE]
    BY <2>1, <2>2 DEF IInv, LocalsInv, RootInv, LiveRoot, Selected, Mounted
  <2>4. vol[hostdev].orig /\ ~ vol[hostdev].dirty /\ mnt = NoDev
    BY <2>3 DEF IInv, CleanInv, Mounted
  <2>5. hostdev \in Devs
    BY DEF IInv, TypeOK, SharedTypeOK
  <2>6. QED
    BY <2>3, <2>4, <2>5 DEF IInv, DiskInv, SnapshotMeansComplete
<1>2. QED
  BY <1>1, Inductive, PTL

(* launchd never starts on a partial fakefs with a skipped directory unbound:
   the list of fakefs.c is covered by the list of prepare_rootfs.c. *)
THEOREM SkippedAreBound == Spec => []SkippedDirsBound
<1>1. IInv => SkippedDirsBound
  BY DEF IInv, RootInv, SkippedDirsBound
<1>2. QED
  BY <1>1, Inductive, PTL

(* jbinit writes to no volume but the fakefs the host named, and only in a
   boot that is going to run from it. *)
THEOREM WritesFakefsOnly == Spec => WritesOnlyNamedFakefs
<1> DEFINE Writes(d) ==
      vol'[d] # vol[d] =>
          /\ d = hostdev /\ vol[d].role = "recovery"
          /\ {"rootful", "clean_fakefs"} \subseteq pinfo
          /\ "force_revert" \notin info /\ "setup_rootful" \notin pinfo
<1>1. IInv /\ [Next]_vars => [\A d \in Devs : Writes(d)]_vars
  <2> SUFFICES ASSUME IInv, Next, NEW d \in Devs, vol'[d] # vol[d]
               PROVE  Writes(d)
    BY DEF vars
  <2>1. CleanRevert
    BY DEF Next, JbinitStep, KernelStep, NodeAppears, ReadFiles, Rootwait, GetInfo, PinfoCheck,
       SelectRoot, CleanMount, CleanUnmount, Mountroot, RemountRdisk, MountDevfs, MountCores, InitLog,
       InitCores, PrepareRootfs, PatchDyld, Execve, disk
  <2>2. FoundOrigFs /\ d = rootdev /\ pc = "clean_list"
    BY <2>1 DEF CleanRevert, IInv, TypeOK, SharedTypeOK
  <2>3. "clean_fakefs" \in pinfo /\ ~ Conflicting /\ usefs = UseFakefs
        /\ rootdev = IF usefs THEN hostdev ELSE SysDev
    BY <2>2 DEF IInv, CleanInv, LocalsInv, Checked, Selected
  <2>4. UseFakefs
    BY <2>3 DEF Conflicting, UseFakefs
  <2>5. QED
    BY <2>2, <2>3, <2>4 DEF UseFakefs, FoundOrigFs, IInv, DiskInv, SnapshotMeansComplete
<1>2. QED
  BY <1>1, Inductive, PTL DEF Spec, WritesOnlyNamedFakefs
=============================================================================
