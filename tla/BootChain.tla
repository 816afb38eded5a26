----------------------------- MODULE BootChain ------------------------------
(***************************************************************************)
(* The life of a device over any number of boots: the host starts the      *)
(* kernel with the options it likes, jbinit (Fakedyld) runs up to launchd, *)
(* the payload and jbloader (EarlyBoot) up to userland, and power may go   *)
(* at any point.  Only the volumes survive a boot.                         *)
(***************************************************************************)
EXTENDS Fakedyld, EarlyBoot

CONSTANT Requests   \* what the host may ask: [info, pinfo, hostdev, wdt]

ASSUME RequestsAssumption ==
    Requests \subseteq [info : SUBSET InfoOptions, pinfo : SUBSET PinfoOptions,
                        hostdev : Devs, wdt : BOOLEAN]

chainvars == <<pc, host, disk, mounts, jbinit, early>>

(* A device that was never jailbroken, switched off. *)
ChainInit ==
    /\ pc = "off"
    /\ info = {} /\ pinfo = {} /\ hostdev = SysDev /\ wdt = FALSE
    /\ nodes = {}
    /\ vol = [d \in Devs |-> IF d = SysDev THEN SystemVolume
                             ELSE IF d \in ForeignDevs THEN ForeignVolume ELSE NoVolume]
    /\ InitMounts /\ InitJbinit /\ InitEarly
-----------------------------------------------------------------------------
(* The host boots the kernel with a ramdisk that holds the request. *)
HostBoot ==
    /\ Go("off", "read_file")
    /\ \E r \in Requests :
         /\ info' = r.info /\ pinfo' = r.pinfo
         /\ hostdev' = r.hostdev /\ wdt' = r.wdt
    /\ UNCHANGED <<disk, mounts, jbinit, early>>

(* Everything but the volumes is gone. *)
SwitchOff ==
    /\ pc' = "off"
    /\ info' = {} /\ pinfo' = {} /\ hostdev' = SysDev /\ wdt' = FALSE
    /\ nodes' = {}
    /\ mnt' = NoDev /\ root' = [dev |-> NoDev, live |-> FALSE] /\ bound' = {}
    /\ usefs' = FALSE /\ rootdev' = NoDev /\ live' = FALSE /\ darwin22' = FALSE
    /\ fake' = NoDev /\ ubooted' = FALSE /\ rw' = FALSE
    /\ UNCHANGED vol

(* The constructor reboots the device after a setup (host_reboot), unless an
   unmount or the reboot itself fails. *)
Reboot ==
    /\ pc = "reboot"
    /\ \/ SwitchOff
       \/ pc' = "spin" /\ UNCHANGED <<host, disk, mounts, jbinit, early>>

(* The user gives up on a boot that spins, or on one that retries for ever. *)
PowerCycle == (pc = "spin" \/ UnusableRoot) /\ SwitchOff

(* Power is lost, or the user switches the device off. *)
PowerLoss == pc \notin {"off", "spin"} /\ SwitchOff
-----------------------------------------------------------------------------
JbinitRuns == JbinitStep /\ UNCHANGED early
EarlyRuns == EarlyStep /\ UNCHANGED jbinit
KernelRuns == \E d \in Devs : NodeAppears(d) /\ UNCHANGED <<jbinit, early>>
UserRuns == (WriteRoot \/ UserspaceReboot) /\ UNCHANGED jbinit

ChainNext ==
    \/ HostBoot \/ JbinitRuns \/ EarlyRuns \/ Reboot \/ KernelRuns
    \/ UserRuns \/ PowerCycle \/ PowerLoss

ChainSpec == ChainInit /\ [][ChainNext]_chainvars
-----------------------------------------------------------------------------
ChainTypeOK ==
    /\ SharedTypeOK /\ EarlyTypeOK
    /\ pc \in JbinitStates \cup EarlyStates \cup {"off", "spin"}
    /\ usefs \in BOOLEAN /\ live \in BOOLEAN /\ darwin22 \in BOOLEAN
    /\ rootdev \in Devs \cup {NoDev}

(* Whatever the host names as the fakefs, and in any sequence of boots and
   power losses, the volumes that were there before the jailbreak are never
   deleted, replaced or reverted: only volumes of the role setup_fakefs
   creates are (delete_fs.c checks the role, clean_fakefs.c the snapshot). *)
ForeignVolumesKept ==
    [][\A d \in Devs : vol[d].role \in {"system", "data"} =>
          /\ vol'[d].role = vol[d].role
          /\ vol'[d].tree = vol[d].tree
          /\ vol[d].dirty => vol'[d].dirty]_chainvars

(* A finished fakefs, with the snapshot to clean it by. *)
Ready(d) == vol[d].orig /\ vol[d].tree = "copied" /\ vol[d].role = "recovery"

(* jbloader -f is done: the constructor reboots the device, or goes on. *)
AfterLoader == {"ctor_flags", "reboot", "sysstatuscheck", "running"}

(* A setup that jbloader takes on: force_revert with a name ending in 1 makes
   it return before the setup (fakefs.c 269). *)
SetupTaken ==
    "setup_rootful" \in pinfo /\ ~ (RevertWanted /\ hostdev \in EndsInOne)

(* A boot that sets up a fakefs gets past jbloader -f only with the fakefs
   finished: not when it reboots by itself, and not when the flags it should
   reboot by are misread (payload.c 316) and userland starts, by which time it
   runs from the system volume still. *)
SetupLeavesReady ==
    pc \in AfterLoader /\ SetupTaken => Ready(hostdev) /\ root.dev = SysDev

(* The abstract life of a fakefs, as the volumes show it. *)
FakefsState ==
    [d \in Devs |-> IF vol[d].role # "recovery" THEN "absent"
                    ELSE IF vol[d].orig THEN "ready" ELSE "building"]

Building == {"setup_mount", "copyfile", "copyfile_rest", "snapshot"}
Builder == IF pc \in Building THEN hostdev ELSE NoDev

Lifecycle == INSTANCE FakefsLifecycle WITH
    state <- FakefsState, builder <- Builder, inuse <- root.dev

LifecycleSpec == Lifecycle!Spec
-----------------------------------------------------------------------------
(* Liveness.  What any number of power losses leaves on the disk is where
   LiveSpec starts, and from there power stays on.  A program that can run
   does, the host and the user do not walk away, and from some point on the
   system refuses nothing it could grant. *)
LiveInit ==
    /\ \E r \in Requests :
         info = r.info /\ pinfo = r.pinfo /\ hostdev = r.hostdev /\ wdt = r.wdt
    /\ Init
    /\ InitEarly

LiveNext ==
    \/ HostBoot \/ JbinitRuns \/ EarlyRuns \/ Reboot \/ KernelRuns \/ PowerCycle

Runs == JbinitRuns \/ EarlyRuns \/ Reboot

(* A program spins by its own checks only; APFS gives the name the host
   expects and deletes what it is told to; the kernel publishes volumes before
   the program looks for them. *)
NothingRefused ==
    Runs =>
      /\ pc' = "spin" => pc \in {"pinfo_check", "abort"} \/ (pc = "clean_list" /\ ~ FoundOrigFs)
      /\ pc = "ctor_flags" => (pc' = "reboot" <=> "setup_rootful" \in pinfo)
      /\ pc = "setup_create" => vol'[hostdev] # vol[hostdev]
      /\ pc = "create_remove_fakefs" /\ RevertWanted => vol'[hostdev].role # "recovery"
      /\ pc \in {"create_remove_fakefs", "setup_mount"} =>
            \A d \in Devs : vol[d].role # "none" => d \in nodes

LiveSpec ==
    /\ LiveInit /\ [][LiveNext]_chainvars
    /\ WF_chainvars(HostBoot) /\ WF_chainvars(PowerCycle)
    /\ WF_chainvars(Runs) /\ WF_chainvars(KernelRuns)
    /\ <>[][NothingRefused]_chainvars

(* A boot that sets up the fakefs d again over whatever is there. *)
Repairs(d) ==
    /\ {"rootful", "setup_rootful"} \subseteq pinfo /\ "clean_fakefs" \notin pinfo
    /\ "force_revert" \in info
    /\ hostdev = d
FakefsNames ==
    {d \in Devs \ (ForeignDevs \cup EndsInOne \cup {SysDev}) : SameContainer(d, SysDev)}

(* Whatever interrupted setups and boots of any kind have left behind, a host
   that from then on only repeats a setup with force_revert gets a fakefs that
   is finished and has its snapshot, each time anew. *)
Recovers ==
    \A d \in FakefsNames : <>[](pc # "off" => Repairs(d)) => []<>Ready(d)
-----------------------------------------------------------------------------
(* create_remove_fakefs 284: "should be unreachable because jbinit checked
   it". *)
AssertUnreachable == pc # "abort"
-----------------------------------------------------------------------------
(* The inductive invariant.  The root of a booted system is the volume
   jbinit chose; a fakefs under construction is the one the host named, in the
   container of the system volume, and only a setup boot constructs one. *)
SetupStates == Building \cup {"setup_fakefs", "setup_create", "setup_done", "abort"}

DiskChain == DiskInv /\ vol[SysDev].role = "system"

LocalsChain ==
    /\ pc \in {"get_info", "pinfo_check", "select_root"} => rootdev = SysDev
    /\ pc \in {"get_info", "pinfo_check"} \cup Checked \cup EarlyStates =>
          darwin22 = (SysDev # Ios15)
    /\ pc \in Checked \cup EarlyStates => usefs = UseFakefs
    /\ pc \in Selected \cup EarlyStates => rootdev = IF usefs THEN hostdev ELSE SysDev

RootChain ==
    /\ root.dev \in {NoDev, rootdev}
    /\ pc \in (JbinitStates \ (Mounted \cup {"mountroot"})) \cup {"off"} => root.dev = NoDev
    /\ pc \in Mounted \cup EarlyStates => root.dev = rootdev
    /\ pc \in {"patch_dyld", "execve"} \cup EarlyStates /\ usefs /\ "bind_mount" \in info
         /\ vol[root.dev].tree = "copied" => vol[root.dev].skip \subseteq bound

LoaderDone ==
    pc \in AfterLoader \cup {"setup_done"} \/ (pc = "launchd" /\ ubooted)

SetupChain ==
    /\ pc \in SetupStates => "setup_rootful" \in pinfo
    /\ ubooted => pc \in AfterLoader \cup {"launchd", "spin"}
    /\ LoaderDone /\ SetupTaken => Ready(hostdev)
    /\ pc \in Building \ {"setup_mount"} => fake = hostdev
    /\ pc \in Building =>
          /\ vol[hostdev].role = "recovery" /\ ~ vol[hostdev].orig
          /\ SameContainer(hostdev, SysDev)
    /\ pc = "snapshot" => vol[hostdev].tree = "copied"

ChainInv == ChainTypeOK /\ DiskChain /\ LocalsChain /\ RootChain /\ SetupChain
=============================================================================
