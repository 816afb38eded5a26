# Verification of the palera1n boot code

TLA+ models, TLC configurations and TLAPS proofs for the programs in
`src/` that boot a jailbroken device: `jbinit` (started by the kernel in place
of dyld), `payload.dylib` (inserted into launchd), `rootlesshooks.dylib` (in
cfprefsd), and `jbloader` (run several times during the boot, and as `helper`
and `p1ctl` afterwards). All paths below are relative to `src/src/`.

## 1. The system

### 1.1 How a boot goes

    host tool --(kerninfo, paleinfo, ramdisk)--> kernel --> jbinit --> launchd + payload.dylib
                                                                         |  spawns, waits
                                                                         v
                                                            jbloader -f  (fakefs)
                                                            jbloader -s  (sysstatuscheck)
                                                            jbloader -j  (bakera1nd)
                                                            helper, p1ctl (at run time)

The host writes two blocks of options behind the ramdisk image
(`include/kerninfo.h`). Every later program reads them again for itself: they
are the only thing the stages share besides the file system. There is no other
message, lock or persistent record. What survives a boot is the APFS volumes.

In *rootful* mode "/" is a copy of the system volume, the **fakefs**, which is
an APFS volume of its own. It is created by a boot with `setup_rootful` (which
then reboots), used by later boots, reverted to its snapshot `orig-fs` by a
boot with `clean_fakefs`, and deleted by a boot with `force_revert`. A
*partial* fakefs leaves out large directories which every later boot binds from
the system volume. In *rootless* mode "/" is the system volume and the
jailbreak lives under `/private/preboot/<hash>`, linked to by `/var/jb`.

### 1.2 Components

| # | component | state it keeps | operations | modules |
|---|---|---|---|---|
| 1 | jbinit (`jbinit/*.c`) | locals of `main`: root device, use_fakefs, rootlivefs; mounts | one function after another: rootwait, get_info, pinfo_check, select_root, clean_fakefs, mountroot, mount_cores, prepare_rootfs, get_and_patch_dyld, execve | `Palerain`, `Fakedyld` |
| 2 | payload.dylib, constructor (`systemhooks/payload.c`) | pflags | spawn and wait for jbloader -f, reboot after a setup | `EarlyBoot`, `Userspace` |
| 3 | payload.dylib, hooks (same file) | do_pspawn_hook, cached dictionaries | what launchd reads as its jobs and starts as its services | `Userspace`, `SpawnHooks` |
| 4 | jbloader -f (`jbloader/loader/launchd.c`, `fakefs.c`, `delete_fs.c`, `mount_dmg.c`) | APFS volumes | create, fill, snapshot, delete the fakefs | `EarlyBoot`, `BootChain` |
| 5 | jbloader -s (`sysstatuscheck.c`, `remount.c`, `move_rootless.c`) | mount of "/", `/var/jb` | remount writable, keep `/var/jb` up to date, run `rc.d` | `EarlyBoot`, `RootlessJb`, `Userspace` |
| 6 | jbloader -j (`bakera1nd.c`, `prep_launch.c`, `enable_ssh.c`, `uicache.c`, ...) | two threads, their children, a run loop | start daemons and ssh, wait for SpringBoard, obliterate a jailbreak | `Userspace`, `RootlessJb` (obliterator) |
| 7 | helper, p1ctl (`jbloader/helper`, `jbloader/p1ctl`) | option words in the ramdisk | read-modify-write of options, userspace reboot | `OptionWords`, `Userspace` |
| 8 | bootstrap installation (`install_strap.c`, `files.c`, `post_install.c`, `install_deb.c`) | the bootstrap tree | unpack, rename, link, configure, mark | `Bootstrap`, `RootlessJb` |
| 9 | dyld patcher (`jbinit/patch_dyld_bridge.c`, `jbinit/patch_dyld`) | the buffer with dyld | find patterns, place code, redirect branches | `DyldPatch` |
| 10 | freestanding libc (`jbinit/lib`, `utils.c`, `log.c`) | the line buffer of the log | string, memory, number and print functions | `Libc` |
| 11 | cfprefsd hook (`systemhooks/cfprefsd.c`) | none | redirect preference paths | `SpawnHooks` |

Not modelled: see section 7.

### 1.3 What is hard here

* **Crashes.** A copy of up to ten minutes, without a journal: power may go at
  any step, and the next boot decides from what it finds.
* **One decision, several programs.** Which volume is "/" is worked out by
  jbinit, by jbloader -f and by jbloader -s, each from the option words; what a
  partial fakefs leaves out is listed in `fakefs.c` and what is bound instead in
  `prepare_rootfs.c`.
* **Options.** Eight option bits with an order of precedence spread over three
  functions.
* **Late device nodes.** jbinit polls and looks once; `fakefs.c` sleeps 2 s.
* **Errors.** Some end in `spin()`, some are retried for ever, some are logged
  and forgotten.
* **Shared words without a lock.** helper and p1ctl read the option block when
  they start and write all of it back; jbloader -s and -j read it in between.
* **Two threads with one waitpid.** A failed spawn makes `run()` wait for
  whatever child ends next.
* **Streams.** untar returns nothing; whatever fails, it must read the next
  header from the right block.

`PROJECT.json` lists the hazards one by one, each with the properties that
cover it or the reason why none does.

### 1.4 What makes each component correct

1. jbinit: the volume given to launchd as "/" is the one the options call for;
   nothing is reverted but the fakefs of a clean boot; every boot ends.
2. Constructor and jbloader -f: volumes that were there before are never
   touched; a fakefs with the snapshot is a whole copy; the volume in use is
   never deleted; a setup is over only with a finished fakefs, and an interrupted one
   can be repeated.
3. jbloader -s and -j: "/" remounted is "/" mounted; the bootstrap is never
   lost, `/var/jb` leads to it, and an obliteration leaves nothing.
   Tweaks and daemons are started on the same boots, the threads run their
   commands in turn, and the job ends.
4. helper, p1ctl: whatever overlaps, the words are as some of the commands, one
   after the other, would have made them; a fresh block makes the change it is
   for and no other.
5. Hooks: cfprefsd is hooked on rootless and only there, keeps what the
   environment of its job has ahead of the extended variable and that variable's
   libraries, and a preference is always in the same file.
6. Patcher: nothing of dyld is overwritten but what is meant, a call gets where
   it went and any other branch where the first one does, and a dyld that is
   deployed is patched unless the symbol of its check has no length or there is
   no `__unwind_info`. libc: the functions agree with reference definitions,
   within the limits they have.
7. Installation: the archive is never read out of step, what is unpacked goes to
   the owner its entry names but for the climbs of create_dir, and what is marked
   as installed is linked, has a dpkg and is whole but for the entries that failed.


## 2. Plan

| order | module | about | composes | status |
|---|---|---|---|---|
| 1 | `Palerain` | options, volumes, control state shared by the boot programs | | done |
| 2 | `Fakedyld` | jbinit, one boot | Palerain | done |
| 3 | `FakedyldProofs` | its invariants, proved | Fakedyld | done |
| 4 | `EarlyBoot` | payload constructor, jbloader -f, remount | Palerain | done |
| 5 | `FakefsLifecycle` | abstract: a fakefs is absent, building, ready | | done |
| 6 | `BootChain` | any number of boots, power loss | Fakedyld, EarlyBoot; implements FakefsLifecycle | done |
| 7 | `BootChainProofs` | invariants and the refinement, proved | BootChain | done |
| 8 | `RootlessJb` | the bootstrap directory, `/var/jb`, obliterator and installer | | done |
| 9 | `RootlessJbProofs` | its invariants, proved | RootlessJb | done |
| 10 | `OptionWords`, `Userspace` | launchd's start, sysstatuscheck, bakera1nd and its threads, helper and p1ctl, userspace reboots | | done |
| 11 | `UserspaceProofs` | its invariants and one action property, proved | Userspace | done |
| 12 | `SpawnHooks` | payload.dylib in launchd and xpcproxy, the hook in cfprefsd | OptionWords | done |
| 13 | `SpawnHooksProofs` | the environments, the paths and the files, proved | SpawnHooks | done |
| 14 | `DyldPatch` | Mach-O lookups, masked search, code copies and redirected branches | | done |
| 15 | `DyldPatchProofs` | its invariants, proved | DyldPatch | done |
| 16 | `Libc` | memmem, strstr, strtoull, printf, ... and the log | | done |
| 17 | `LibcProofs` | searching, comparing, copying, numbers read and printed, formats and the log, proved | Libc | done |
| 18 | `Bootstrap` | helper -i: tar reader, post_install, dpkg | | done |
| 19 | `BootstrapProofs` | untar, owners and what the dotfile promises, proved | Bootstrap | done |

`DyldPatch` and `Libc` are checked in one instance (`MCJbinitLib`), since both
are sequential and neither uses the other's state. The plan is carried out:
every safety property a passing run checks is proved as well.

## 3. Models and code

### Palerain

A bit field of options is the set of the names of its set bits; bits no code
reads are left out. A volume is a record `[role, tree, skip, orig, dirty]` of
what the boot code can tell apart (the module's header says what each field
stands for). `nodes` is the set of volumes whose device node has appeared:
`NodeAppears` is the kernel publishing them, at any time. `pc` is the control
state of whichever program runs the boot; all of them run one after the other.

### Fakedyld: jbinit

One action per call of `main` (`jbinit/jbinit.c`): `ReadFiles`, `Rootwait`,
`GetInfo`, `PinfoCheck` (`fakefs_check.c`: conflicting options end in
`spin`), `SelectRoot`, `CleanMount`/`CleanRevert`/`CleanUnmount`
(`clean_fakefs.c`), `Mountroot`, `RemountRdisk`, `MountDevfs`, `MountCores`,
`InitLog`, `InitCores`, `PrepareRootfs` (the bind mounts), `PatchDyld`,
`Execve`. `main`'s locals are variables (`usefs`,
`rootdev`, `live`, `darwin22`). A retried system call is a step that may leave
the state as it is. Patching dyld is one step that works or spins.

### EarlyBoot: the constructor, jbloader -f and -s

`SpawnJbloader`, `Abort`, `CtorFlags` are `customConstructor` in pid 1;
`MountOverlay` and `MountLoader` (both through `mount_dmg`) to `SetupDone` are
`jbloader_early`, `create_remove_fakefs` and `setup_fakefs`, one action per system
call that changes the disk. The copy is two actions, so that power can go before
and after `/private` exists. `DeleteVolume` may fail, which the code logs and
forgets. `SetupCreate` lets APFS pick any free name. `CtorFlags` may read any
flags: the constructor looks at no result of its open, read and lseek, so a boot
that has set up a fakefs may go on to userland, and one that has not may reboot.
`Sysstatuscheck` is the remount of "/"; the remount of /private/preboot next to it
decides only whether the moves of `RootlessJb` work, each of which may fail there.

### BootChain and FakefsLifecycle

`HostBoot` starts a boot with any of `Requests`; `SwitchOff` forgets everything
but the volumes, and happens by `Reboot` (after a setup), `PowerLoss` (in any
state) and `PowerCycle` (out of a stuck boot). The option words do not change
during a boot here: the programs that change them run in user space
(`Userspace`).

`FakefsLifecycle` is what a reader should expect of fakefs volumes: only the
boot that created one finishes it, and what is in use is not deleted. The
refinement mapping reads a volume's state off its record (`FakefsState`), the
builder off `pc` (`Builder`) and the volume in use off `root`.

### RootlessJb

The directory of the boot manifest hash holds the old style name `procursus`,
names `jb-XXXXXXXX`, and `var` while an installer unpacks (`staged`); a
directory is absent, empty, part of a bootstrap or a whole one. `link` is
`/var/jb` and names a directory or the `procursus` in it. Three programs:
`move_rootless_if_required` (`HostBoot` to `SymlinkNew`; `ret` is its return
value, which its caller ignores), `jailbreak_obliterator` (`Obliterate` to
`RmDirs`) and the installer (`Install` to `SymlinkInstalled`). The last two
overlap freely once the boot is up; a userspace reboot or a power loss ends
them between any two steps. `missed` remembers that a command failed where the
obliterator forgets it; no action reads it. Left out: a second obliterator at
the same time, a change of the hash by an update of iOS, and, in the name an
installation draws, the missing end of the string (`post_install.c` 21-30): it
is drawn once and used twice, so the model has one name.

### OptionWords and Userspace

A word of options is the set of the numbers of its bits. `Plus` and `Minus` are
addition and subtraction of one bit with the carry or the borrow they have in
32 bits, because that is what `revert.c` and `safemode.c` write.

`Userspace` is one power on: `Constructor` and the two lists of arguments
payload.dylib gives launchd, `TaskReads` to `ExecRealTask` (jbloader -s),
`ReadsOptions` to `Goodbye` (the main thread of jbloader -j), `prep_jb_launch`
and `enable_ssh` (its threads), and any number of processes of helper and p1ctl
(`HelperReads`, `P1ctlReads`, `ToolWrites`, `CannotOpen`, `userspace_reboot`).
Every reader keeps its own copy of the words (`sysk`, `jbk`, `tool[t].read`).
`run()` is `Spawn` and `Waited`: a posix_spawn that fails leaves pid 0, and
waitpid(0) takes any child that has ended. `SpringBoardStarts` and
`SpringBoardDies` may fall between the look for SpringBoard and the
registration of the observer. A userspace reboot keeps the words and sets
`XPC_USERSPACE_REBOOTED`; `PowerOn` begins anew. `missed`, `raced`, `host`,
`serial`, `odd` and `reverting` only remember, no action reads them: `serial` has
for each word every value that a part of the commands so far, run one after the
other, would have given it. The argument of `helper --safemode` is an int (`Modes`).
In safe mode an argument that is neither 0 nor 1 adds the bit it has found, and
the carry leaves safe mode and sets bind_mount (`Plus`); `odd` remembers that.
`wiped` is set where `rm` is run on Zebra's data, by prep_jb_launch itself or by
the obliterator it calls. Bound: `MaxCommands`.

### SpawnHooks

A start of a service is three steps: `LaunchdSpawns` (the hook in pid 1 adds
payload.dylib), `XpcproxySpawns` (the hook in xpcproxy adds
rootlesshooks.dylib), `cfprefsdInit`. `WithLib` is the loop both hooks share,
including its index that stands still; either malloc may fail (`Spawn`). What
xpcproxy does to the environment is chosen freely around the job's own. The
constants name the environments and the paths; `GetPathForTriplet` is the
replaced function of CoreFoundation.

### DyldPatch

An image is a sequence of slices, a slice its load commands and a function from
offsets to words; a word is an operation and an operand. `pc` goes through
`patch_dyld`; a scan is one step per word, as `pf_patchset_emit32` does it. A
section, symbol or command that is missing is an early return (`spin`) or a
`NULL` that is used (`fault`), as in the code. `get_dyld_platform` is
jbloader's own reader of the same load commands.

### Libc

Each function is a recursive function with the loop of the code, a loop in a
loop being a function of its own (`Matched`, `FoundAt`); the state machine only
picks a call (`LibInit`, `Return`) or puts a text into the log character by
character (`putchar`). `_vsnprintf` is modelled for the
directives jbinit's formats can have (flags, width, precision, `*`, lengths,
`d u x p s c %`; `_atoi` reads widths and precisions), with the sizes of the
types as constants: `Remaining` is the number behind each digit `_ntoa_long`
takes from it, `Items` the text and the arguments left behind each directive.

### Bootstrap

`CheckPaths` to `OpenTar` are `install_bootstrap` up to the archive,
`ReadHeader`, `Extract`, `ReadData`, `CloseFile` are `untar` one block at a
time, `PostInstall` to `create_directories` are `post_install`. `HeaderAt` and
`BlockAt` say what tar has written where: the blocks of an archive are counted,
so that a tape is never built. Every call whose result the code looks at may fail,
every chown may, and the archive may be cut or damaged at any block; all of these
count against `MaxFaults`, everything that goes wrong with one entry as one. For
an entry (`Lucks`) that is: the first mkdir or fopen fails and the second works,
some paths cannot be made at all, some cannot be given away, in any combination.
`Climbs` is how far `create_dir` goes up, which is until a mkdir works, whatever
it failed of. A zst and the options of this boot are choices. `troubled` only
remembers for which entries a call was refused; no action reads it. `tree` has
kind, owner and data of every path, as blocks with the bytes taken of each.
`Dpkg` is the one name of an archive that becomes `/var/jb/usr/bin/dpkg`.

## 4. Runs

| run | checks | bounds, and why they are enough | shows |
|---|---|---|---|
| `chain` | `ChainTypeOK`, `RescueRootIsSystem`, `CleanBootIsPristine`, `SnapshotMeansComplete`, `SetupLeavesReady`, `SkippedDirsBound`, `ForeignVolumesKept`, `LifecycleSpec` | four names: system, data, the fakefs, and one that APFS may give instead (a second such name would only be another volume left behind); all option sets, a host naming any of three volumes; unbounded boots and power losses | each boot runs from the volume its options call for, a setup gets past jbloader -f only with a finished fakefs, the volumes of others are kept, and fakefs volumes follow their life cycle |
| `recovery` | `Recovers`, `BootDecides` | iOS 16, a fakefs name in each container; boots from the fakefs, cleaning it, setting it up whole or partial, reverting it, both, and rootless, of a fakefs that may be there and of one that never is; starts from every disk an interrupted setup can leave | after boots of any kind a setup can be repeated; a boot of jbinit ends in launchd or `spin()`; only one that is to run from a fakefs retries for ever, and only over one that is not there or has no /private |
| `rootless` | `TypeOK`, `ZeroMeansLinked`, `ObliteratedMeansUnlinked`, `BootstrapKept` | three names: one installed, one being installed, one more for a duplicate; unbounded boots, installations, obliterations and losses of power; the names are symmetric | a boot that reports success has `/var/jb` right, and a whole bootstrap is lost to an obliterator only |
| `userspace` | `TypeOK`, `SerialWords`, `SameVerdict`, `WipedOnlyIfAsked`, `CommandsInTurn`, `FreshWriteIsMeant`, `JobEnds` | two tools, so that each can act between the other's read and write; two commands per power on, so that a write can follow a stale one; the arguments 0, 1 and 2 of `--safemode`; unbounded power ons; the words that decide something | options, verdicts and threads under any overlap |
| `hooks` | `TypeOK`, `HookedIffRootless`, `EnvKept`, `OneFilePerPreference`, `SettledAtOnce` | jobs with up to three variables of each kind and order, one more variable before and behind; a preference of each kind; unbounded restarts | which service is hooked with what, what is left of its environment, and where preferences are |
| `jbinit_lib` | `TypeOK`, `OnlyPatched`, `SitesRunTheirCode`, `DoneMeansPatched`, `PlatformsAgree`; `SearchFindsFirst`, `ComparesStrings`, `CopiesExactly`, `NumbersReadBack`, `LogInOrder` | images with each part present, missing and doubled, up to three branches, symbols in and out of order and of one address, regions with room and without; words of 63 instead of 2^64 - 1; every text of two letters up to six with every needle up to four, on both sides of the lengths where memmem changes its algorithm; numbers of up to three digits, past the largest; a log buffer of five | the patch and the library compute what they should |
| `bootstrap` | `TypeOK`, `NothingShifts`, `OwnersKept`, `MarkedIsUsable` | blocks of two bytes (files of none, half a, one, one and a half, two); four archives with every type of entry, out of order, a name twice, without dpkg; two entries, calls or blocks that go wrong in any way, anywhere | untar stays in step; who owns what; what a mark stands for |
| `assert_unreachable`, `obliterate_old`, `moved_link`, `revert_rootful`, `untar_skip` | one property each, violated | as above, fewer requests | the findings below |

Deadlock is not checked where the system may stop: `recovery` (a boot that reached
userland stays there), `userspace` and `revert_rootful` (user space stays up),
`jbinit_lib` (a patch and a call end), `bootstrap` and `untar_skip` (the command
ends). In `chain` and `rootless` there is always a next boot, in `hooks` a next
start.

`CommandsInTurn` is weaker than "a thread waits for its own child": a
posix_spawn that fails may make it wait for the child of another. `JobEnds`
excepts a SpringBoard that starts between the look and the registration: the
job then waits for a second one that never comes. What is said of the patched
dyld is about images whose place for the code lies behind the platform check
(`RegionBehind`): in another the code would overwrite what is still to be
scanned. `OnlyPatched` says which words may be overwritten with room for the code
or without; with room (`Roomy`, for the branches of the check) they are free
zeros. `SitesRunTheirCode` says that a `br` goes where the first branch of all
goes, since copy_shc gives them all the same copy. `DoneMeansPatched` says for
which tables of symbols the check is deployed as it was, and of a last symbol of
the table, whose length is whatever follows the table, nothing.
`PlatformsAgree` excepts load commands with the number 0x32 where jbloader looks
for LC_BUILD_VERSION in every field, and fat files whose slices are for several
platforms, since jbloader takes the first slice and jbinit the one for arm64; it
is about a file that jbloader can open (`get_dyld_platform.c` 6-21 returns an
error otherwise). `OwnersKept` excepts what create_dir does hand over, and says
when (`HandedOver`).
`HookedIffRootless` is about the hooks as they are (`do_pspawn_hook`), which the
constructor enables after reading the flags unchecked, and about a service that
has an environment: without one the hooks do nothing.
It excepts a variable that has DYLD_INSERT_LIBRARIES inside its text ahead of the
real one. Without `missed`, `RegionBehind`, `Roomy`, `HandedOver`, `StrayNumber`,
`OnePlatform` or `Hidden` TLC finds each of these properties violated: the
excepted behaviour is in the model.

### Fairness

`LiveSpec` of `BootChain`: weak fairness of the running program, of the kernel's
publishing volumes, of the host booting a device that is off and of the user
switching a stuck one off; and, from some point on, `NothingRefused`: no system
call fails that could succeed, APFS gives the expected name, and nodes are there
when looked for. Each is needed, since the code gives up on the first failure
and never retries a setup itself. There is no power loss after the start; the
initial states are what any number of them left. A mount that is retried succeeds
in the end if there is what it asks for. `Recovers` is about a host that from some
point on only repeats a setup with `force_revert` (`Repairs`): without that option
the boot finds the fakefs in the way and spins.

`FairSpec` of `Userspace`: weak fairness of each thread of jbloader -j, of the
end of each child it waits for, and of SpringBoard's start, which launchd keeps
alive. Nothing is assumed of helper and p1ctl, of userspace reboots, or of the
child nobody waits for.

## 5. Proofs

What is assumed of the constants, all of it evaluated by TLC:

* `DevsAssumption`, `RequestsAssumption`, `NamesAssumption`: what the names of
  volumes are, that a request has options of the right kind, that the old style
  name is not among the new ones;
* `UserspaceAssumption`: words have 32 bits, and the arguments of `--safemode` are
  integers;
* `HooksAssumption`: no job and no xpcproxy has the libraries of the jailbreak
  already;
* `BootstrapAssumption`: what an archive is (every name starts with ".", only a
  directory is "." itself, a link has no data and its name occurs once, a hard
  link names something);
* `DyldPatchAssumption`: what load commands are, with LC_BUILD_VERSION laid out
  as in `macho_defs.h`;
* `LayoutAssumption`: `__unwind_info` is the last section of `__TEXT` with zeros
  behind it, and sections do not disagree about an address. This is what the
  patches take for granted; a slice may still lack any command or section;
* `LibcAssumption`, `CallsAssumption`: sizes are positive, the span of a type
  divides that of a word, and each call is given what its C signature asks for
  (strings with a NUL, lengths within the memory). The width of a number is at
  most `PRINTF_NTOA_BUFFER_SIZE`, as in all of jbinit: beyond it, zeros fill the
  buffer and the sign of a negative number is lost;
* `NtoaAssumption`: the buffer holds the digits of any word and a sign (32
  characters for 20 digits);
* `FormatsAssumption`: a format is given what the compiler asks for: as many
  arguments as its directives take, each of its type.

Nothing is assumed finite but an image.

**FakedyldProofs.** `IInv` adds to the properties what each local of `main`
holds from the call that sets it (`LocalsInv`), what cleaning has established
(`CleanInv`) and what is mounted (`RootInv`): no property is inductive without
these, since a property about launchd's root depends on options read eight
calls before. Results: `TypeCorrect`, `RescueRoot`, `CleanBoot`,
`SkippedAreBound`, and `WritesFakefsOnly` (jbinit writes to no volume but the
one named, in a clean boot).

**BootChainProofs.** `ChainInv` carries the same facts across the execve into
`EarlyBoot`, and adds that only a setup boot builds (`SetupChain`), that what it
builds lies in the container of the system volume, so that its skip list is the
one a later boot binds (`DiskInv`), and that "/" is not mounted before
`mountroot` (`RootChain`). `ForeignKept` follows from the three places that
write to a volume (lemma `Writers`). `Refines` shows that every step maps to a
step of `FakefsLifecycle` or a stutter; the step that needs the invariant is
deletion, where `NotInUse` shows that a boot that may delete runs from the
system volume.

**RootlessJbProofs.** `IInv` says that an empty jailbreak directory exists only
while the bootstrap is in its old place (an interrupted move), that nothing
else runs while `jbloader -s` works, and what is in hand between its steps.
From it `ZeroLinked`, `Unlinked`, `Kept` and `TypeCorrect`.

**UserspaceProofs.** `ToolInv` says what a helper between its read and its
write knows: what it read was a value in `serial`, it lacks the bit it will add or
has the one it will take away unless the argument is odd (so that `Plus` and
`Minus` are union and difference, lemmas `PlusSets` and `MinusClears`), and it
equals the words if nobody wrote since.
`WordsInv` says what the words read by jbloader -s were when jbloader -j reads
its own. `ThreadInv` relates the threads, their children and the main thread.
Results: `TypeCorrect`, `WordsAreSerial`, `VerdictsAgree`, `WipesAsAsked`,
`CommandsWaited` and the action property `FreshWrites`, for any number of tools,
any words and any number of commands.

**BootstrapProofs.** `StepsInv` follows post_install: after the renames both have
been done, after the link this run has made it, after dpkg there is a file of its
name; with what `UntarInv` says of the entries, hence `DotfileMeansUsable`.
`UntarInv` follows untar: where it stands on the tape (`PlaceInv`: at a header
after whole entries, or as many blocks into an entry as bytes of it have been
taken), what the open file has so far (`FileInv`), and that what is behind and
could be made is in place (`KeptInv`). Each step needs all three: a block is that
of the open file only because the place is right, and a later entry of another
name leaves the earlier ones alone. Hence `InstallTyped` and `NothingIsShifted`,
for any archive, block size and number of failures. `OwnerInv` is about owners.
`HandedInv` says that whoever has a path is an entry met there or below it, for
any archive. `OrderInv` says of an ordered one that what is there was there before
or was met, that a directory that was met is there unless a call for it was
refused, and that an entry has lost what was made for it only for a reason:
`create_dir` goes past a directory only if its mkdir fails, which it does for one
that was there before or when something was refused. Hence `OwnersAreKept`.

**DyldPatchProofs.** `CheckInv` says that the scan leaves no branch behind it and
changes nothing ahead; `CodeInv` that every changed word is accounted for, that
there are no more copies than branches met, so that the code stays within eight
words for each branch of the check, and where the code for each branch lies. Both
are about images with the region behind the check (`RegionBehind`), room or no
room. A later copy overwrites none, since the copies of one length lie side by side
and the shorter one can only be the first. `FoundInv` is about the test for
DYLD_IN_CACHE. `RoomIsFree` says what lies in the region of an image that has room;
`SymbolBehind` and `LengthCovers` that a check with a length reaches to the symbol
next to it in the table, so that all of the words up to the next symbol in memory
have been scanned. Hence `PatchTyped`, `LeavesTheRest`, `BranchesRunTheirCode` and
`DeployedIsPatched`.
`PlatformsAreTheSame` needs only where the platform comes from (`PlatformSet`),
and what `FlattenSeq` does to the first number that is 0x32 (`FlattenHas`).

**LibcProofs.** `LogInOrder` is inductive, with the types of the buffer and the
log (`LogInv`); hence `LogKeepsOrder`. The other theorems are about recursive
functions. For each, that the function exists is shown by a closed form or built
up row by row; what it returns by a least counterexample (`UpInduction`,
`DownInduction`, stated over sets of numbers), which takes the place of the
induction theorems with an operator as parameter. `LoopResult` says that a loop
returns the value of its first stop; `From` and `SkipIs` that no place is lost
when memmem skips by `bad_char_skip`. Results: `SearchIsRight`,
`ComparisonIsRight`, `CopiesAreExact`, for texts of any length over any bytes.
For numbers, `Reading` is what strtoull must hold once the digits read so far
say v; `TakeKeeps` shows that one more digit keeps it, from `TooBigIs` (the test
with cutoff and cutlim tells, without overflowing, whether the next number
fits) and, for an int that wraps around, `ModStep`. Hence `ReadingIsExact`, the
conjunct `ReadsExactly` of `NumbersReadBack`, for any number of digits in any
base and any ULLONG_MAX.

Printing is the way back. `DigitsAre` says that the digits `_ntoa_long` leaves
in its buffer are those of `Remaining`, down to nothing left, and `ZerosAre` that
zeros before them are its next ones; `NumeralIs` follows the buffer through
`_ntoa_format` and `_out_rev` to a text of blanks, at most one sign, digits and
blanks (`IsNumeral`), where the sign of a negative number always has room.
`NumeralReads` shows that strtoull takes each digit back (`TakeDigit`, since
what is left before a digit is base times what is left behind it, plus the digit)
and stops behind the last; `NarrowIs` that this is the argument modulo its type,
negative or not. Hence `PrintingIsExact`. For a format, `DirectiveIs` says what one
directive shows and which arguments it leaves, whatever is a `*`; `ItemsAre`
that each goes on where the one before ended, by induction over the format with
the arguments left (`IsRest`) as the invariant; `TextKept` that no later one
changes what is there. Hence `FormatsShowTheirArguments`, and with
`ReadingIsExact` all of `NumbersReadBack`: `NumbersAreExact`.

**SpawnHooksProofs.** The lemmas say what the first of a set of positions is
(from the pigeonhole principle, since induction is out of reach), what `WithLib`
leaves of any environment (`WithLibShape`) and when a library is loaded
(`LoadsFromFirst`, `NoLibNoLoad`). `BothAdded` composes the two hooks around
whatever xpcproxy adds. `HookInv` carries the environment launchd made to the
step of xpcproxy. Results: `HookedAsMeant`, `EnvironmentKept`; `MovesOnce` needs
only where answers come from (`AnswerInv`: from the path asked for and nothing
else, whichever start of cfprefsd it is). `PreferencesStayApart` adds that two
paths are moved apart (`MovedApart`) and that no path is moved to one that stays
(`AnswersApart`); `HooksTyped` is the type invariant.

Only model-checked: liveness (`BootDecides`, `Recovers`, `JobEnds`), which is
out of the prover's reach, and the counterexamples of the findings.

## 6. Findings

* `assert_unreachable`: the assertion at `fakefs.c` 285, "should be unreachable
  because jbinit checked it", is reached by a setup boot with `force_revert`
  whose deletion failed. pid 1 then spins.
* `obliterate_old`: an obliteration leaves a bootstrap of the old style (there
  after a move that was interrupted or failed), and a later boot links it again,
  although "Jailbreak obliterated" was printed (`obliterator.c` 87).
* `moved_link`: the boot that moves an old bootstrap links `/var/jb` to the
  directory above it (`move_rootless.c` 31); the next cold boot repairs it.
* `revert_rootful`: `helper -R`, "revert palera1n install" (`helper.c` 23), only
  sets clean_fakefs on rootful and reboots user space; jbinit, which cleans, does
  not run then, and `prep_launch.c` 15 and `sysstatuscheck.c` 76 skip it.
* `untar_skip`: an entry `filter` skips ends the unpacking (`install_strap.c`
  71, a `break` out of the loop over all entries), and `helper -i`, "completes
  palera1n install" (`helper.c` 27), reports success.

### Seen while modelling

Promised otherwise by nobody, or a slip of one line, so no property is about it.

Boots: a fakefs whose copy was interrupted after `/private` was made is booted
from, unless the boot is a clean one; power lost between mkdtemp and rename in
`move_rootless` makes every later boot bail out over both styles; power lost
between the renames of an installation makes every later one fail; a dangling
`/var/jb` is not repaired while a jailbreak directory exists; `fakefs_is_in_use`
(`jbloader.h` 48) looks for `force_revert` in the words of paleinfo, where it is
never set, so a rescue boot tries to remount "/" naming the fakefs; mount_dmg
succeeds if any child was mounted.

User space: `helper --safemode` and `helper -R` that cannot open the ramdisk test
`ret` instead of `rmd` (`safemode.c` 56, `revert.c` 28) and reboot user space in the
mode it was in; a job of launchd that ends takes `uicache -a` with it, if it still
runs (`uicache.c` 38 does not wait and the property list of `payload.c` 108 has
no AbandonProcessGroup); the child of a command that was not waited for is
reaped by the next.

Hooks: variables behind the one that is extended are dropped (`payload.c`
186-192), and a variable that has DYLD_INSERT_LIBRARIES inside its text is
extended in its place.

Patcher and library: after a fat file `dyld_buf` points into it, but the length
written is still that of the file; symbols of the same address give a length of
0 and nothing is patched, without an error; memcmp never reliably returns 0 for
equal memory (its counter is unsigned), strcat writes no NUL, strcmp compares
signed and strncmp unsigned characters, a negative `*` precision counts as 0.

Installation: create_dir on a directory that exists hands all directories above to
the owner of the entry (`files.c` 71), and so does create_file when a first fopen
fails; a dpkg that was cut counts as one, since what it does is ignored
(`install_deb.c` 61); check_rootful returns -1 for an error, which
`install_bootstrap` takes for rootless and `post_install` for rootful; the prefix
field of ustar is ignored and an unknown type is written as a file; fclose(NULL)
after a failed open; the results of the programs that are run are ignored, and so
is that of install_bootstrap (`helper.c` 94); a dangling `/var/jb` makes every
installation fail at symlink and leave another directory; the name create_jb_path
draws has no end (`post_install.c` 21-30); the dotfile is made before
create_directories.

## 7. Not modelled

* File contents and sizes on `/cores` and the fakefs, logging other than the
  line buffer, code signing, XPC messages.
* `patch_dyld/elf.c` and the functions of `macho.c` from line 360 on (kernel
  extensions): nothing calls them. Floating point in `printf.c`: no format of
  jbinit has it. `malloc.c` is one mmap, `syscall.c` one instruction each.
* The commands of helper that start a package manager or set a password and
  ignore the result (`apt.c`, `actions.c`, `pwset.c`), and what helper and p1ctl
  print; the preference `enable_non_default_system_apps` sets.
* The interposed memorystatus_control (it only changes
  the flags of a memory limit asked for pid 1), and the hook
  of xpc_dictionary_get_bool, which is not compiled.
* The headers of XPC, APFS, launch and substrate, `dyld_platform_test`, build
  files, the `launchctl` submodule (not in the tree).
