----------------------------- MODULE RootlessJb ------------------------------
(***************************************************************************)
(* The rootless bootstrap over any number of boots: where its directory is *)
(* under /private/preboot/HASH, and what /var/jb links to.  Three programs *)
(* change them:                                                            *)
(*   jbloader -s at boot (move_rootless.c), before userland runs;          *)
(*   the obliterator (obliterator.c), run by jbloader -j on a boot with    *)
(*   force_revert and by helper -R at any time;                            *)
(*   the installer, helper -i (install_strap.c, post_install.c).           *)
(* The last two may overlap; power may go and userspace may be rebooted    *)
(* between any two steps.  Every system call that fails for reasons of its *)
(* own is a choice.                                                        *)
(***************************************************************************)
EXTENDS Naturals

CONSTANTS
    JbNames,  \* the names jb-XXXXXXXX that may be drawn
    Old,      \* the old style name, procursus
    NoDir

ASSUME NamesAssumption == Old \notin JbNames /\ NoDir \notin JbNames \cup {Old}

Places == JbNames \cup {Old}

(* What a directory holds: nothing yet, some of a bootstrap, all of it. *)
Contents == {"absent", "empty", "part", "tree"}

VARIABLES
    rootful, ubooted,  \* the option; userspace was rebooted since power on
    boot,              \* what jbloader -s is doing
    ret,               \* what move_rootless_if_required returned
    jbPath,            \* the directory it works on
    oblit, doomed,     \* what the obliterator is doing, the arguments of its rm
    missed,            \* a command it ran failed, which it does not notice
    inst, jb_path,     \* what the installer is doing, and the name it drew
    at,                \* contents of each place
    staged,            \* contents of HASH/var/jb and HASH/var/procursus
    link               \* /var/jb: [dir, sub], sub when it names dir/procursus

mode == <<rootful, ubooted>>
booting == <<boot, ret, jbPath>>
obliterating == <<oblit, doomed, missed>>
installing == <<inst, jb_path>>
files == <<at, staged, link>>
vars == <<mode, booting, obliterating, installing, files>>

NoLink == [dir |-> NoDir, sub |-> FALSE]
Links == [dir : Places, sub : BOOLEAN] \cup {NoLink}

(* access("/var/jb") and fopen("/var/jb") follow the link. *)
Resolves ==
    /\ link # NoLink
    /\ at[link.dir] # "absent"
    /\ link.sub => at[link.dir] # "empty"

FoundJb == {d \in JbNames : at[d] # "absent"}
FoundOld == at[Old] # "absent"

(* A device without a bootstrap, or with one of the old style. *)
Init ==
    /\ rootful = FALSE /\ ubooted = FALSE
    /\ boot = "off" /\ ret = 0 /\ jbPath = NoDir
    /\ oblit = "idle" /\ doomed = {} /\ missed = FALSE
    /\ inst = "idle" /\ jb_path = NoDir
    /\ staged = [jb |-> "absent", procursus |-> "absent"]
    /\ \/ at = [d \in Places |-> "absent"] /\ link = NoLink
       \/ /\ at = [d \in Places |-> IF d = Old THEN "tree" ELSE "absent"]
          /\ link = [dir |-> Old, sub |-> TRUE]
-----------------------------------------------------------------------------
(* jbloader -s: move_rootless_if_required. *)
Done(r) == boot' = "up" /\ ret' = r

HostBoot ==
    /\ boot = "off"
    /\ boot' = "scan"
    /\ rootful' \in BOOLEAN
    /\ UNCHANGED <<ubooted, ret, jbPath, obliterating, installing, files>>

(* 66-73: on rootful there must be no /var/jb. *)
RootfulUnlink ==
    /\ boot = "scan" /\ rootful
    /\ \/ link' = NoLink /\ Done(0)
       \/ UNCHANGED link /\ Done(1)
    /\ UNCHANGED <<mode, jbPath, obliterating, installing, at, staged>>

(* 78-106: two directories of the new style, or both styles.  Without a hash,
   and when mkdtemp fails (6-10), it bails out as well. *)
Duplicate == \E d, e \in FoundJb : d # e
AmbiguousNewOnly == Duplicate
Ambiguous == Duplicate \/ (FoundOld /\ FoundJb # {})

Bail ==
    /\ boot = "scan" /\ ~ rootful
    /\ Done(1)
    /\ UNCHANGED <<mode, jbPath, obliterating, installing, files>>

(* 113-119: nothing is installed.  A missing link counts as a failure. *)
NothingFound ==
    /\ boot = "scan" /\ ~ rootful
    /\ FoundJb = {} /\ ~ FoundOld
    /\ \/ link # NoLink /\ link' = NoLink /\ Done(0)
       \/ UNCHANGED link /\ Done(1)
    /\ UNCHANGED <<mode, jbPath, obliterating, installing, at, staged>>

(* fixup_var_jb 40-51: after a userspace reboot nothing is done; otherwise a
   link that resolves is removed first. *)
FixupForgets ==
    /\ boot = "scan" /\ ~ rootful /\ ~ Ambiguous /\ ~ FoundOld
    /\ FoundJb # {}
    /\ \/ ubooted /\ Done(0) /\ UNCHANGED link
       \/ ~ ubooted /\ Resolves /\ link' = NoLink /\ boot' = "relink" /\ UNCHANGED ret
       \/ ~ ubooted /\ Resolves /\ UNCHANGED link /\ Done(1)
       \/ ~ ubooted /\ ~ Resolves /\ UNCHANGED link /\ boot' = "relink" /\ UNCHANGED ret
    /\ UNCHANGED <<mode, jbPath, obliterating, installing, at, staged>>
Fixup ==
    /\ boot = "scan" /\ ~ rootful /\ ~ Ambiguous /\ ~ FoundOld
    /\ \E d \in FoundJb : jbPath' = d
    /\ \/ ubooted /\ Done(0) /\ UNCHANGED link
       \/ ~ ubooted /\ Resolves /\ link' = NoLink /\ boot' = "relink" /\ UNCHANGED ret
       \/ ~ ubooted /\ Resolves /\ UNCHANGED link /\ Done(1)
       \/ ~ ubooted /\ ~ Resolves /\ UNCHANGED link /\ boot' = "relink" /\ UNCHANGED ret
    /\ UNCHANGED <<mode, obliterating, installing, at, staged>>

(* symlink fails when the name is taken, by a dangling link too. *)
Symlink(to) ==
    \/ link = NoLink /\ link' = to /\ Done(0)
    \/ UNCHANGED link /\ Done(1)

(* 52-60. *)
Relink ==
    /\ boot = "relink"
    /\ Symlink([dir |-> jbPath, sub |-> TRUE])
    /\ UNCHANGED <<mode, jbPath, obliterating, installing, at, staged>>

(* move_rootless 3-19: a new directory, opened and given its mode. *)
MakeJbDir ==
    /\ boot = "scan" /\ ~ rootful /\ ~ Ambiguous /\ FoundOld
    /\ \E d \in JbNames : at' = [at EXCEPT ![d] = "empty"] /\ jbPath' = d
    /\ boot' \in {"rename", "dead"}
    /\ UNCHANGED <<mode, ret, obliterating, installing, staged, link>>

(* 20-24: the old tree moves below the new directory. *)
RenameOld ==
    /\ boot = "rename"
    /\ \/ /\ at' = [at EXCEPT ![jbPath] = at[Old], ![Old] = "absent"]
          /\ boot' = "unlink" /\ UNCHANGED ret
       \/ UNCHANGED at /\ Done(1)
    /\ UNCHANGED <<mode, jbPath, obliterating, installing, staged, link>>

(* 25-29. *)
UnlinkOld ==
    /\ boot = "unlink"
    /\ \/ link' = NoLink /\ boot' = "symlink" /\ UNCHANGED ret
       \/ UNCHANGED link /\ Done(1)
    /\ UNCHANGED <<mode, jbPath, obliterating, installing, at, staged>>

(* 31-37: the link names the new directory, not the procursus in it. *)
SymlinkNew ==
    /\ boot = "symlink"
    /\ Symlink([dir |-> jbPath, sub |-> FALSE])
    /\ UNCHANGED <<mode, jbPath, obliterating, installing, at, staged>>
-----------------------------------------------------------------------------
(* The obliterator on a rootless boot.  It goes on whatever the commands it
   runs return.  rm -rf of a link removes the link. *)
Obliterate ==
    /\ boot = "up" /\ ~ rootful
    /\ oblit \in {"idle", "done"}
    /\ oblit' = "rm_link" /\ doomed' = {} /\ missed' = FALSE
    /\ UNCHANGED <<mode, booting, installing, files>>

(* 60-73. *)
RmLinkContents ==
    /\ oblit = "rm_link" /\ oblit' = "find"
    /\ UNCHANGED <<mode, booting, doomed, missed, installing, files>>
RmLink ==
    /\ oblit = "rm_link" /\ oblit' = "find"
    /\ \/ link' = NoLink /\ UNCHANGED missed
       \/ UNCHANGED link /\ missed' = TRUE
    /\ UNCHANGED <<mode, booting, doomed, installing, at, staged>>

(* 74-81: find collects what -name "jb-*" matches; rm then gets it all. *)
MatchesAnything == {d \in Places : at[d] # "absent"}
Matches == FoundJb
Find ==
    /\ oblit = "find"
    /\ \/ oblit' = "rm" /\ doomed' = Matches /\ UNCHANGED missed
       \/ oblit' = "done" /\ UNCHANGED doomed /\ missed' = TRUE
    /\ UNCHANGED <<mode, booting, installing, files>>

(* A tree is taken down bit by bit. *)
RmDirs ==
    /\ oblit = "rm"
    /\ \/ /\ \E d \in doomed :
               at' = [at EXCEPT ![d] = IF @ = "tree" THEN "part" ELSE "absent"]
          /\ UNCHANGED <<oblit, missed>>
       \/ oblit' = "done" /\ missed' = TRUE /\ UNCHANGED at
       \/ /\ \A d \in doomed : at[d] = "absent"
          /\ oblit' = "done" /\ UNCHANGED <<missed, at>>
    /\ UNCHANGED <<mode, booting, doomed, installing, staged, link>>
-----------------------------------------------------------------------------
(* helper -i on a rootless boot: install_bootstrap 153-176.  A /var/jb that
   resolves is opened and then not removed, for rmdir refuses a link; one
   that does not is passed to fclose as NULL, which may end the program. *)
Install ==
    /\ boot = "up" /\ ~ rootful
    /\ inst \in {"idle", "done"}
    /\ inst' \in IF Resolves THEN {"done"} ELSE {"untar", "done"}
    /\ UNCHANGED <<mode, booting, obliterating, jb_path, files>>

(* 178-203: untar writes HASH/var/jb.  It reports nothing: what a short read
   leaves is installed like the whole. *)
Untar ==
    /\ inst = "untar"
    /\ \/ inst' = "untar_rest" /\ staged' = [staged EXCEPT !.jb = "part"]
       \/ inst' = "done" /\ UNCHANGED staged
    /\ UNCHANGED <<mode, booting, obliterating, jb_path, at, link>>
UntarRest ==
    /\ inst = "untar_rest" /\ inst' = "rename_jb"
    /\ staged' \in {staged, [staged EXCEPT !.jb = "tree"]}
    /\ UNCHANGED <<mode, booting, obliterating, jb_path, at, link>>

(* post_install 89-92: fails when an earlier installation ended before the
   next step. *)
RenameStaged ==
    /\ inst = "rename_jb"
    /\ \/ /\ staged.procursus = "absent"
          /\ staged' = [jb |-> "absent", procursus |-> staged.jb]
          /\ inst' = "rename_var"
       \/ inst' = "done" /\ UNCHANGED staged
    /\ UNCHANGED <<mode, booting, obliterating, jb_path, at, link>>

(* 72, 94-97: var becomes jb-XXXXXXXX, under a name nobody has. *)
RenameVar ==
    /\ inst = "rename_var"
    /\ \/ \E d \in JbNames :
            /\ at[d] = "absent"
            /\ at' = [at EXCEPT ![d] = staged.procursus]
            /\ staged' = [staged EXCEPT !.procursus = "absent"]
            /\ jb_path' = d /\ inst' = "symlink"
       \/ inst' = "done" /\ UNCHANGED <<at, staged, jb_path>>
    /\ UNCHANGED <<mode, booting, obliterating, link>>

(* 99-106. *)
SymlinkInstalled ==
    /\ inst = "symlink" /\ inst' = "done"
    /\ \/ link = NoLink /\ link' = [dir |-> jb_path, sub |-> TRUE]
       \/ UNCHANGED link
    /\ UNCHANGED <<mode, booting, obliterating, jb_path, at, staged>>
-----------------------------------------------------------------------------
StopPrograms ==
    /\ oblit' = "idle" /\ doomed' = {} /\ missed' = FALSE
    /\ inst' = "idle" /\ jb_path' = NoDir /\ jbPath' = NoDir
    /\ UNCHANGED files

(* launchd ends every program and runs jbloader -s -u. *)
UserspaceReboot ==
    /\ boot = "up" /\ boot' = "scan" /\ ubooted' = TRUE
    /\ StopPrograms /\ UNCHANGED <<rootful, ret>>

PowerLoss ==
    /\ boot # "off" /\ boot' = "off"
    /\ rootful' = FALSE /\ ubooted' = FALSE /\ ret' = 0
    /\ StopPrograms

BootNext ==
    \/ HostBoot \/ RootfulUnlink \/ Bail \/ NothingFound \/ Fixup \/ Relink
    \/ MakeJbDir \/ RenameOld \/ UnlinkOld \/ SymlinkNew

ObliterateNext == Obliterate \/ RmLink \/ Find \/ RmDirs

InstallNext ==
    \/ Install \/ Untar \/ UntarRest \/ RenameStaged \/ RenameVar
    \/ SymlinkInstalled

Next ==
    \/ BootNext \/ ObliterateNext \/ InstallNext
    \/ UserspaceReboot \/ PowerLoss

Spec == Init /\ [][Next]_vars
-----------------------------------------------------------------------------
TypeOK ==
    /\ rootful \in BOOLEAN /\ ubooted \in BOOLEAN /\ missed \in BOOLEAN
    /\ boot \in {"off", "scan", "relink", "rename", "unlink", "symlink", "up", "dead"}
    /\ ret \in {0, 1}
    /\ jbPath \in JbNames \cup {NoDir} /\ jb_path \in JbNames \cup {NoDir}
    /\ oblit \in {"idle", "rm_link", "find", "rm", "done"} /\ doomed \subseteq JbNames
    /\ inst \in {"idle", "untar", "untar_rest", "rename_jb", "rename_var", "symlink", "done"}
    /\ at \in [Places -> Contents]
    /\ staged \in [jb : Contents, procursus : Contents]
    /\ link \in Links

(* What move_rootless_if_required means by returning 0 after a cold boot,
   over whatever crashes, installations and obliterations left: on rootful
   there is no /var/jb; on rootless there is one bootstrap directory and
   /var/jb leads to it, or there is neither. *)
OnlyPlace(d) == \A e \in Places : at[e] # "absent" <=> e = d
Untouched == oblit = "idle" /\ inst = "idle"

ZeroMeansLinked ==
    boot = "up" /\ ret = 0 /\ ~ ubooted /\ Untouched =>
      IF rootful THEN link = NoLink
      ELSE \/ link = NoLink /\ \A d \in Places : at[d] = "absent"
           \/ \E d \in JbNames : OnlyPlace(d) /\ link.dir = d /\ Resolves

(* A whole bootstrap stays whole through moves, crashes and installations
   until an obliterator that saw it takes it down; one of the old style is
   only ever moved. *)
BootstrapKept ==
    [][\A d \in Places : at[d] = "tree" /\ at'[d] # "tree" =>
          \/ d \in JbNames \cap doomed
          \/ d = Old /\ \E e \in JbNames : at[e] = "empty" /\ at'[e] = "tree"]_vars

(* When an obliteration that ran nothing in vain ends, and nobody installed
   meanwhile, no directory of the new style is left and /var/jb is gone. *)
ObliteratedMeansUnlinked ==
    oblit = "done" /\ ~ missed /\ inst = "idle" => link = NoLink /\ FoundJb = {}

(* obliterator.c 87 prints "Jailbreak obliterated", which helper.c 23 calls
   "revert palera1n install": no bootstrap is left for a later boot to link. *)
ObliteratedMeansGone ==
    oblit = "done" /\ ~ missed /\ inst = "idle" => ~ FoundOld

(* move_rootless.c 36 reports "moved jb root path from %s to %s" after linking
   /var/jb, through which everything else reaches the bootstrap: the link
   names the bootstrap, as those of fixup_var_jb and post_install do. *)
MovedMeansLinked ==
    boot = "up" /\ ret = 0 /\ ~ ubooted /\ Untouched /\ link # NoLink => link.sub
-----------------------------------------------------------------------------
(* The inductive invariant.  A directory without a bootstrap in it is one a
   move was interrupted over: the bootstrap is still in its old place.  While
   jbloader -s works nothing else runs, and the directory it works on is the
   only one; the installer never renames what it has not unpacked. *)
FilesInv ==
    /\ at[Old] \in {"absent", "tree"}
    /\ \A d \in JbNames : at[d] = "empty" => FoundOld
    /\ staged.jb # "empty" /\ staged.procursus # "empty"
    /\ inst \in {"untar_rest", "rename_jb"} => staged.jb # "absent"
    /\ inst = "rename_var" => staged.procursus # "absent"
    /\ inst = "symlink" => jb_path \in JbNames

BootInv ==
    /\ boot # "up" => Untouched
    /\ ~ Untouched => ~ rootful
    /\ oblit = "idle" => doomed = {}
    /\ boot \in {"relink", "rename", "unlink", "symlink"} => ~ rootful /\ jbPath \in JbNames
    /\ boot = "relink" => OnlyPlace(jbPath) /\ ~ ubooted
    /\ boot = "rename" =>
          /\ \A d \in JbNames : at[d] # "absent" <=> d = jbPath
          /\ at[jbPath] = "empty" /\ at[Old] = "tree"
    /\ boot \in {"unlink", "symlink"} => OnlyPlace(jbPath) /\ at[jbPath] = "tree"

ObliterateInv ==
    /\ oblit = "find" /\ ~ missed /\ inst = "idle" => link = NoLink
    /\ oblit = "rm" /\ ~ missed /\ inst = "idle" => link = NoLink /\ FoundJb \subseteq doomed

IInv ==
    /\ TypeOK /\ FilesInv /\ BootInv /\ ObliterateInv
    /\ ZeroMeansLinked /\ ObliteratedMeansUnlinked
=============================================================================
