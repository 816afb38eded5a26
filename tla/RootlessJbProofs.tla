-------------------------- MODULE RootlessJbProofs --------------------------
(***************************************************************************)
(* ZeroMeansLinked, ObliteratedMeansUnlinked and BootstrapKept hold of     *)
(* RootlessJb for any set of directory names.  IInv is inductive: one      *)
(* lemma for each of its parts, one case for each program.                 *)
(***************************************************************************)
EXTENDS RootlessJb, TLAPS

(* A link to a place is a link. *)
LEMMA NewLink ==
    /\ NoLink \in Links
    /\ \A d \in Places : [dir |-> d, sub |-> TRUE] \in Links
    /\ \A d \in Places : [dir |-> d, sub |-> FALSE] \in Links
  BY DEF Links, NoLink, Places

(* Types: a link names a jailbreak directory, since BootInv and FilesInv say
   what the programs have in hand when they make one. *)
LEMMA TypeStep == IInv /\ [Next]_vars => TypeOK'
<1> SUFFICES ASSUME IInv, [Next]_vars PROVE TypeOK'
    OBVIOUS
<1> USE NamesAssumption DEF IInv, TypeOK, FilesInv, BootInv, mode, booting,
        obliterating, installing, files
<1>1. CASE BootNext
  <2>1. CASE HostBoot
    BY <2>1 DEF HostBoot, Places, NoLink, Links, Contents, Done, Symlink,
           FoundJb
  <2>2. CASE RootfulUnlink
    BY <2>2 DEF RootfulUnlink, Places, NoLink, Links, Contents, Done,
           Symlink, FoundJb
  <2>3. CASE Bail
    BY <2>3 DEF Bail, Places, NoLink, Links, Contents, Done, Symlink,
           FoundJb
  <2>4. CASE NothingFound
    BY <2>4 DEF NothingFound, Places, NoLink, Links, Contents, Done,
           Symlink, FoundJb
  <2>5. CASE Fixup
    BY <2>5 DEF Fixup, Places, NoLink, Links, Contents, Done, Symlink,
           FoundJb
  <2>6. CASE Relink
    <3>1. link' \in Links
      BY <2>6, NewLink DEF Relink, Symlink, Places
    <3>2. QED
      BY <2>6, <3>1 DEF Relink, Symlink, Done
  <2>7. CASE MakeJbDir
    BY <2>7 DEF MakeJbDir, Places, NoLink, Links, Contents, Done, Symlink,
           FoundJb
  <2>8. CASE RenameOld
    BY <2>8 DEF RenameOld, Places, NoLink, Links, Contents, Done, Symlink,
           FoundJb
  <2>9. CASE UnlinkOld
    BY <2>9 DEF UnlinkOld, Places, NoLink, Links, Contents, Done, Symlink,
           FoundJb
  <2>10. CASE SymlinkNew
    <3>1. link' \in Links
      BY <2>10, NewLink DEF SymlinkNew, Symlink, Places
    <3>2. QED
      BY <2>10, <3>1 DEF SymlinkNew, Symlink, Done
  <2>11. QED
    BY <1>1, <2>1, <2>2, <2>3, <2>4, <2>5, <2>6, <2>7, <2>8,
       <2>9, <2>10 DEF BootNext
<1>2. CASE ObliterateNext
  <2>1. CASE Obliterate
    BY <2>1 DEF Obliterate, Places, NoLink, Links, Contents, Matches,
           FoundJb
  <2>2. CASE RmLink
    <3>1. missed' \in BOOLEAN /\ link' \in Links
      BY <2>2 DEF RmLink, Links, NoLink
    <3>2. QED
      BY <2>2, <3>1 DEF RmLink
  <2>3. CASE Find
    <3>1. missed' \in BOOLEAN
      BY <2>3 DEF Find
    <3>2. QED
      BY <2>3, <3>1 DEF Find, Matches, FoundJb
  <2>4. CASE RmDirs
    <3>1. missed' \in BOOLEAN
      BY <2>4 DEF RmDirs
    <3>2. at' \in [Places -> Contents]
      BY <2>4 DEF RmDirs, Contents
    <3>3. QED
      BY <2>4, <3>1, <3>2 DEF RmDirs
  <2>5. QED
    BY <1>2, <2>1, <2>2, <2>3, <2>4 DEF ObliterateNext
<1>3. CASE InstallNext
  <2>1. CASE Install
    BY <2>1 DEF Install, Places, NoLink, Links, Contents, Resolves
  <2>2. CASE Untar
    BY <2>2 DEF Untar, Places, NoLink, Links, Contents, Resolves
  <2>3. CASE UntarRest
    BY <2>3 DEF UntarRest, Places, NoLink, Links, Contents, Resolves
  <2>4. CASE RenameStaged
    BY <2>4 DEF RenameStaged, Places, NoLink, Links, Contents, Resolves
  <2>5. CASE RenameVar
    BY <2>5 DEF RenameVar, Places, NoLink, Links, Contents, Resolves
  <2>6. CASE SymlinkInstalled
    <3>1. link' \in Links
      BY <2>6, NewLink DEF SymlinkInstalled, Places
    <3>2. QED
      BY <2>6, <3>1 DEF SymlinkInstalled
  <2>7. QED
    BY <1>3, <2>1, <2>2, <2>3, <2>4, <2>5, <2>6 DEF InstallNext
<1>4. CASE UserspaceReboot
  BY <1>4 DEF UserspaceReboot, StopPrograms, Untouched
<1>5. CASE PowerLoss
  BY <1>5 DEF PowerLoss, StopPrograms, Untouched
<1>6. CASE UNCHANGED vars
  BY <1>6 DEF vars
<1>7. QED
  BY <1>1, <1>2, <1>3, <1>4, <1>5, <1>6 DEF Next

(* A directory stays empty only while the bootstrap is in its old place:
   the move that fills it takes the bootstrap from there. *)
LEMMA FilesStep == IInv /\ [Next]_vars => FilesInv'
<1> SUFFICES ASSUME IInv, [Next]_vars PROVE FilesInv'
    OBVIOUS
<1> USE NamesAssumption DEF IInv, TypeOK, FilesInv, BootInv, mode, booting,
        obliterating, installing, files
<1>1. CASE BootNext
  BY <1>1 DEF BootNext, HostBoot, RootfulUnlink, Bail, NothingFound, Fixup,
         Relink, MakeJbDir, RenameOld, UnlinkOld, SymlinkNew, Places,
         Contents, Untouched, FoundOld, FoundJb, Ambiguous, Done, Symlink
<1>2. CASE ObliterateNext
  BY <1>2 DEF ObliterateNext, Obliterate, RmLink, Find, RmDirs, Places,
         Contents, FoundOld, FoundJb, Matches
<1>3. CASE InstallNext
  BY <1>3 DEF InstallNext, Install, Untar, UntarRest, RenameStaged,
         RenameVar, SymlinkInstalled, Places, Contents, FoundOld
<1>4. CASE UserspaceReboot
  BY <1>4 DEF UserspaceReboot, StopPrograms, Untouched, FoundOld
<1>5. CASE PowerLoss
  BY <1>5 DEF PowerLoss, StopPrograms, Untouched, FoundOld
<1>6. CASE UNCHANGED vars
  BY <1>6 DEF vars, FoundOld
<1>7. QED
  BY <1>1, <1>2, <1>3, <1>4, <1>5, <1>6 DEF Next

(* What jbloader -s found when it looked is so until it is done: the other
   programs do not run. *)
LEMMA BootStep == IInv /\ [Next]_vars => BootInv'
<1> SUFFICES ASSUME IInv, [Next]_vars PROVE BootInv'
    OBVIOUS
<1> USE NamesAssumption DEF IInv, TypeOK, FilesInv, BootInv, mode, booting,
        obliterating, installing, files
<1>1. CASE BootNext
  BY <1>1 DEF BootNext, HostBoot, RootfulUnlink, Bail, NothingFound, Fixup,
         Relink, MakeJbDir, RenameOld, UnlinkOld, SymlinkNew, Places,
         Untouched, OnlyPlace, FoundOld, FoundJb, Duplicate, Ambiguous,
         Done, Symlink
<1>2. CASE ObliterateNext
  BY <1>2 DEF ObliterateNext, Obliterate, RmLink, Find, RmDirs, Untouched
<1>3. CASE InstallNext
  BY <1>3 DEF InstallNext, Install, Untar, UntarRest, RenameStaged,
         RenameVar, SymlinkInstalled, Untouched
<1>4. CASE UserspaceReboot
  BY <1>4 DEF UserspaceReboot, StopPrograms, Untouched, OnlyPlace
<1>5. CASE PowerLoss
  BY <1>5 DEF PowerLoss, StopPrograms, Untouched, OnlyPlace
<1>6. CASE UNCHANGED vars
  BY <1>6 DEF vars, Untouched, OnlyPlace
<1>7. QED
  BY <1>1, <1>2, <1>3, <1>4, <1>5, <1>6 DEF Next

(* While nobody installs, an obliterator that misses nothing has removed the
   link and has every directory in hand. *)
LEMMA ObliterateStep == IInv /\ [Next]_vars => ObliterateInv'
<1> SUFFICES ASSUME IInv, [Next]_vars PROVE ObliterateInv'
    OBVIOUS
<1> USE NamesAssumption DEF IInv, TypeOK, BootInv, ObliterateInv, mode,
        booting, obliterating, installing, files
<1>1. CASE BootNext
  BY <1>1 DEF BootNext, HostBoot, RootfulUnlink, Bail, NothingFound, Fixup,
         Relink, MakeJbDir, RenameOld, UnlinkOld, SymlinkNew, Untouched
<1>2. CASE ObliterateNext
  BY <1>2 DEF ObliterateNext, Obliterate, RmLink, Find, RmDirs, FoundJb,
         Matches, Places
<1>3. CASE InstallNext
  BY <1>3 DEF InstallNext, Install, Untar, UntarRest, RenameStaged,
         RenameVar, SymlinkInstalled, FoundJb
<1>4. CASE UserspaceReboot
  BY <1>4 DEF UserspaceReboot, StopPrograms, Untouched, FoundJb
<1>5. CASE PowerLoss
  BY <1>5 DEF PowerLoss, StopPrograms, Untouched, FoundJb
<1>6. CASE UNCHANGED vars
  BY <1>6 DEF vars, FoundJb
<1>7. QED
  BY <1>1, <1>2, <1>3, <1>4, <1>5, <1>6 DEF Next

(* Each return of 0 leaves /var/jb as promised, and until another program
   starts it stays so. *)
LEMMA LinkedStep == IInv /\ [Next]_vars => ZeroMeansLinked'
<1> SUFFICES ASSUME IInv, [Next]_vars PROVE ZeroMeansLinked'
    OBVIOUS
<1> USE NamesAssumption DEF IInv, TypeOK, FilesInv, BootInv,
        ZeroMeansLinked, mode, booting, obliterating, installing, files
<1>1. CASE BootNext
  BY <1>1 DEF BootNext, HostBoot, RootfulUnlink, Bail, NothingFound, Fixup,
         Relink, MakeJbDir, RenameOld, UnlinkOld, SymlinkNew, Places,
         NoLink, Untouched, OnlyPlace, FoundOld, FoundJb, Resolves, Done,
         Symlink
<1>2. CASE ObliterateNext
  BY <1>2 DEF ObliterateNext, Obliterate, RmLink, Find, RmDirs, Untouched
<1>3. CASE InstallNext
  BY <1>3 DEF InstallNext, Install, Untar, UntarRest, RenameStaged,
         RenameVar, SymlinkInstalled, Untouched
<1>4. CASE UserspaceReboot
  BY <1>4 DEF UserspaceReboot, StopPrograms, Untouched, OnlyPlace
<1>5. CASE PowerLoss
  BY <1>5 DEF PowerLoss, StopPrograms, Untouched, OnlyPlace
<1>6. CASE UNCHANGED vars
  BY <1>6 DEF vars, Untouched, OnlyPlace, Resolves
<1>7. QED
  BY <1>1, <1>2, <1>3, <1>4, <1>5, <1>6 DEF Next

(* The last rm leaves no directory when it had them all in hand. *)
LEMMA UnlinkedStep == IInv /\ [Next]_vars => ObliteratedMeansUnlinked'
<1> SUFFICES ASSUME IInv, [Next]_vars PROVE ObliteratedMeansUnlinked'
    OBVIOUS
<1> USE NamesAssumption DEF IInv, TypeOK, BootInv, ObliterateInv,
        ObliteratedMeansUnlinked, mode, booting, obliterating, installing,
        files
<1>1. CASE BootNext
  BY <1>1 DEF BootNext, HostBoot, RootfulUnlink, Bail, NothingFound, Fixup,
         Relink, MakeJbDir, RenameOld, UnlinkOld, SymlinkNew, Untouched
<1>2. CASE ObliterateNext
  BY <1>2 DEF ObliterateNext, Obliterate, RmLink, Find, RmDirs, FoundJb,
         Matches, Places
<1>3. CASE InstallNext
  BY <1>3 DEF InstallNext, Install, Untar, UntarRest, RenameStaged,
         RenameVar, SymlinkInstalled
<1>4. CASE UserspaceReboot
  BY <1>4 DEF UserspaceReboot, StopPrograms, Untouched, FoundJb
<1>5. CASE PowerLoss
  BY <1>5 DEF PowerLoss, StopPrograms, Untouched, FoundJb
<1>6. CASE UNCHANGED vars
  BY <1>6 DEF vars, FoundJb
<1>7. QED
  BY <1>1, <1>2, <1>3, <1>4, <1>5, <1>6 DEF Next

(* The initial states. *)
LEMMA InitKeeps == Init => IInv
<1> SUFFICES ASSUME Init PROVE IInv
    OBVIOUS
<1> USE NamesAssumption DEF Init
<1>1. link \in Links
  BY NewLink DEF Places
<1>2. TypeOK
  <2>1. staged \in [jb : Contents, procursus : Contents]
    BY DEF Contents
  <2>2. at \in [Places -> Contents]
    BY DEF Contents
  <2>3. ubooted \in BOOLEAN /\ rootful \in BOOLEAN /\ missed \in BOOLEAN
    OBVIOUS
  <2>4. QED
    BY <1>1, <2>1, <2>2, <2>3 DEF TypeOK
<1>3. FilesInv
  BY DEF FilesInv, FoundOld, Places
<1>4. BootInv
  BY DEF BootInv, Untouched
<1>5. ObliterateInv /\ ZeroMeansLinked /\ ObliteratedMeansUnlinked
  BY DEF ObliterateInv, ZeroMeansLinked, ObliteratedMeansUnlinked
<1>6. QED
  BY <1>2, <1>3, <1>4, <1>5 DEF IInv

(* IInv holds throughout. *)
THEOREM Inductive == Spec => []IInv
<1>1. IInv /\ [Next]_vars => IInv'
  BY TypeStep, FilesStep, BootStep, ObliterateStep, LinkedStep, UnlinkedStep DEF IInv
<1>2. QED
  BY InitKeeps, <1>1, PTL DEF Spec

(* Every variable keeps its type. *)
THEOREM TypeCorrect == Spec => []TypeOK
  BY Inductive, PTL DEF IInv

(* move_rootless_if_required returns 0 only when /var/jb is what it should
   be. *)
THEOREM ZeroLinked == Spec => []ZeroMeansLinked
  BY Inductive, PTL DEF IInv

(* An obliteration that misses nothing leaves no directory of the new style
   and no link. *)
THEOREM Unlinked == Spec => []ObliteratedMeansUnlinked
  BY Inductive, PTL DEF IInv

(* Nothing but an obliterator that saw it takes a bootstrap down. *)
THEOREM Kept == Spec => BootstrapKept
<1>1. ASSUME IInv, [Next]_vars, NEW d \in Places, at[d] = "tree", at'[d] # "tree"
      PROVE  \/ d \in JbNames \cap doomed
             \/ d = Old /\ \E e \in JbNames : at[e] = "empty" /\ at'[e] = "tree"
  <2> USE NamesAssumption, <1>1
      DEF IInv, TypeOK, mode, booting, obliterating, installing, files, Places
  <2>1. CASE MakeJbDir
    BY <2>1 DEF MakeJbDir, Ambiguous, FoundOld, FoundJb
  <2>2. CASE RenameOld
    BY <2>2 DEF RenameOld, BootInv
  <2>3. CASE RmDirs
    BY <2>3 DEF RmDirs
  <2>4. CASE RenameVar
    BY <2>4 DEF RenameVar
  <2>5. CASE UNCHANGED at
    BY <2>5
  <2>6. QED
    BY <2>1, <2>2, <2>3, <2>4, <2>5
       DEF Next, BootNext, ObliterateNext, InstallNext, HostBoot, RootfulUnlink, Bail,
           NothingFound, Fixup, Relink, UnlinkOld, SymlinkNew, Obliterate, RmLink, Find,
           Install, Untar, UntarRest, RenameStaged, SymlinkInstalled, UserspaceReboot,
           PowerLoss, StopPrograms, vars
<1>2. IInv /\ [Next]_vars =>
        [\A d \in Places : at[d] = "tree" /\ at'[d] # "tree" =>
            \/ d \in JbNames \cap doomed
            \/ d = Old /\ \E e \in JbNames : at[e] = "empty" /\ at'[e] = "tree"]_vars
  BY <1>1
<1>3. QED
  BY Inductive, <1>2, PTL DEF Spec, BootstrapKept
=============================================================================
