-------------------------- MODULE BootstrapProofs ---------------------------
(***************************************************************************)
(* Proofs about Bootstrap, for any archives, blocks of any size and any    *)
(* number of failures.                                                     *)
(***************************************************************************)
EXTENDS Bootstrap, FiniteSetTheorems, SequenceTheorems, TLAPS

(* What has been done where post_install stands, on a rootless device; once
   the dotfile is there nothing is left that could undo it. *)
Linked == moved = 2 /\ linked /\ varjb = "link"
MarkedIsLinked == marked /\ device = "rootless" => Linked /\ Unpacked
StepsInv ==
    /\ device = "rootless" /\ pc \in {"renameVar", "link"} => ~ marked
    /\ device = "rootless" /\ pc = "link" => moved = 2
    /\ device = "rootless" /\ pc \in {"enter", "sh", "dpkg", "dotfile", "directories"} => Linked
    /\ device = "rootless" /\ pc \in {"dotfile", "directories"} => Unpacked
    /\ marked => pc \in {"directories", "done"}
    /\ MarkedIsLinked

LEMMA InitSteps == Init => StepsInv
BY DEF Init, StepsInv, MarkedIsLinked

(* The steps up to the first rename, which leave all of this alone. *)
LEMMA BeforeRename ==
    StepsInv /\ (\/ mount_check \/ CheckPaths \/ RefuseReverted \/ RemoveVarJb
                 \/ FindHash \/ Open \/ decompress \/ OpenTar \/ ReadHeader
                 \/ Extract \/ ReadData \/ CloseFile \/ PostInstall) => StepsInv'
<1> SUFFICES ASSUME StepsInv,
                    \/ mount_check \/ CheckPaths \/ RefuseReverted \/ RemoveVarJb
                    \/ FindHash \/ Open \/ decompress \/ OpenTar \/ ReadHeader
                    \/ Extract \/ ReadData \/ CloseFile \/ PostInstall
             PROVE  StepsInv'
  OBVIOUS
<1>1. /\ pc \notin {"directories", "done"}
      /\ pc' \in {"paths", "reverted", "varjb", "hash", "open", "decompress", "tar", "header",
                  "entry", "data", "post", "renameJb", "sh", "done"}
      /\ pc' = "sh" => device # "rootless"
      /\ UNCHANGED <<device, marked>>
  <2> USE DEF Goto, Return, Untarred, given, result
  <2>1. CASE mount_check \/ CheckPaths \/ RefuseReverted \/ RemoveVarJb \/ FindHash
    BY <2>1 DEF mount_check, CheckPaths, RefuseReverted, RemoveVarJb, FindHash
  <2>2. CASE Open \/ decompress \/ OpenTar
    BY <2>2 DEF Open, decompress, OpenTar
  <2>3. CASE ReadHeader
    BY <2>3 DEF ReadHeader
  <2>4. CASE Extract \/ ReadData \/ CloseFile
    BY <2>4 DEF Extract, ReadData, CloseFile
  <2>5. CASE PostInstall
    BY <2>5 DEF PostInstall, check_rootful
  <2>6. QED
    BY <2>1, <2>2, <2>3, <2>4, <2>5
<1>2. ~ marked
  BY <1>1 DEF StepsInv
<1>3. QED
  BY <1>1, <1>2 DEF StepsInv, MarkedIsLinked

LEMMA NextSteps == StepsInv /\ [Next]_vars => StepsInv'
<1> SUFFICES ASSUME StepsInv, [Next]_vars PROVE StepsInv'
  OBVIOUS
<1> USE DEF Goto, Return, given, unpacking, result, StepsInv, MarkedIsLinked, Linked
<1>1. CASE RenameJb
  BY <1>1 DEF RenameJb
<1>2. CASE RenameVar
  BY <1>2 DEF RenameVar
<1>3. CASE Link
  BY <1>3 DEF Link
<1>4. CASE EnterVarJb
  BY <1>4 DEF EnterVarJb
<1>5. CASE RunScript
  BY <1>5 DEF RunScript
<1>6. CASE InstallDeb
  BY <1>6 DEF InstallDeb, HasDpkg, Unpacked, check_rootful
<1>7. CASE Dotfile
  BY <1>7 DEF Dotfile, Unpacked
<1>8. CASE create_directories
  BY <1>8 DEF create_directories, Unpacked
<1>9. CASE UNCHANGED vars
  BY <1>9 DEF vars, Unpacked
<1>10. QED
  BY <1>1, <1>2, <1>3, <1>4, <1>5, <1>6, <1>7, <1>8, <1>9, BeforeRename DEF Next

-----------------------------------------------------------------------------
(* The tape.  What a file takes of it, and what one block of it leaves. *)
LEMMA Sizes ==
    ASSUME NEW s \in Nat
    PROVE  /\ BlocksFor(s) \in Nat /\ BlocksFor(0) = 0
           /\ s > 0 => /\ Takes(s) \in 1..Block /\ s - Takes(s) \in Nat
                       /\ BlocksFor(s) = BlocksFor(s - Takes(s)) + 1
<1>1. Block \in Nat \ {0}
  BY BootstrapAssumption
<1>2. BlocksFor(s) \in Nat /\ BlocksFor(0) = 0
  BY <1>1 DEF BlocksFor
<1>3. CASE 0 < s /\ s <= Block
  <2>1. Takes(s) = s /\ BlocksFor(s) = 1
    BY <1>1, <1>3 DEF Takes, Smaller, BlocksFor
  <2>2. QED
    BY <1>1, <1>2, <1>3, <2>1
<1>4. CASE s > Block
  <2>1. Takes(s) = Block /\ BlocksFor(s) = BlocksFor(s - Block) + 1
    BY <1>1, <1>4 DEF Takes, Smaller, BlocksFor
  <2>2. QED
    BY <1>1, <1>2, <1>4, <2>1
<1>5. QED
  BY <1>1, <1>2, <1>3, <1>4

(* An archive is a sequence of entries. *)
LEMMA ArchiveFacts ==
    ASSUME NEW ar \in Archives
    PROVE  /\ Len(ar) \in Nat /\ DOMAIN ar = 1..Len(ar)
           /\ \A i \in DOMAIN ar : ar[i] \in Entries /\ DataBlocks(ar[i]) \in Nat
<1>1. ar \in Seq(Entries)
  BY BootstrapAssumption
<1>2. Len(ar) \in Nat /\ DOMAIN ar = 1..Len(ar) /\ \A i \in DOMAIN ar : ar[i] \in Entries
  BY <1>1
<1>3. \A e \in Entries : e.size \in Nat
  BY DEF Entries
<1>4. QED
  BY <1>2, <1>3, Sizes DEF DataBlocks

(* The paths of the tree are the names, and what is above them. *)
LEMMA NamesArePaths ==
    ASSUME NEW ar \in Archives, NEW i \in DOMAIN ar
    PROVE  /\ ar[i].name \in Seq(STRING) /\ ar[i].name \in Paths /\ Len(ar[i].name) \in Nat \ {0}
           /\ UpTo(ar[i].name) \subseteq Paths
<1> DEFINE n == ar[i].name
<1>1. n \in Seq(STRING) /\ n # None
  BY ArchiveFacts, BootstrapAssumption DEF Entries
<1>2. Len(n) \in Nat \ {0}
  BY <1>1, EmptySeq DEF None
<1>3. UpTo(n) \subseteq Paths
  BY DEF UpTo, Paths, NamesOf
<1> HIDE DEF n
<1>4. n = SubSeq(n, 1, Len(n))
  BY <1>1, SubSeqFull
<1>5. n \in UpTo(n)
  <2>1. Len(n) \in 1..Len(n)
    BY <1>2
  <2>2. SubSeq(n, 1, Len(n)) \in UpTo(n)
    BY <2>1 DEF UpTo
  <2>3. QED
    BY <1>4, <2>2
<1>6. QED
  BY <1>1, <1>2, <1>3, <1>5 DEF n

LEMMA BlocksOfOne ==
    ASSUME NEW ar \in Archives, NEW i \in DOMAIN ar
    PROVE  IsFiniteSet(BlocksOf(ar, i)) /\ Cardinality(BlocksOf(ar, i)) = DataBlocks(ar[i]) + 1
<1> DEFINE d == DataBlocks(ar[i])
           nth == [n \in 0..d |-> [of |-> i, n |-> n]]
<1>1. d \in Nat
  BY ArchiveFacts
<1>2. nth \in Bijection(0..d, BlocksOf(ar, i))
  BY DEF Bijection, Injection, Surjection, IsInjective, BlocksOf
<1>3. IsFiniteSet(0..d) /\ Cardinality(0..d) = d + 1
  BY <1>1, FS_Interval
<1> HIDE DEF nth, d
<1>4. IsFiniteSet(BlocksOf(ar, i)) /\ Cardinality(BlocksOf(ar, i)) = d + 1
  BY <1>2, <1>3, FS_Bijection DEF ExistsBijection
<1>5. QED
  BY <1>4 DEF d

LEMMA BlocksFinite ==
    ASSUME NEW ar \in Archives, NEW i \in 1..Len(ar) + 1
    PROVE  /\ IsFiniteSet(BlocksBefore(ar, i)) /\ Cardinality(BlocksBefore(ar, i)) \in Nat
           /\ HeaderAt(ar, i) \in Nat \ {0}
<1> DEFINE g == [j \in 1..i - 1 |-> BlocksOf(ar, j)]
           sets == {BlocksOf(ar, j) : j \in 1..i - 1}
<1>1. Len(ar) \in Nat /\ DOMAIN ar = 1..Len(ar)
  BY ArchiveFacts
<1>2. \A T \in sets : IsFiniteSet(T)
  BY <1>1, BlocksOfOne
<1>3. g \in Surjection(1..i - 1, sets)
  BY DEF Surjection
<1>4. IsFiniteSet(1..i - 1)
  BY <1>1, FS_Interval
<1>5. BlocksBefore(ar, i) = UNION sets
  BY DEF BlocksBefore
<1> HIDE DEF g, sets
<1>6. IsFiniteSet(sets)
  BY <1>3, <1>4, FS_Surjection
<1>7. IsFiniteSet(BlocksBefore(ar, i))
  BY <1>2, <1>5, <1>6, FS_UNION
<1>8. QED
  BY <1>7, FS_CardinalityType DEF HeaderAt

(* Where the headers are: the next one is behind the data of this one. *)
LEMMA HeaderFirst == \A ar : HeaderAt(ar, 1) = 1
<1>1. \A ar : BlocksBefore(ar, 1) = {}
  BY DEF BlocksBefore
<1>2. QED
  BY <1>1, FS_EmptySet DEF HeaderAt

LEMMA HeaderNext ==
    ASSUME NEW ar \in Archives, NEW i \in DOMAIN ar
    PROVE  HeaderAt(ar, i + 1) = HeaderAt(ar, i) + 1 + DataBlocks(ar[i])
<1>1. Len(ar) \in Nat /\ DOMAIN ar = 1..Len(ar) /\ DataBlocks(ar[i]) \in Nat
  BY ArchiveFacts
<1>2. BlocksBefore(ar, i + 1) = BlocksBefore(ar, i) \cup BlocksOf(ar, i)
  <2>1. 1..(i + 1) - 1 = (1..i - 1) \cup {i}
    BY <1>1
  <2>2. QED
    BY <2>1 DEF BlocksBefore
<1>3. BlocksBefore(ar, i) \cap BlocksOf(ar, i) = {}
  <2>1. \A j \in 1..i - 1 : \A b \in BlocksOf(ar, j) : b.of = j
    BY DEF BlocksOf
  <2>2. \A b \in BlocksOf(ar, i) : b.of = i
    BY DEF BlocksOf
  <2>3. i \notin 1..i - 1
    BY <1>1
  <2>4. QED
    BY <2>1, <2>2, <2>3 DEF BlocksBefore
<1>4. /\ IsFiniteSet(BlocksBefore(ar, i)) /\ Cardinality(BlocksBefore(ar, i)) \in Nat
      /\ IsFiniteSet(BlocksOf(ar, i)) /\ Cardinality(BlocksOf(ar, i)) = DataBlocks(ar[i]) + 1
  BY <1>1, BlocksFinite, BlocksOfOne
<1>5. Cardinality(BlocksBefore(ar, i + 1))
        = Cardinality(BlocksBefore(ar, i)) + Cardinality(BlocksOf(ar, i)) - Cardinality({})
  BY <1>2, <1>3, <1>4, FS_Union
<1>6. QED
  BY <1>1, <1>4, <1>5, FS_EmptySet DEF HeaderAt

LEMMA HeadersAscend ==
    ASSUME NEW ar \in Archives, NEW i \in 1..Len(ar) + 1, NEW j \in 1..Len(ar) + 1, i <= j
    PROVE  HeaderAt(ar, i) <= HeaderAt(ar, j)
<1>1. Len(ar) \in Nat
  BY ArchiveFacts
<1>2. BlocksBefore(ar, i) \in SUBSET BlocksBefore(ar, j)
  <2>1. 1..i - 1 \subseteq 1..j - 1
    BY <1>1
  <2>2. QED
    BY <2>1 DEF BlocksBefore
<1>3. IsFiniteSet(BlocksBefore(ar, j)) /\ Cardinality(BlocksBefore(ar, j)) \in Nat
      /\ Cardinality(BlocksBefore(ar, i)) \in Nat
  BY BlocksFinite
<1>4. Cardinality(BlocksBefore(ar, i)) <= Cardinality(BlocksBefore(ar, j))
  BY <1>2, <1>3, FS_Subset
<1>5. QED
  BY <1>3, <1>4 DEF HeaderAt

(* Each block is where it belongs, and behind the last one come the zeros. *)
LEMMA BlockThere ==
    ASSUME NEW ar \in Archives, NEW i \in DOMAIN ar, NEW k \in 0..DataBlocks(ar[i])
    PROVE  BlockAt(ar, HeaderAt(ar, i) + k) = [of |-> i, n |-> k]
<1> DEFINE p == HeaderAt(ar, i) + k
           here == {j \in DOMAIN ar : p - HeaderAt(ar, j) \in 0..DataBlocks(ar[j])}
<1>1. Len(ar) \in Nat /\ DOMAIN ar = 1..Len(ar) /\ DataBlocks(ar[i]) \in Nat
  BY ArchiveFacts
<1>2. HeaderAt(ar, i) \in Nat /\ HeaderAt(ar, i + 1) = HeaderAt(ar, i) + 1 + DataBlocks(ar[i])
  BY <1>1, BlocksFinite, HeaderNext
<1>3. ASSUME NEW j \in DOMAIN ar, p - HeaderAt(ar, j) \in 0..DataBlocks(ar[j])
      PROVE  j = i
  <2>1. /\ DataBlocks(ar[j]) \in Nat /\ HeaderAt(ar, j) \in Nat
        /\ HeaderAt(ar, j + 1) = HeaderAt(ar, j) + 1 + DataBlocks(ar[j])
    BY <1>1, ArchiveFacts, BlocksFinite, HeaderNext
  <2>2. HeaderAt(ar, j) < HeaderAt(ar, i + 1) /\ HeaderAt(ar, i) < HeaderAt(ar, j + 1)
    BY <1>1, <1>2, <1>3, <2>1
  <2>3. ~ i + 1 <= j
    <3>1. i + 1 <= j => HeaderAt(ar, i + 1) <= HeaderAt(ar, j)
      BY <1>1, HeadersAscend
    <3>2. HeaderAt(ar, i + 1) \in Nat
      BY <1>1, <1>2
    <3>3. QED
      BY <2>1, <2>2, <3>1, <3>2
  <2>4. ~ j + 1 <= i
    <3>1. j + 1 <= i => HeaderAt(ar, j + 1) <= HeaderAt(ar, i)
      BY <1>1, HeadersAscend
    <3>2. HeaderAt(ar, j + 1) \in Nat
      BY <2>1
    <3>3. QED
      BY <1>2, <2>2, <3>1, <3>2
  <2>5. QED
    BY <1>1, <2>3, <2>4
<1>4. i \in here
  BY <1>1, <1>2
<1>5. here = {i}
  BY <1>3, <1>4
<1>6. (CHOOSE j \in here : TRUE) = i /\ here # {}
  BY <1>5
<1>7. p - HeaderAt(ar, i) = k
  BY <1>1, <1>2
<1>8. BlockAt(ar, p) = [of |-> i, n |-> k]
  BY <1>6, <1>7 DEF BlockAt
<1>9. QED
  BY <1>8

LEMMA ZerosAtTheEnd ==
    ASSUME NEW ar \in Archives
    PROVE  BlockAt(ar, HeaderAt(ar, Len(ar) + 1)) = Zeros
<1> DEFINE p == HeaderAt(ar, Len(ar) + 1)
<1>1. Len(ar) \in Nat /\ DOMAIN ar = 1..Len(ar)
  BY ArchiveFacts
<1>2. ASSUME NEW i \in DOMAIN ar
      PROVE  p - HeaderAt(ar, i) \notin 0..DataBlocks(ar[i])
  <2>1. /\ DataBlocks(ar[i]) \in Nat /\ HeaderAt(ar, i) \in Nat /\ p \in Nat
        /\ HeaderAt(ar, i + 1) = HeaderAt(ar, i) + 1 + DataBlocks(ar[i])
    BY <1>1, ArchiveFacts, BlocksFinite, HeaderNext
  <2>2. HeaderAt(ar, i + 1) <= p
    BY <1>1, HeadersAscend
  <2>3. QED
    BY <2>1, <2>2
<1>3. QED
  BY <1>2 DEF BlockAt

-----------------------------------------------------------------------------
(* Where untar is in the archive: behind the header of the entry and not
   behind the next one; and what is left of the entry ends at the next header,
   whatever was made of it. *)
Ahead == {"start", "paths", "reverted", "varjb", "hash", "open", "decompress", "tar"}
Untarring == {"header", "entry", "data"}
Behind1 == {"post", "renameJb", "renameVar", "link", "enter", "sh", "dpkg", "dotfile",
            "directories", "done"}

GivenInv == archive \in Archives /\ place \in Places /\ device \in Devices

PlaceInv ==
    /\ pc \in Ahead => entry = 0
    /\ entry # 0 => HeaderAt(archive, entry) < pos
    /\ pos <= HeaderAt(archive, entry + 1)
    /\ pc \in Ahead \cup {"header"} => pos = HeaderAt(archive, entry + 1)
    /\ pc \in Ahead \cup {"header", "entry"} => filesize = 0
    /\ pc = "entry" => entry # 0 /\ pos = HeaderAt(archive, entry) + 1
    /\ pc = "data" => entry # 0 /\ pos + BlocksFor(filesize) = HeaderAt(archive, entry + 1)

(* The blocks of the entry that have been read, and what is in its file. *)
BlocksRead == pos - HeaderAt(archive, entry) - 1
FileInv ==
    pc = "data" =>
      LET e == archive[entry]
      IN  /\ e.type = "file" /\ filesize > 0 => filesize = e.size - BlocksRead * Block
          /\ e.type # "file" => filesize = 0
          /\ f # None => /\ e.type = "file" /\ f = e.name /\ tree[f].kind = "file"
                         /\ tree[f].data = FirstBlocks(entry, BlocksRead)
          /\ e.type = "file" /\ entry \notin failed => f # None
          /\ e.type = "dir" /\ entry \notin failed => tree[e.name].kind = "dir"

(* The entries that untar is through with, or was when it stopped, are in
   place. *)
Through == IF pc \in {"entry", "data"} \/ filesize > 0 THEN 1..entry - 1 ELSE 1..entry
KeptInv == \A i \in Through \ failed : Alone(i) => InPlace(i)

UntarInv == GivenInv /\ TypeOK /\ PlaceInv /\ FileInv /\ KeptInv

(* Behind untar are the entries up to the last one it has met. *)
LEMMA BehindIs ==
    ASSUME GivenInv, TypeOK, PlaceInv
    PROVE  Behind = 1..entry /\ Done = Through /\ entry \in Nat
<1>1. /\ Len(archive) \in Nat /\ DOMAIN archive = 1..Len(archive)
      /\ entry \in 0..Len(archive) /\ pos \in Nat
  <2>1. TapeLength(archive) \in Nat
    BY BlocksFinite, ArchiveFacts DEF GivenInv, TapeLength
  <2>2. QED
    BY <2>1, ArchiveFacts DEF GivenInv, TypeOK
<1>2. HeaderAt(archive, entry + 1) \in Nat
  BY <1>1, BlocksFinite DEF GivenInv
<1>3. ASSUME NEW i \in 1..entry PROVE HeaderAt(archive, i) < pos
  <2>1. HeaderAt(archive, i) <= HeaderAt(archive, entry)
    BY <1>1, HeadersAscend DEF GivenInv
  <2>2. HeaderAt(archive, i) \in Nat /\ HeaderAt(archive, entry) \in Nat
    BY <1>1, BlocksFinite DEF GivenInv
  <2>3. HeaderAt(archive, entry) < pos
    BY <1>1 DEF PlaceInv
  <2>4. QED
    BY <1>1, <2>1, <2>2, <2>3
<1>4. ASSUME NEW i \in DOMAIN archive, HeaderAt(archive, i) < pos PROVE i <= entry
  <2>1. SUFFICES ASSUME entry + 1 <= i PROVE FALSE
    BY <1>1
  <2>2. HeaderAt(archive, entry + 1) <= HeaderAt(archive, i) /\ HeaderAt(archive, i) \in Nat
    BY <1>1, <2>1, HeadersAscend, BlocksFinite DEF GivenInv
  <2>3. QED
    BY <1>1, <1>2, <1>4, <2>2 DEF PlaceInv
<1>5. Behind = 1..entry
  BY <1>1, <1>3, <1>4 DEF Behind
<1>6. (1..entry) \ {entry} = 1..entry - 1
  BY <1>1
<1>7. Done = Through
  <2>1. CASE pc \in {"entry", "data"} \/ filesize > 0
    BY <1>5, <1>6, <2>1 DEF Done, Through
  <2>2. CASE ~ (pc \in {"entry", "data"} \/ filesize > 0)
    BY <1>5, <2>2 DEF Done, Through
  <2>3. QED
    BY <2>1, <2>2
<1>8. QED
  BY <1>1, <1>5, <1>7

LEMMA FaultsBounded == faults \in 0..MaxFaults /\ (Fine \/ Fault) => faults' \in 0..MaxFaults
BY BootstrapAssumption DEF Fine, Fault

LEMMA InitUntar == Init => UntarInv
<1> SUFFICES ASSUME Init PROVE UntarInv
  OBVIOUS
<1>1. archive \in Archives /\ place \in Places /\ device \in Devices /\ Len(archive) \in Nat
  BY ArchiveFacts DEF Init
<1>2. HeaderAt(archive, 1) = 1 /\ TapeLength(archive) \in Nat \ {0}
  BY <1>1, HeaderFirst, BlocksFinite DEF TapeLength
<1>3. Absent \in Nodes /\ Node("dir", 0) \in Nodes
  BY <1>1 DEF Absent, Node, Nodes
<1>4. TypeOK
  <2>1. tree \in [Paths -> Nodes]
    BY <1>3 DEF Init
  <2>2. pos \in 1..TapeLength(archive) /\ faults \in 0..MaxFaults /\ entry \in 0..Len(archive)
    BY <1>1, <1>2, BootstrapAssumption DEF Init
  <2>3. /\ pc = "start" /\ varjb \in {"none", "link", "dangling", "empty"}
        /\ ret = 0 /\ filesize = 0 /\ f = None /\ failed = {} /\ troubled = {} /\ moved = 0
    BY DEF Init
  <2>4. linked \in BOOLEAN /\ marked \in BOOLEAN
    BY Zenon DEF Init
  <2>5. QED
    BY <2>1, <2>2, <2>3, <2>4 DEF TypeOK
<1>5. QED
  BY <1>1, <1>2, <1>4 DEF Init, UntarInv, GivenInv, PlaceInv, FileInv, KeptInv, Through, Ahead, Untarring

(* The steps that are not untar's. *)
LEMMA QuietUntar ==
    UntarInv /\ UNCHANGED <<given, unpacking>> /\ pc \notin Untarring
    /\ (pc' \in Untarring => pc \in Ahead /\ pc' = "header")
    /\ (pc' \in Ahead => pc \in Ahead) /\ TypeOK' => UntarInv'
<1> SUFFICES ASSUME UntarInv, UNCHANGED <<given, unpacking>>, pc \notin Untarring,
                    pc' \in Untarring => pc \in Ahead /\ pc' = "header",
                    pc' \in Ahead => pc \in Ahead, TypeOK'
             PROVE  UntarInv'
  OBVIOUS
<1>1. UNCHANGED <<device, place, archive, pos, entry, filesize, f, tree, failed, troubled>>
  BY DEF given, unpacking
<1>2. GivenInv' /\ PlaceInv'
  BY <1>1 DEF UntarInv, GivenInv, PlaceInv, Ahead, Untarring
<1>3. FileInv'
  BY DEF FileInv, Untarring, Ahead
<1>4. KeptInv'
  <2>1. Through' = Through
    BY <1>1 DEF Through, Untarring, Ahead
  <2>2. QED
    BY <1>1, <2>1 DEF UntarInv, KeptInv, Alone, InPlace, Whole, FirstBlocks, Name, IsDir
<1>5. QED
  BY <1>2, <1>3, <1>4 DEF UntarInv

(* Before untar, and behind it. *)
LEMMA QuietSteps ==
    ASSUME
           \/ mount_check \/ CheckPaths \/ RefuseReverted \/ RemoveVarJb \/ FindHash
           \/ Open \/ decompress \/ OpenTar
           \/ PostInstall \/ RenameJb \/ RenameVar \/ Link \/ EnterVarJb
           \/ RunScript \/ InstallDeb \/ Dotfile \/ create_directories
    PROVE  /\ UNCHANGED <<given, unpacking>> /\ pc \notin Untarring
           /\ pc' \in Untarring => pc \in Ahead /\ pc' = "header"
           /\ pc' \in Ahead => pc \in Ahead
           /\ pc' \in Ahead \cup Untarring \cup Behind1
<1> USE DEF Goto, Return, Ahead, Untarring, Behind1
<1>1. CASE mount_check \/ CheckPaths \/ RefuseReverted \/ RemoveVarJb \/ FindHash
  BY <1>1 DEF mount_check, CheckPaths, RefuseReverted, RemoveVarJb, FindHash
<1>2. CASE Open \/ decompress \/ OpenTar
  BY <1>2 DEF Open, decompress, OpenTar
<1>3. CASE PostInstall \/ RenameJb \/ RenameVar \/ Link \/ EnterVarJb
  BY <1>3 DEF PostInstall, RenameJb, RenameVar, Link, EnterVarJb
<1>4. CASE RunScript \/ InstallDeb \/ Dotfile \/ create_directories
  BY <1>4 DEF RunScript, InstallDeb, Dotfile, create_directories
<1>5. QED
  BY <1>1, <1>2, <1>3, <1>4

LEMMA OtherSteps ==
    ASSUME UntarInv,
           \/ mount_check \/ CheckPaths \/ RefuseReverted \/ RemoveVarJb \/ FindHash
           \/ Open \/ decompress \/ OpenTar
           \/ PostInstall \/ RenameJb \/ RenameVar \/ Link \/ EnterVarJb
           \/ RunScript \/ InstallDeb \/ Dotfile \/ create_directories
    PROVE  UntarInv'
<1>1. /\ UNCHANGED <<given, unpacking>> /\ pc \notin Untarring
      /\ pc' \in Untarring => pc \in Ahead /\ pc' = "header"
      /\ pc' \in Ahead => pc \in Ahead
      /\ pc' \in Ahead \cup Untarring \cup Behind1
  BY QuietSteps
<1>2. /\ varjb' \in {"none", "link", "dangling", "empty"} /\ ret' \in {0, 1, -1}
      /\ moved' \in 0..2
  <2> USE DEF UntarInv, TypeOK, Goto, Return, result
  <2>1. CASE mount_check \/ CheckPaths \/ RefuseReverted \/ RemoveVarJb \/ FindHash
    BY <2>1 DEF mount_check, CheckPaths, RefuseReverted, RemoveVarJb, FindHash
  <2>2. CASE Open \/ decompress \/ OpenTar
    BY <2>2 DEF Open, decompress, OpenTar
  <2>3. CASE PostInstall \/ RenameJb \/ RenameVar \/ Link \/ EnterVarJb
    BY <2>3 DEF PostInstall, RenameJb, RenameVar, Link, EnterVarJb
  <2>4. CASE RunScript \/ InstallDeb \/ Dotfile \/ create_directories
    BY <2>4 DEF RunScript, InstallDeb, Dotfile, create_directories
  <2>5. QED
    BY <2>1, <2>2, <2>3, <2>4
<1>3. linked' \in BOOLEAN /\ marked' \in BOOLEAN
  <2>1. linked \in BOOLEAN /\ marked \in BOOLEAN
    BY Zenon DEF UntarInv, TypeOK
  <2>2. linked' \in {linked, TRUE} /\ marked' \in {marked, TRUE}
    <3>1. CASE mount_check \/ CheckPaths \/ RefuseReverted \/ RemoveVarJb \/ FindHash
      BY <3>1, Zenon DEF mount_check, CheckPaths, RefuseReverted, RemoveVarJb, FindHash, result
    <3>2. CASE Open \/ decompress \/ OpenTar
      BY <3>2, Zenon DEF Open, decompress, OpenTar, result
    <3>3. CASE PostInstall \/ RenameJb \/ RenameVar
      BY <3>3, Zenon DEF PostInstall, RenameJb, RenameVar, result
    <3>4. CASE Link \/ EnterVarJb
      BY <3>4, Zenon DEF Link, EnterVarJb, result
    <3>5. CASE RunScript \/ InstallDeb \/ Dotfile \/ create_directories
      BY <3>5, Zenon DEF RunScript, InstallDeb, Dotfile, create_directories, result
    <3>6. QED
      BY <3>1, <3>2, <3>3, <3>4, <3>5
  <2>3. QED
    BY <2>1, <2>2, Zenon
<1>4. faults' \in 0..MaxFaults
  <2>1. Fine \/ Fault
    <3>1. CASE mount_check \/ CheckPaths \/ RefuseReverted \/ RemoveVarJb \/ FindHash
      BY <3>1 DEF mount_check, CheckPaths, RefuseReverted, RemoveVarJb, FindHash, Fine
    <3>2. CASE Open \/ decompress \/ OpenTar
      BY <3>2 DEF Open, decompress, OpenTar
    <3>3. CASE PostInstall \/ RenameJb \/ RenameVar \/ Link \/ EnterVarJb
      BY <3>3 DEF PostInstall, RenameJb, RenameVar, Link, EnterVarJb
    <3>4. CASE RunScript \/ InstallDeb \/ Dotfile \/ create_directories
      BY <3>4 DEF RunScript, InstallDeb, Dotfile, create_directories
    <3>5. QED
      BY <3>1, <3>2, <3>3, <3>4
  <2>2. QED
    BY <2>1, FaultsBounded DEF UntarInv, TypeOK
<1>5. TypeOK'
  <2>1. UNCHANGED <<archive, pos, entry, filesize, f, tree, failed, troubled>> /\ TypeOK
    BY <1>1 DEF given, unpacking, UntarInv
  <2>2. Nodes' = Nodes
    BY <2>1 DEF Nodes, Pieces
  <2>3. /\ pos' \in 1..TapeLength(archive') /\ entry' \in 0..Len(archive') /\ filesize' \in Nat
        /\ f' \in Paths \cup {None} /\ tree' \in [Paths -> Nodes'] /\ failed' \subseteq DOMAIN archive'
        /\ troubled' \subseteq DOMAIN archive'
    BY <2>1, <2>2 DEF TypeOK
  <2>4. pc' \in Ahead \cup Untarring \cup Behind1
    BY <1>1
  <2>5. QED
    BY <1>2, <1>3, <1>4, <2>3, <2>4, Zenon DEF TypeOK, Ahead, Untarring, Behind1
<1>6. QED
  BY <1>1, <1>5, QuietUntar

-----------------------------------------------------------------------------
(* The steps of untar. *)
LEMMA WithinTape ==
    ASSUME NEW ar \in Archives, NEW i \in 0..Len(ar), NEW p \in Nat \ {0}, p <= HeaderAt(ar, i + 1)
    PROVE  p \in 1..TapeLength(ar)
<1>1. Len(ar) \in Nat
  BY ArchiveFacts
<1>2. HeaderAt(ar, i + 1) <= HeaderAt(ar, Len(ar) + 1)
  BY <1>1, HeadersAscend
<1>3. HeaderAt(ar, i + 1) \in Nat /\ HeaderAt(ar, Len(ar) + 1) \in Nat
  BY <1>1, BlocksFinite
<1>4. QED
  BY <1>2, <1>3 DEF TapeLength

(* What every step of untar leaves as typed as it was. *)
LEMMA TypedStep ==
    ASSUME TypeOK, UNCHANGED <<given, varjb, ret, result>>, Fine \/ Fault,
           pc' \in {"header", "entry", "data", "post"},
           archive \in Archives, entry' \in 0..Len(archive), pos' \in Nat \ {0},
           pos' <= HeaderAt(archive, entry' + 1),
           filesize' \in Nat, f' \in Paths \cup {None}, tree' \in [Paths -> Nodes],
           failed' \subseteq DOMAIN archive, troubled' \subseteq DOMAIN archive
    PROVE  TypeOK'
<1>1. UNCHANGED <<archive, varjb, ret, moved, linked, marked>>
  BY DEF given, result
<1>2. Nodes' = Nodes
  BY <1>1 DEF Nodes, Pieces
<1>3. pos' \in 1..TapeLength(archive') /\ faults' \in 0..MaxFaults
  BY <1>1, WithinTape, FaultsBounded DEF TypeOK
<1>4. /\ varjb' \in {"none", "link", "dangling", "empty"} /\ ret' \in {0, 1, -1} /\ moved' \in 0..2
  BY <1>1 DEF TypeOK
<1>5. linked' \in BOOLEAN /\ marked' \in BOOLEAN
  BY <1>1, Zenon DEF TypeOK
<1>6. QED
  BY <1>1, <1>2, <1>3, <1>4, <1>5 DEF TypeOK

LEMMA UntarFacts ==
    ASSUME UntarInv
    PROVE  /\ archive \in Archives /\ Len(archive) \in Nat /\ DOMAIN archive = 1..Len(archive)
           /\ entry \in 0..Len(archive) /\ pos \in Nat \ {0} /\ filesize \in Nat
           /\ f \in Paths \cup {None} /\ tree \in [Paths -> Nodes] /\ failed \subseteq DOMAIN archive
           /\ troubled \subseteq DOMAIN archive
           /\ HeaderAt(archive, entry + 1) \in Nat /\ pos <= HeaderAt(archive, entry + 1)
           /\ entry # 0 => /\ HeaderAt(archive, entry) \in Nat /\ HeaderAt(archive, entry) < pos
                           /\ HeaderAt(archive, entry + 1)
                                = HeaderAt(archive, entry) + 1 + DataBlocks(archive[entry])
                           /\ archive[entry] \in Entries /\ DataBlocks(archive[entry]) \in Nat
<1>1. /\ archive \in Archives /\ Len(archive) \in Nat /\ DOMAIN archive = 1..Len(archive)
      /\ entry \in 0..Len(archive)
  BY ArchiveFacts DEF UntarInv, GivenInv, TypeOK
<1>2. TapeLength(archive) \in Nat
  BY <1>1, BlocksFinite DEF TapeLength
<1>3. HeaderAt(archive, entry + 1) \in Nat
  BY <1>1, BlocksFinite
<1>4. entry # 0 => entry \in DOMAIN archive
  BY <1>1
<1>5. entry # 0 => /\ HeaderAt(archive, entry) \in Nat
                   /\ HeaderAt(archive, entry + 1)
                        = HeaderAt(archive, entry) + 1 + DataBlocks(archive[entry])
                   /\ archive[entry] \in Entries /\ DataBlocks(archive[entry]) \in Nat
  BY <1>1, <1>4, BlocksFinite, HeaderNext, ArchiveFacts
<1>6. QED
  BY <1>1, <1>2, <1>3, <1>5 DEF UntarInv, TypeOK, PlaceInv

(* It stops, wherever it is. *)
LEMMA CutStep ==
    ASSUME UntarInv, UNCHANGED <<given, varjb, ret, unpacking, result>>, Fine \/ Fault, pc' = "post",
           pc = "header" \/ (pc = "data" /\ filesize > 0)
    PROVE  UntarInv'
<1>1. UNCHANGED <<device, place, archive, pos, entry, filesize, f, tree, failed, troubled>>
  BY DEF given, unpacking
<1>2. TypeOK'
  BY <1>1, UntarFacts, TypedStep DEF UntarInv
<1>3. Through' = Through
  BY <1>1 DEF Through
<1>4. KeptInv'
  BY <1>1, <1>3 DEF UntarInv, KeptInv, Alone, InPlace, Whole, FirstBlocks, Name, IsDir
<1>5. QED
  BY <1>1, <1>2, <1>4 DEF UntarInv, GivenInv, PlaceInv, FileInv, Ahead

LEMMA NextEntry ==
    ASSUME UntarInv, ReadHeader, pc' = "entry"
    PROVE  /\ entry' = entry + 1 /\ entry + 1 \in DOMAIN archive /\ pos' = pos + 1 /\ Fine
           /\ UNCHANGED <<ret, filesize, f, tree, failed, troubled>>
<1> DEFINE block == BlockAt(archive, pos)
<1>1. /\ IsHeader(block) /\ Fine /\ pos' = pos + 1 /\ entry' = block.of
      /\ UNCHANGED <<ret, filesize, f, tree, failed, troubled>>
  BY DEF ReadHeader, Untarred, Goto
<1>2. pos = HeaderAt(archive, entry + 1)
  BY DEF ReadHeader, UntarInv, PlaceInv
<1>3. entry + 1 \in DOMAIN archive
  <2>1. entry = Len(archive) => block = Zeros
    BY <1>2, UntarFacts, ZerosAtTheEnd
  <2>2. QED
    BY <1>1, <2>1, UntarFacts DEF IsHeader
<1>4. block = [of |-> entry + 1, n |-> 0]
  <2>1. DataBlocks(archive[entry + 1]) \in Nat
    BY <1>3, UntarFacts, ArchiveFacts
  <2>2. pos = HeaderAt(archive, entry + 1) + 0 /\ 0 \in 0..DataBlocks(archive[entry + 1])
    BY <1>2, <2>1, UntarFacts
  <2>3. QED
    BY <1>3, <2>2, UntarFacts, BlockThere
<1>5. QED
  BY <1>1, <1>3, <1>4

LEMMA ReadHeaderStep == UntarInv /\ ReadHeader => UntarInv'
<1> SUFFICES ASSUME UntarInv, ReadHeader PROVE UntarInv'
  OBVIOUS
<1>1. UNCHANGED <<given, varjb, result>> /\ pc = "header"
  BY DEF ReadHeader
<1>2. CASE UNCHANGED <<unpacking, ret>> /\ pc' = "post" /\ (Fine \/ Fault)
  BY <1>1, <1>2, CutStep
<1>3. CASE pc' = "entry"
  <2>1. UNCHANGED <<device, place, archive>>
    BY <1>1 DEF given
  <2>2. pos = HeaderAt(archive, entry + 1) /\ filesize = 0
    BY <1>1 DEF UntarInv, PlaceInv
  <2>3. /\ entry' = entry + 1 /\ entry + 1 \in DOMAIN archive /\ pos' = pos + 1 /\ Fine
        /\ UNCHANGED <<ret, filesize, f, tree, failed, troubled>>
    BY <1>3, NextEntry
  <2>4. DataBlocks(archive[entry + 1]) \in Nat
    BY <2>3, UntarFacts, ArchiveFacts
  <2>5. HeaderAt(archive, entry' + 1) = pos + 1 + DataBlocks(archive[entry + 1])
    BY <2>2, <2>3, UntarFacts, HeaderNext
  <2>6. pos' <= HeaderAt(archive, entry' + 1) /\ HeaderAt(archive, entry') = pos
    BY <2>2, <2>3, <2>4, <2>5, UntarFacts
  <2>7. TypeOK'
    BY <1>1, <1>3, <2>3, <2>6, UntarFacts, TypedStep DEF UntarInv
  <2>8. PlaceInv'
    BY <1>3, <2>1, <2>2, <2>3, <2>6, UntarFacts DEF PlaceInv, Ahead
  <2>9. Through' = Through
    BY <1>1, <1>3, <2>2, <2>3, UntarFacts DEF Through
  <2>10. KeptInv'
    BY <1>1, <1>3, <2>1, <2>3, <2>9 DEF UntarInv, KeptInv, Alone, InPlace, Whole, FirstBlocks, Name, IsDir
  <2>11. QED
    BY <1>3, <2>1, <2>7, <2>8, <2>10 DEF UntarInv, GivenInv, FileInv
<1>4. QED
  BY <1>2, <1>3 DEF ReadHeader, Untarred, Goto

LEMMA CloseFileStep == UntarInv /\ CloseFile => UntarInv'
<1> SUFFICES ASSUME UntarInv, CloseFile PROVE UntarInv'
  OBVIOUS
<1>1. /\ UNCHANGED <<given, varjb, ret, result, pos, entry, filesize, tree, failed, troubled>>
      /\ pc = "data" /\ pc' = "header" /\ f' = None /\ Fine /\ filesize = 0
  BY UntarFacts DEF CloseFile, Goto, Fine
<1>2. UNCHANGED <<device, place, archive>>
  BY <1>1 DEF given
<1>3. pos = HeaderAt(archive, entry + 1) /\ entry # 0
  BY <1>1, Sizes, UntarFacts DEF UntarInv, PlaceInv
<1>4. TypeOK'
  BY <1>1, UntarFacts, TypedStep DEF UntarInv
<1>5. PlaceInv'
  BY <1>1, <1>2, <1>3, UntarFacts DEF PlaceInv, Ahead
<1>6. ASSUME NEW i \in Through' \ failed', Alone(i)' PROVE InPlace(i)'
  <2>1. i \in 1..entry /\ i \notin failed /\ Alone(i)
    BY <1>1, <1>2, <1>6 DEF Through, Alone
  <2>2. InPlace(i)' <=> InPlace(i)
    BY <1>1, <1>2 DEF InPlace, Whole, FirstBlocks, Name, IsDir
  <2>3. CASE i # entry
    <3>1. i \in Through \ failed
      BY <1>1, <2>1, <2>3, UntarFacts DEF Through
    <3>2. QED
      BY <1>1, <2>1, <2>2, <3>1 DEF UntarInv, KeptInv
  <2>4. CASE i = entry
    <3>1. BlocksRead = DataBlocks(archive[entry])
      BY <1>3, UntarFacts DEF BlocksRead
    <3>2. QED
      BY <1>1, <2>1, <2>2, <2>4, <3>1 DEF UntarInv, FileInv, InPlace, Whole, Name, IsDir
  <2>5. QED
    BY <2>3, <2>4
<1>7. KeptInv'
  BY <1>6 DEF KeptInv
<1>8. QED
  BY <1>1, <1>2, <1>4, <1>5, <1>7 DEF UntarInv, GivenInv, FileInv

LEMMA OneMoreBlock ==
    ASSUME NEW i, NEW k \in Nat, NEW piece,
           piece = [block |-> [of |-> i, n |-> k + 1],
                    bytes |-> Smaller(Block, archive[i].size - k * Block)],
           NEW S, FirstBlocks(i, k) \in Seq(S), piece \in S
    PROVE  Append(FirstBlocks(i, k), piece) = FirstBlocks(i, k + 1)
<1> DEFINE s == FirstBlocks(i, k)
           t == FirstBlocks(i, k + 1)
           at(n) == [block |-> [of |-> i, n |-> n],
                     bytes |-> Smaller(Block, archive[i].size - (n - 1) * Block)]
<1>1. s = [n \in 1..k |-> at(n)] /\ t = [n \in 1..k + 1 |-> at(n)]
  BY DEF FirstBlocks
<1>2. piece = at(k + 1)
  <2>1. (k + 1) - 1 = k
    OBVIOUS
  <2>2. QED
    BY <2>1
<1>3. s \in Seq(S)
  OBVIOUS
<1> HIDE DEF s, t, at
<1>4. Len(s) = k
  <2>1. DOMAIN s = 1..k
    BY <1>1
  <2>2. Len(s) \in Nat /\ DOMAIN s = 1..Len(s)
    BY <1>3, LenProperties
  <2>3. QED
    BY <2>1, <2>2
<1>5. /\ Append(s, piece) \in Seq(S) /\ Len(Append(s, piece)) = k + 1
      /\ \A n \in 1..k : Append(s, piece)[n] = s[n]
      /\ Append(s, piece)[k + 1] = piece
  BY <1>3, <1>4, AppendProperties
<1>6. Append(s, piece) \in [1..k + 1 -> S]
  BY <1>5, LenProperties
<1>7. \A n \in 1..k + 1 : Append(s, piece)[n] = t[n]
  BY <1>1, <1>2, <1>5
<1>8. Append(s, piece) = t
  BY <1>1, <1>6, <1>7
<1>9. QED
  BY <1>8 DEF s, t

LEMMA ReadDataStep == UntarInv /\ ReadData => UntarInv'
<1> SUFFICES ASSUME UntarInv, ReadData PROVE UntarInv'
  OBVIOUS
<1> DEFINE e == archive[entry]
           k == BlocksRead
           piece == [block |-> BlockAt(archive, pos), bytes |-> Takes(filesize)]
           Written == /\ Fine
                      /\ tree' = IF f = None THEN tree
                                 ELSE [tree EXCEPT ![f].data = Append(@, piece)]
                      /\ UNCHANGED <<f, failed>>
           Lost == Fault /\ f # None /\ f' = None /\ failed' = failed \cup {entry} /\ UNCHANGED tree
<1>1. UNCHANGED <<given, varjb, result>> /\ pc = "data" /\ filesize > 0
  BY DEF ReadData
<1>2. CASE Fault /\ UNCHANGED <<unpacking, ret>> /\ pc' = "post"
  BY <1>1, <1>2, CutStep
<1>3. CASE /\ Written \/ Lost
           /\ filesize' = filesize - Takes(filesize) /\ pos' = pos + 1
           /\ pc' = "data" /\ UNCHANGED <<entry, troubled, ret>>
  <2>1. UNCHANGED <<device, place, archive>> /\ Block \in Nat \ {0}
    BY <1>1, BootstrapAssumption DEF given
  <2>2. /\ entry # 0 /\ e \in Entries /\ e.type = "file" /\ e.size \in Nat
        /\ filesize = e.size - k * Block
    BY <1>1, UntarFacts DEF UntarInv, PlaceInv, FileInv, Entries
  <2>3. /\ Takes(filesize) \in 1..Block /\ filesize' \in Nat /\ BlocksFor(filesize') \in Nat
        /\ BlocksFor(filesize) = BlocksFor(filesize') + 1
    BY <1>1, <1>3, Sizes, UntarFacts
  <2>4. /\ k \in Nat /\ k + 1 \in 0..DataBlocks(e) /\ pos = HeaderAt(archive, entry) + (k + 1)
        /\ BlocksRead' = k + 1
        /\ pos' \in Nat \ {0} /\ pos' + BlocksFor(filesize') = HeaderAt(archive, entry' + 1)
        /\ pos' <= HeaderAt(archive, entry' + 1)
    <3>1. entry # 0 /\ pos + BlocksFor(filesize) = HeaderAt(archive, entry + 1)
      BY <1>1 DEF UntarInv, PlaceInv
    <3>2. /\ HeaderAt(archive, entry) \in Nat /\ HeaderAt(archive, entry) < pos
          /\ HeaderAt(archive, entry + 1) = HeaderAt(archive, entry) + 1 + DataBlocks(e)
          /\ DataBlocks(e) \in Nat /\ pos \in Nat
      BY <3>1, UntarFacts
    <3>3. PICK h \in Nat : h = HeaderAt(archive, entry)
      BY <3>2
    <3>4. PICK d \in Nat : d = DataBlocks(e)
      BY <3>2
    <3>5. PICK b \in Nat : b = BlocksFor(filesize')
      BY <2>3
    <3>6. HeaderAt(archive, entry' + 1) = h + 1 + d /\ pos' = pos + 1
      BY <1>3, <3>2, <3>3, <3>4
    <3>7. pos + b + 1 = h + 1 + d
      BY <2>3, <3>1, <3>2, <3>3, <3>4, <3>5
    <3>8. k = pos - h - 1 /\ BlocksRead' = pos' - h - 1
      BY <1>3, <2>1, <3>3 DEF BlocksRead
    <3> HIDE DEF e, k
    <3>9. k \in Nat /\ k + 1 \in 0..d /\ pos = h + (k + 1) /\ BlocksRead' = k + 1
      BY <3>2, <3>3, <3>6, <3>7, <3>8
    <3>10. pos' \in Nat \ {0} /\ pos' + b = h + 1 + d /\ pos' <= h + 1 + d
      BY <3>2, <3>3, <3>6, <3>7
    <3>11. QED
      BY <3>3, <3>4, <3>5, <3>6, <3>9, <3>10
  <2>5. BlockAt(archive, pos) = [of |-> entry, n |-> k + 1]
    <3>1. entry \in DOMAIN archive
      BY <2>2, UntarFacts
    <3> HIDE DEF k
    <3>2. BlockAt(archive, HeaderAt(archive, entry) + (k + 1)) = [of |-> entry, n |-> k + 1]
      <4>1. PICK m \in 0..DataBlocks(archive[entry]) : m = k + 1
        BY <2>4
      <4>2. BlockAt(archive, HeaderAt(archive, entry) + m) = [of |-> entry, n |-> m]
        BY <3>1, UntarFacts, BlockThere
      <4>3. QED
        BY <4>1, <4>2
    <3>3. QED
      BY <2>4, <3>2
  <2>6. /\ piece = [block |-> [of |-> entry, n |-> k + 1],
                    bytes |-> Smaller(Block, e.size - k * Block)]
        /\ piece \in Pieces
    <3>1. Takes(filesize) = Smaller(Block, e.size - k * Block)
      BY <2>1, <2>2, UntarFacts DEF Takes, Smaller
    <3>2. [of |-> entry, n |-> k + 1] \in [of : 0..Len(archive), n : Nat]
      BY <2>4, UntarFacts
    <3>3. QED
      BY <2>3, <2>5, <3>1, <3>2 DEF Pieces
  <2> HIDE DEF piece
  <2>7. filesize' > 0 => filesize' = e.size - (k + 1) * Block
    <3>1. filesize' > 0 => Takes(filesize) = Block
      BY <1>3, <2>1, UntarFacts DEF Takes, Smaller
    <3>2. (k + 1) * Block = k * Block + Block
      BY <2>1, <2>4
    <3>3. k * Block \in Nat
      BY <2>1, <2>4
    <3>4. QED
      BY <1>3, <2>1, <2>2, <3>1, <3>2, <3>3, UntarFacts
  <2>8. f # None => /\ f = e.name /\ f \in Paths /\ tree[f].kind = "file" /\ tree[f] \in Nodes
                    /\ tree[f].data = FirstBlocks(entry, k) /\ tree[f].data \in Seq(Pieces)
    BY <1>1, UntarFacts DEF UntarInv, FileInv, Nodes
  <2>9. f # None => Append(tree[f].data, piece) = FirstBlocks(entry, k + 1)
                     /\ Append(tree[f].data, piece) \in Seq(Pieces)
    BY <2>4, <2>6, <2>8, OneMoreBlock, AppendProperties
  <2>10. /\ tree' \in [Paths -> Nodes] /\ f' \in Paths \cup {None}
         /\ \A q \in Paths : f = None \/ q # f => tree'[q] = tree[q]
         /\ f' # None => /\ f' = f /\ tree'[f].kind = "file"
                         /\ tree'[f].data = FirstBlocks(entry, k + 1)
         /\ failed \subseteq failed' /\ failed' \subseteq failed \cup {entry}
         /\ entry \notin failed' => f' = f
    <3>1. CASE Written
      <4>1. CASE f = None
        BY <3>1, <4>1, UntarFacts
      <4>2. CASE f # None
        <5>1. tree' = [tree EXCEPT ![f].data = Append(tree[f].data, piece)]
          BY <3>1, <4>2, <2>8, UntarFacts
        <5>2. [tree[f] EXCEPT !.data = Append(tree[f].data, piece)] \in Nodes
          BY <4>2, <2>8, <2>9 DEF Nodes
        <5>3. tree' = [tree EXCEPT ![f] = [tree[f] EXCEPT !.data = Append(tree[f].data, piece)]]
          BY <4>2, <5>1, <2>8, UntarFacts
        <5>4. tree'[f] = [tree[f] EXCEPT !.data = Append(tree[f].data, piece)]
          BY <4>2, <5>3, <2>8, UntarFacts
        <5>5. tree'[f].kind = "file" /\ tree'[f].data = Append(tree[f].data, piece)
          BY <4>2, <5>4, <2>8 DEF Nodes
        <5>6. tree' \in [Paths -> Nodes] /\ \A q \in Paths : q # f => tree'[q] = tree[q]
          BY <4>2, <5>2, <5>3, <2>8, UntarFacts
        <5>7. QED
          BY <3>1, <4>2, <5>5, <5>6, <2>9, UntarFacts
      <4>3. QED
        BY <4>1, <4>2
    <3>2. CASE Lost
      BY <3>2, UntarFacts
    <3>3. QED
      BY <1>3, <3>1, <3>2
  <2>11. TypeOK'
    <3>1. Fine \/ Fault
      BY <1>3
    <3>2. failed' \subseteq DOMAIN archive /\ entry' \in 0..Len(archive)
      BY <1>3, <2>2, <2>10, UntarFacts
    <3>3. QED
      BY <1>1, <1>3, <2>3, <2>4, <2>10, <3>1, <3>2, UntarFacts, TypedStep DEF UntarInv
  <2>12. PlaceInv'
    <3>1. HeaderAt(archive, entry) < pos' /\ entry' = entry /\ entry # 0
      BY <1>3, <2>2, UntarFacts
    <3>2. QED
      BY <1>3, <2>1, <2>4, <3>1 DEF PlaceInv, Ahead
  <2>13. FileInv'
    <3>1. entry \notin failed' => f' # None
      BY <1>1, <2>2, <2>10 DEF UntarInv, FileInv
    <3>2. QED
      BY <1>3, <2>1, <2>2, <2>4, <2>7, <2>8, <2>10, <3>1 DEF FileInv, FirstBlocks
  <2>14. KeptInv'
    <3> SUFFICES ASSUME NEW i \in Through' \ failed', Alone(i)' PROVE InPlace(i)'
      BY DEF KeptInv
    <3>1. i \in 1..entry - 1 /\ i \in Through /\ i \notin failed /\ Alone(i)
      BY <1>1, <1>3, <2>1, <2>10 DEF Through, Alone
    <3>2. InPlace(i)
      BY <1>1, <3>1 DEF UntarInv, KeptInv
    <3>3. archive[i].name # e.name /\ archive[i].name \in Paths
      BY <2>2, <3>1, UntarFacts, NamesArePaths DEF Alone
    <3>4. tree'[archive[i].name] = tree[archive[i].name]
      BY <2>8, <2>10, <3>3
    <3>5. QED
      BY <2>1, <3>2, <3>4 DEF InPlace, Whole, FirstBlocks, Name, IsDir
  <2>15. QED
    BY <2>1, <2>11, <2>12, <2>13, <2>14 DEF UntarInv, GivenInv
<1>4. QED
  BY <1>2, <1>3 DEF ReadData, Untarred, Goto

(* What an entry does to the tree: what is there stays, of the same kind and
   with the same data, unless it has the name of a file that is opened. *)
LEMMA NodeFacts ==
    ASSUME GivenInv
    PROVE  /\ Node("sym", 0) \in Nodes /\ Absent \in Nodes /\ Node("dir", 0) \in Nodes
           /\ \A n \in Nodes : [n EXCEPT !.kind = "hard"] \in Nodes
           /\ \A o \in 0..Len(archive) :
                /\ Node("dir", o) \in Nodes /\ Node("file", o) \in Nodes
                /\ \A n \in Nodes : /\ [n EXCEPT !.owner = o] \in Nodes
                                    /\ [n EXCEPT !.owner = o].kind = n.kind
                                    /\ [n EXCEPT !.owner = o].data = n.data
BY ArchiveFacts DEF GivenInv, Node, Absent, Nodes

Stays(n, m) == n.kind # "absent" => m.kind = n.kind /\ m.data = n.data

LEMMA CreateDirKeeps ==
    ASSUME GivenInv, entry \in 0..Len(archive), tree \in [Paths -> Nodes], NEW p, NEW luck
    PROVE  /\ create_dir(p, entry, luck) \in [Paths -> Nodes]
           /\ \A q \in Paths : Stays(tree[q], create_dir(p, entry, luck)[q])
<1> DEFINE t == create_dir(p, entry, luck)
<1>1. ASSUME NEW q \in Paths
      PROVE  /\ t[q] \in {tree[q], [tree[q] EXCEPT !.owner = entry], Absent,
                          Node("dir", entry), Node("dir", 0)}
             /\ Exists(q) => t[q] \in {tree[q], [tree[q] EXCEPT !.owner = entry]}
  <2>1. tree[q] \in Nodes
    OBVIOUS
  <2>2. [tree[q] EXCEPT !.owner = Mine(@, q, entry, luck)] \in {tree[q], [tree[q] EXCEPT !.owner = entry]}
    BY <2>1 DEF Mine, Nodes
  <2>3. Mine(0, q, entry, luck) \in {0, entry}
    BY DEF Mine
  <2>4. QED
    BY <2>2, <2>3 DEF create_dir
<1>2. t = [q \in Paths |-> t[q]]
  BY DEF create_dir
<1> HIDE DEF t
<1>3. ASSUME NEW q \in Paths
      PROVE  t[q] \in Nodes /\ Stays(tree[q], t[q])
  <2> DEFINE m == [tree[q] EXCEPT !.owner = entry]
  <2>1. /\ tree[q] \in Nodes /\ Absent \in Nodes
        /\ Node("dir", entry) \in Nodes /\ Node("dir", 0) \in Nodes
        /\ m \in Nodes /\ m.kind = tree[q].kind /\ m.data = tree[q].data
    BY NodeFacts
  <2>2. /\ t[q] \in {tree[q], m, Absent, Node("dir", entry), Node("dir", 0)}
        /\ Exists(q) => t[q] \in {tree[q], m}
    BY <1>1
  <2> HIDE DEF m
  <2>3. QED
    BY <2>1, <2>2 DEF Stays, Exists
<1>4. t \in [Paths -> Nodes]
  BY <1>2, <1>3
<1>5. QED
  BY <1>3, <1>4 DEF t

LEMMA CreateFileKeeps ==
    ASSUME GivenInv, entry \in 0..Len(archive), tree \in [Paths -> Nodes],
           NEW p \in Paths, NEW luck
    PROVE  /\ create_file(p, entry, luck) \in [Paths -> Nodes]
           /\ \A q \in Paths \ {p} : Stays(tree[q], create_file(p, entry, luck)[q])
           /\ IsDir(p) => create_file(p, entry, luck)[p].kind = "dir"
<1> DEFINE t == IF Opens(tree, p, luck) /\ ~ luck.again THEN tree
                ELSE create_dir(Front(p), entry, luck)
           owner == Mine(t[p].owner, p, entry, luck)
           u == create_file(p, entry, luck)
<1>1. t \in [Paths -> Nodes] /\ \A q \in Paths : Stays(tree[q], t[q])
  BY CreateDirKeeps DEF Stays
<1>2. u = IF Opens(t, p, luck) THEN [t EXCEPT ![p] = Node("file", owner)]
          ELSE IF t[p].kind # "absent" THEN [t EXCEPT ![p].owner = owner] ELSE t
  BY DEF create_file
<1> HIDE DEF t, u
<1>3. owner \in 0..Len(archive)
  BY <1>1 DEF Mine, Nodes
<1> HIDE DEF owner
<1>4. [t EXCEPT ![p].owner = owner] = [t EXCEPT ![p] = [t[p] EXCEPT !.owner = owner]]
  BY <1>1
<1>5. /\ Node("file", owner) \in Nodes /\ [t[p] EXCEPT !.owner = owner] \in Nodes
      /\ [t[p] EXCEPT !.owner = owner].kind = t[p].kind
  BY <1>1, <1>3, NodeFacts
<1>6. /\ u \in [Paths -> Nodes] /\ \A q \in Paths \ {p} : u[q] = t[q]
      /\ u[p] \in {t[p], [t[p] EXCEPT !.owner = owner], Node("file", owner)}
      /\ u[p] = Node("file", owner) => ~ (t[p].kind = "dir")
  BY <1>1, <1>2, <1>4, <1>5 DEF Opens, Node
<1>7. \A q \in Paths \ {p} : Stays(tree[q], u[q])
  BY <1>1, <1>6
<1>8. IsDir(p) => u[p].kind = "dir"
  <2>1. IsDir(p) => t[p].kind = "dir"
    BY <1>1 DEF Stays, IsDir
  <2>2. QED
    BY <1>5, <1>6, <2>1
<1>9. QED
  BY <1>6, <1>7, <1>8 DEF u

LEMMA CreateLinkKeeps ==
    ASSUME GivenInv, entry \in 0..Len(archive), tree \in [Paths -> Nodes],
           NEW e \in Entries, e.name \in Paths, ~ Exists(e.name),
           e.type = "sym" \/ e.to \in Paths
    PROVE  /\ create_link(e) \in [Paths -> Nodes]
           /\ \A q \in Paths : Stays(tree[q], create_link(e)[q])
<1> DEFINE m == IF e.type = "sym" THEN Node("sym", 0) ELSE [tree[e.to] EXCEPT !.kind = "hard"]
<1>1. m \in Nodes
  BY NodeFacts
<1>2. create_link(e) = [tree EXCEPT ![e.name] = m]
  BY DEF create_link
<1>3. tree[e.name].kind = "absent"
  BY DEF Exists
<1> HIDE DEF m
<1>4. \A q \in Paths : Stays(tree[q], create_link(e)[q])
  BY <1>2, <1>3 DEF Stays
<1>5. QED
  BY <1>1, <1>2, <1>4

(* The entry that has been read. *)
LEMMA EntryFacts ==
    ASSUME UntarInv, entry # 0
    PROVE  LET e == archive[entry]
           IN  /\ GivenInv /\ tree \in [Paths -> Nodes] /\ entry \in 0..Len(archive)
               /\ entry \in DOMAIN archive /\ e \in Entries /\ e.name \in Paths
               /\ e.type = "hard" => e.to \in Paths
<1>1. /\ archive \in Archives /\ tree \in [Paths -> Nodes] /\ entry \in 0..Len(archive)
      /\ entry \in DOMAIN archive /\ archive[entry] \in Entries
  BY UntarFacts
<1>2. archive[entry].name \in Paths
  BY <1>1, NamesArePaths
<1>3. /\ archive[entry].to \in Paths \cup {None}
      /\ archive[entry].type = "hard" => archive[entry].to # None
  BY <1>1, BootstrapAssumption DEF Entries
<1>4. QED
  BY <1>1, <1>2, <1>3 DEF UntarInv

LEMMA ExtractedKeeps ==
    ASSUME UntarInv, entry # 0, NEW luck
    PROVE  LET e == archive[entry]
               t == Extracted(e, entry, luck)
           IN  /\ t \in [Paths -> Nodes] /\ e.name \in Paths
               /\ \A q \in Paths \ {e.name} : Stays(tree[q], t[q])
               /\ IsDir(e.name) => t[e.name].kind = "dir"
<1> DEFINE e == archive[entry]
           t == Extracted(e, entry, luck)
<1>1. /\ GivenInv /\ tree \in [Paths -> Nodes] /\ entry \in 0..Len(archive)
      /\ entry \in DOMAIN archive /\ e \in Entries /\ e.name \in Paths
      /\ e.type = "hard" => e.to \in Paths
  BY EntryFacts
<1> HIDE DEF e
<1>2. \A q \in Paths : Stays(tree[q], tree[q])
  BY DEF Stays
<1>3. CASE e.type = "dir"
  <2>1. t = create_dir(e.name, entry, luck)
    BY <1>3 DEF Extracted
  <2>2. QED
    BY <1>1, <2>1, CreateDirKeeps DEF Stays, IsDir, e
<1>4. CASE e.type = "file"
  <2>1. t = create_file(e.name, entry, luck)
    BY <1>4 DEF Extracted
  <2>2. QED
    BY <1>1, <2>1, CreateFileKeeps DEF e
<1>5. CASE e.type \in {"sym", "hard"} /\ CanLink(e, luck)
  <2>1. t = create_link(e) /\ ~ Exists(e.name)
    BY <1>5 DEF Extracted, CanLink
  <2>2. QED
    BY <1>1, <1>5, <2>1, CreateLinkKeeps DEF Stays, IsDir, e
<1>6. CASE e.type \notin {"dir", "file"} /\ ~ (e.type \in {"sym", "hard"} /\ CanLink(e, luck))
  <2>1. t = tree
    BY <1>6 DEF Extracted
  <2>2. QED
    BY <1>1, <1>2, <2>1 DEF IsDir, e
<1>7. QED
  BY <1>3, <1>4, <1>5, <1>6

LEMMA ExtractStep == UntarInv /\ Extract => UntarInv'
<1> SUFFICES ASSUME UntarInv, Extract PROVE UntarInv'
  OBVIOUS
<1> DEFINE e == archive[entry]
<1>1. /\ UNCHANGED <<device, place, archive, varjb, ret, pos, entry, result, given>>
      /\ pc = "entry" /\ pc' = "data" /\ filesize' = Follows(e)
  BY DEF Extract, Goto, given
<1>2. PICK luck \in Lucks(e.name) :
        /\ IF luck = Good THEN Fine ELSE Fault
        /\ tree' = Extracted(e, entry, luck)
        /\ f' = IF e.type = "file" /\ Made(e, luck) THEN e.name ELSE None
        /\ failed' = IF Made(e, luck) THEN failed ELSE failed \cup {entry}
        /\ troubled' = IF luck = Good THEN troubled ELSE troubled \cup {entry}
  BY Zenon DEF Extract
<1>3. /\ entry # 0 /\ pos = HeaderAt(archive, entry) + 1 /\ entry \in DOMAIN archive
      /\ e \in Entries
  BY <1>1, UntarFacts DEF UntarInv, PlaceInv
<1>4. /\ tree' \in [Paths -> Nodes] /\ e.name \in Paths
      /\ \A q \in Paths \ {e.name} : Stays(tree[q], tree'[q])
  BY <1>2, <1>3, ExtractedKeeps
<1>5. /\ filesize' \in Nat /\ BlocksFor(filesize') = DataBlocks(e)
      /\ e.type # "file" => filesize' = 0
      /\ e.type = "file" => filesize' = e.size
  <2>1. /\ e.type \in {"file", "dir", "sym", "hard", "other"} /\ e.size \in Nat
        /\ e.type \in {"sym", "hard", "other"} => e.size = 0
    BY <1>3, UntarFacts, BootstrapAssumption DEF Entries
  <2>2. BlocksFor(0) = 0
    BY Sizes
  <2>3. QED
    BY <1>1, <2>1, <2>2 DEF Follows, DataBlocks
<1>6. /\ f' \in Paths \cup {None} /\ failed' \in {failed, failed \cup {entry}}
      /\ troubled' \in {troubled, troubled \cup {entry}}
  BY <1>2, <1>4
<1>7. TypeOK'
  <2>1. Fine \/ Fault
    BY <1>2
  <2>2. failed' \subseteq DOMAIN archive /\ troubled' \subseteq DOMAIN archive
    BY <1>3, <1>6, UntarFacts
  <2>3. QED
    BY <1>1, <1>4, <1>5, <1>6, <2>1, <2>2, UntarFacts, TypedStep DEF UntarInv
<1>8. PlaceInv'
  <2>1. pos + DataBlocks(e) = HeaderAt(archive, entry + 1)
    BY <1>3, UntarFacts
  <2>2. QED
    BY <1>1, <1>3, <1>5, <2>1, UntarFacts DEF PlaceInv, Ahead
<1>9. FileInv'
  <2>1. BlocksRead' = 0
    BY <1>1, <1>3, UntarFacts DEF BlocksRead
  <2>2. e.size \in Nat /\ Block \in Nat
    BY <1>3, BootstrapAssumption DEF Entries
  <2>3. e.size - 0 * Block = e.size
    BY <2>2
  <2>4. FirstBlocks(entry, 0)' = << >>
    BY DEF FirstBlocks
  <2>5. f' # None => /\ e.type = "file" /\ f' = e.name /\ tree'[f'].kind = "file"
                     /\ tree'[f'].data = << >>
    BY <1>2 DEF Made
  <2>6. entry \notin failed' => Made(e, luck)
    BY <1>2
  <2>7. e.type = "file" /\ entry \notin failed' => f' # None
    <3>1. e.name # None
      BY <1>3, UntarFacts, BootstrapAssumption
    <3>2. QED
      BY <1>2, <2>6, <3>1
  <2>8. e.type = "dir" /\ entry \notin failed' => tree'[e.name].kind = "dir"
    BY <2>6 DEF Made
  <2>9. QED
    BY <1>1, <1>5, <2>1, <2>3, <2>4, <2>5, <2>7, <2>8 DEF FileInv
<1>10. KeptInv'
  <2> SUFFICES ASSUME NEW i \in Through' \ failed', Alone(i)' PROVE InPlace(i)'
    BY DEF KeptInv
  <2>1. i \in 1..entry - 1 /\ i \in Through /\ i \notin failed /\ Alone(i)
    BY <1>1, <1>6 DEF Through, Alone
  <2>2. InPlace(i)
    BY <1>1, <2>1 DEF UntarInv, KeptInv
  <2>3. archive[i].name # e.name /\ archive[i].name \in Paths
    BY <1>3, <2>1, UntarFacts, NamesArePaths DEF Alone
  <2>4. Stays(tree[archive[i].name], tree'[archive[i].name])
    BY <1>4, <2>3
  <2>5. Whole(i)' = Whole(i)
    BY <1>1 DEF Whole, FirstBlocks
  <2>6. QED
    BY <1>1, <2>2, <2>4, <2>5 DEF InPlace, Name, IsDir, Stays
<1>11. QED
  BY <1>1, <1>7, <1>8, <1>9, <1>10 DEF UntarInv, GivenInv

LEMMA UntarStep == UntarInv /\ [Next]_vars => UntarInv'
<1> SUFFICES ASSUME UntarInv, [Next]_vars PROVE UntarInv'
  OBVIOUS
<1>1. CASE ReadHeader \/ Extract \/ ReadData \/ CloseFile
  BY <1>1, ReadHeaderStep, ExtractStep, ReadDataStep, CloseFileStep
<1>2. CASE \/ mount_check \/ CheckPaths \/ RefuseReverted \/ RemoveVarJb \/ FindHash
           \/ Open \/ decompress \/ OpenTar
           \/ PostInstall \/ RenameJb \/ RenameVar \/ Link \/ EnterVarJb
           \/ RunScript \/ InstallDeb \/ Dotfile \/ create_directories
  BY <1>2, OtherSteps
<1>3. CASE UNCHANGED vars
  <2>1. UNCHANGED <<device, place, archive, varjb, pc, ret, pos, entry, filesize, f, tree, failed, troubled,
                    moved, linked, marked, faults>>
    BY <1>3 DEF vars, given, unpacking, result
  <2>2. GivenInv' /\ PlaceInv'
    BY <2>1 DEF UntarInv, GivenInv, PlaceInv
  <2>3. Nodes' = Nodes
    BY <2>1 DEF Nodes, Pieces
  <2>4. TypeOK'
    BY <2>1, <2>3, Zenon DEF UntarInv, TypeOK
  <2>5. FileInv'
    BY <2>1 DEF UntarInv, FileInv, BlocksRead, FirstBlocks
  <2>6. Through' = Through /\ \A i : (Alone(i)' <=> Alone(i)) /\ (InPlace(i)' <=> InPlace(i))
    BY <2>1 DEF Through, Alone, InPlace, Whole, FirstBlocks, Name, IsDir
  <2>7. KeptInv'
    BY <2>1, <2>6 DEF UntarInv, KeptInv
  <2>8. QED
    BY <2>2, <2>4, <2>5, <2>7 DEF UntarInv
<1>4. QED
  BY <1>1, <1>2, <1>3 DEF Next

(* Every variable keeps its type: untar never stands outside the archive and
   never has a negative number of bytes left, whatever is cut or damaged. *)
THEOREM InstallTyped == Spec => []TypeOK
<1>1. UntarInv => TypeOK
  BY DEF UntarInv
<1>2. QED
  BY InitUntar, UntarStep, <1>1, PTL DEF Spec

(* For any archive, any block size and any number of failures, untar reads
   each header where the last entry ends, and each file it could make has the
   bytes of its own entry. *)
THEOREM NothingIsShifted == Spec => []NothingShifts
<1>1. UntarInv => NothingShifts
  BY BehindIs DEF UntarInv, NothingShifts, KeptInv
<1>2. QED
  BY InitUntar, UntarStep, <1>1, PTL DEF Spec
(* A marked rootless bootstrap is linked and has a dpkg, and on any device each
   entry untar was through with, however the archive was cut and whatever
   failed on the way, is whole. *)
THEOREM DotfileMeansUsable == Spec => []MarkedIsUsable
<1>1. UntarInv /\ StepsInv => MarkedIsUsable
  BY BehindIs DEF UntarInv, KeptInv, StepsInv, MarkedIsLinked, Linked, MarkedIsUsable
<1>2. QED
  BY InitSteps, NextSteps, InitUntar, UntarStep, <1>1, PTL DEF Spec
-----------------------------------------------------------------------------
(* Whose everything is.  Nothing belongs to an entry that is not in it or is
   not it; in an archive in order what exists was there or belongs to an entry
   met, each directory met is there unless the system was in the way, and each
   entry met has what OwnersKept says. *)
Met == IF pc = "entry" THEN 1..entry - 1 ELSE 1..entry
HandedInv ==
    \A q \in Paths : tree[q].kind \in {"absent", "dir", "file"} /\ tree[q].owner # 0 =>
        tree[q].owner \in Met /\ q \in UpTo(Name(tree[q].owner))

Owned(i) ==
    archive[i].type \in {"dir", "file"} /\ tree[Name(i)].kind \in {"dir", "file"} =>
        \/ tree[Name(i)].owner = i
        \/ tree[Name(i)].owner = 0 /\ i \in troubled
        \/ HandedOver(i)
DirMet(i) ==
    archive[i].type = "dir" => IsDir(Name(i)) \/ (~ Exists(Name(i)) /\ i \in troubled)
OrderInv ==
    /\ \A q \in Paths : Exists(q) => q \in place \/ \E j \in Met : q \in UpTo(Name(j))
    /\ \A q \in place : q \in Paths /\ IsDir(q)
    /\ \A i \in Met : DirMet(i)
    /\ \A i \in Met : Owned(i)
OwnerInv == HandedInv /\ (Ordered(archive) => OrderInv)

LEMMA UpToFacts ==
    ASSUME NEW p \in Seq(STRING), p # None
    PROVE  /\ p \in UpTo(p)
           /\ \A q \in UpTo(p) : Len(q) \in Nat /\ Len(q) <= Len(p) /\ (Len(q) >= Len(p) => q = p)
<1>1. Len(p) \in Nat \ {0} /\ SubSeq(p, 1, Len(p)) = p
  BY EmptySeq, SubSeqFull DEF None
<1>2. Len(p) \in 1..Len(p)
  BY <1>1
<1>3. p \in UpTo(p)
  <2>1. SubSeq(p, 1, Len(p)) \in UpTo(p)
    BY <1>2 DEF UpTo
  <2>2. QED
    BY <1>1, <2>1
<1>4. ASSUME NEW q \in UpTo(p)
      PROVE  Len(q) \in Nat /\ Len(q) <= Len(p) /\ (Len(q) >= Len(p) => q = p)
  <2>1. PICK k \in 1..Len(p) : q = SubSeq(p, 1, k)
    BY DEF UpTo
  <2>2. \A m \in 1..k : p[m] \in STRING
    BY <1>1, <2>1, ElementOfSeq
  <2>3. Len(q) = k
    BY <1>1, <2>1, <2>2, SubSeqProperties
  <2>4. PICK m \in Nat \ {0} : m = Len(p)
    BY <1>1
  <2>5. k \in 1..m
    BY <2>4
  <2>6. k \in Nat /\ k <= m /\ (k >= m => k = m)
    BY <2>5
  <2>7. k = m => q = p
    BY <1>1, <2>1, <2>4, Zenon
  <2>8. QED
    BY <2>3, <2>4, <2>6, <2>7, Zenon
<1>5. QED
  BY <1>3, <1>4

LEMMA FrontFacts ==
    ASSUME NEW p \in Seq(STRING), Len(p) > 1
    PROVE  /\ Front(p) \in UpTo(p) \ {p} /\ Front(p) \in Seq(STRING) /\ Front(p) # None
           /\ UpTo(Front(p)) \subseteq UpTo(p) \ {p}
<1>1. PICK n \in Nat : n = Len(p)
  BY LenProperties
<1>2. n > 1 /\ n - 1 \in 1..n /\ \A m \in 1..n - 1 : p[m] \in STRING
  BY <1>1, ElementOfSeq
<1>3. Front(p) = SubSeq(p, 1, n - 1)
  BY <1>1 DEF Front
<1>4. Front(p) \in Seq(STRING) /\ Len(Front(p)) = n - 1
  BY <1>2, <1>3, SubSeqProperties
<1>5. Front(p) # None /\ p # None
  <2>1. Len(None) = 0
    BY DEF None
  <2>2. n - 1 # 0 /\ n # 0
    BY <1>2
  <2>3. QED
    BY <1>1, <1>4, <2>1, <2>2, Zenon
<1>6. ASSUME NEW k \in 1..n - 1
      PROVE  /\ SubSeq(Front(p), 1, k) = SubSeq(p, 1, k)
             /\ SubSeq(p, 1, k) \in UpTo(p) /\ SubSeq(p, 1, k) # p
  <2>1. k \in 1..n /\ k \in 1..((n - 1) - 1 + 1) /\ 1 \in 1..((n - 1) - 1 + 1) /\ 1 \in 1..n /\ k < n
    BY <1>2
  <2>2. SubSeq(SubSeq(p, 1, n - 1), 1, k) = SubSeq(p, 1 + 1 - 1, 1 + k - 1)
    BY <1>1, <1>2, <2>1, SubSeqOfSubSeq
  <2>3. 1 + 1 - 1 = 1 /\ 1 + k - 1 = k
    OBVIOUS
  <2>4. SubSeq(p, 1, k) \in UpTo(p)
    BY <1>1, <2>1 DEF UpTo
  <2>5. Len(SubSeq(p, 1, k)) = k
    BY <1>2, <2>1, SubSeqProperties
  <2>6. SubSeq(p, 1, k) # p
    <3>1. k # n
      BY <2>1
    <3>2. QED
      BY <1>1, <2>5, <3>1, Zenon
  <2>7. QED
    BY <1>3, <2>2, <2>3, <2>4, <2>6
<1>7. Front(p) \in UpTo(p) \ {p}
  BY <1>2, <1>3, <1>6
<1>8. UpTo(Front(p)) \subseteq UpTo(p) \ {p}
  <2>1. UpTo(Front(p)) = {SubSeq(Front(p), 1, k) : k \in 1..n - 1}
    BY <1>4 DEF UpTo
  <2>2. QED
    BY <1>6, <2>1
<1>9. QED
  BY <1>4, <1>5, <1>7, <1>8

(* What create_dir does to a path: nothing when it is not above the entry; it
   gives it to the entry when it is there, and makes it or not when it is not. *)
Above(n, m, i) ==
    \/ m = n
    \/ n.kind # "absent" /\ m.kind = n.kind /\ m.owner = i
    \/ n.kind = "absent" /\ m.kind = "dir" /\ m.owner \in {0, i}
    \/ n.kind = "absent" /\ m = Absent

LEMMA CreateDirAbove ==
    ASSUME tree \in [Paths -> Nodes], NEW p, NEW i, NEW luck, NEW q \in Paths
    PROVE  /\ q \notin UpTo(p) => create_dir(p, i, luck)[q] = tree[q]
           /\ Above(tree[q], create_dir(p, i, luck)[q], i)
<1> DEFINE m == create_dir(p, i, luck)[q]
           o == Mine(tree[q].owner, q, i, luck)
<1>1. tree[q] \in Nodes
  OBVIOUS
<1>2. o \in {tree[q].owner, i} /\ Mine(0, q, i, luck) \in {0, i}
  BY DEF Mine
<1>3. \/ m = tree[q]
      \/ q \in UpTo(p) /\ Exists(q) /\ m = [tree[q] EXCEPT !.owner = o]
      \/ q \in UpTo(p) /\ ~ Exists(q) /\ m = Node("dir", Mine(0, q, i, luck))
      \/ q \in UpTo(p) /\ ~ Exists(q) /\ m = Absent
  BY <1>1 DEF create_dir, Climbs, Nodes
<1> HIDE DEF m, o
<1>4. CASE Exists(q) /\ q \in UpTo(p) /\ m = [tree[q] EXCEPT !.owner = o]
  <2>1. m.kind = tree[q].kind /\ m.owner = o
    BY <1>1, <1>4 DEF Nodes
  <2>2. o = tree[q].owner => m = tree[q]
    BY <1>1, <1>4 DEF Nodes
  <2>3. QED
    BY <1>2, <1>4, <2>1, <2>2 DEF Above, Exists, m
<1>5. QED
  BY <1>2, <1>3, <1>4 DEF Above, Exists, Node, m

LEMMA CreateFileAbove ==
    ASSUME tree \in [Paths -> Nodes], GivenInv, entry \in 0..Len(archive),
           NEW p \in Paths, p \in Seq(STRING), Len(p) > 1, NEW luck
    PROVE  LET u == create_file(p, entry, luck)
           IN  /\ \A q \in Paths \ {p} : /\ q \notin UpTo(p) => u[q] = tree[q]
                                        /\ Above(tree[q], u[q], entry)
               /\ \/ u[p].kind = tree[p].kind
                  \/ u[p].kind = "file" /\ tree[p].kind \in {"absent", "file"}
               /\ \/ u[p].kind = "absent" /\ u[p] = tree[p]
                  \/ u[p].owner = Mine(tree[p].owner, p, entry, luck)
<1> DEFINE t == IF Opens(tree, p, luck) /\ ~ luck.again THEN tree
                ELSE create_dir(Front(p), entry, luck)
           owner == Mine(t[p].owner, p, entry, luck)
           u == create_file(p, entry, luck)
<1>1. \A q \in Paths : Above(tree[q], tree[q], entry)
  BY DEF Above
<1>2. \A q \in Paths : /\ q \notin UpTo(p) => t[q] = tree[q]
                       /\ Above(tree[q], t[q], entry)
  BY <1>1, CreateDirAbove, FrontFacts
<1>3. t[p] = tree[p] /\ t \in [Paths -> Nodes]
  BY CreateDirAbove, FrontFacts, CreateDirKeeps
<1>4. u = IF Opens(t, p, luck) THEN [t EXCEPT ![p] = Node("file", owner)]
          ELSE IF t[p].kind # "absent" THEN [t EXCEPT ![p].owner = owner] ELSE t
  BY DEF create_file
<1> HIDE DEF t, u, owner
<1>5. [t EXCEPT ![p].owner = owner] = [t EXCEPT ![p] = [t[p] EXCEPT !.owner = owner]]
  BY <1>3
<1>6. /\ [t[p] EXCEPT !.owner = owner].kind = t[p].kind
      /\ [t[p] EXCEPT !.owner = owner].owner = owner
  <2>1. t[p] \in Nodes
    BY <1>3
  <2>2. QED
    BY <2>1 DEF Nodes
<1>7. /\ \A q \in Paths \ {p} : u[q] = t[q]
      /\ \/ u[p] = Node("file", owner) /\ t[p].kind \in {"absent", "file"}
         \/ u[p] = [t[p] EXCEPT !.owner = owner]
         \/ t[p].kind = "absent" /\ u[p] = t[p]
  BY <1>3, <1>4, <1>5 DEF Opens
<1>8. owner = Mine(tree[p].owner, p, entry, luck)
  BY <1>3 DEF owner
<1>9. /\ \/ u[p].kind = tree[p].kind
         \/ u[p].kind = "file" /\ tree[p].kind \in {"absent", "file"}
      /\ (u[p].kind = "absent" /\ u[p] = tree[p]) \/ u[p].owner = owner
  <2>1. CASE u[p] = Node("file", owner) /\ t[p].kind \in {"absent", "file"}
    <3>1. Node("file", owner).kind = "file" /\ Node("file", owner).owner = owner
      BY DEF Node
    <3>2. QED
      BY <1>3, <2>1, <3>1
  <2>2. CASE u[p] = [t[p] EXCEPT !.owner = owner]
    <3>1. u[p].kind = t[p].kind /\ u[p].owner = owner
      BY <1>6, <2>2, Zenon
    <3>2. QED
      BY <1>3, <3>1
  <2>3. CASE t[p].kind = "absent" /\ u[p] = t[p]
    BY <1>3, <2>3
  <2>4. QED
    BY <1>7, <2>1, <2>2, <2>3
<1>10. QED
  BY <1>2, <1>7, <1>8, <1>9 DEF u

(* A call the system does not refuse: a directory is made, with all above it
   that is missing; and where the directory above is there, nothing else is
   touched. *)
LEMMA GoodDir ==
    ASSUME NEW p \in Paths, p \in Seq(STRING), p # None, NEW i,
           tree \in [Paths -> Nodes], \A q \in UpTo(p) : Exists(q) => IsDir(q)
    PROVE  /\ create_dir(p, i, Good)[p].kind # "absent"
           /\ ~ Exists(p) /\ Len(p) > 1 /\ IsDir(Front(p)) =>
                \A q \in Paths \ {p} : create_dir(p, i, Good)[q] = tree[q]
<1>1. p \in UpTo(p) /\ \A q \in UpTo(p) : Len(q) \in Nat /\ Len(q) <= Len(p) /\ (Len(q) >= Len(p) => q = p)
  BY UpToFacts
<1>2. Len(p) \in Nat
  BY <1>1
<1>3. p \in Climbs(p, Good)
  BY <1>1, <1>2 DEF Climbs
<1>4. create_dir(p, i, Good)[p].kind # "absent"
  <2>1. CASE Exists(p)
    <3>1. create_dir(p, i, Good)[p] = [tree[p] EXCEPT !.owner = Mine(@, p, i, Good)]
      BY <1>3, <2>1 DEF create_dir
    <3>2. tree[p] \in Nodes
      OBVIOUS
    <3>3. QED
      BY <2>1, <3>1, <3>2 DEF Exists, Nodes
  <2>2. CASE ~ Exists(p)
    <3>1. \A r \in UpTo(p) : IF Exists(r) THEN IsDir(r) ELSE r \notin Good.refused
      BY DEF Good
    <3>2. create_dir(p, i, Good)[p] = Node("dir", Mine(0, p, i, Good))
      BY <1>3, <2>2, <3>1 DEF create_dir
    <3>3. QED
      BY <3>2 DEF Node
  <2>3. QED
    BY <2>1, <2>2
<1>5. ASSUME ~ Exists(p), Len(p) > 1, IsDir(Front(p)), NEW q \in Paths \ {p}
      PROVE  create_dir(p, i, Good)[q] = tree[q]
  <2>1. p \in {s \in UpTo(p) \ Good.refused : Len(s) > 1 /\ ~ Good.again /\ Mkdir(s)}
    BY <1>1, <1>5 DEF Good, Mkdir
  <2>2. q \notin Climbs(p, Good)
    BY <1>1, <2>1 DEF Climbs
  <2>3. QED
    BY <2>2 DEF create_dir
<1>6. QED
  BY <1>4, <1>5

LEMMA GoodFile ==
    ASSUME NEW p \in Paths, NEW i, ~ Exists(p), IsDir(Front(p)), tree \in [Paths -> Nodes]
    PROVE  \A q \in Paths \ {p} : create_file(p, i, Good)[q] = tree[q]
<1>1. Opens(tree, p, Good) /\ ~ Good.again
  BY DEF Opens, Exists, IsDir, Good
<1>2. \E o : create_file(p, i, Good) = [tree EXCEPT ![p] = Node("file", o)]
  BY <1>1 DEF create_file
<1>3. QED
  BY <1>2

(* What an entry does to the other paths, and to its own. *)
LEMMA ExtractEffect ==
    ASSUME UntarInv, entry # 0, NEW luck
    PROVE  LET e == archive[entry]
               t == Extracted(e, entry, luck)
           IN  /\ \A q \in Paths \ {e.name} : /\ q \notin UpTo(e.name) => t[q] = tree[q]
                                             /\ Above(tree[q], t[q], entry)
               /\ e.type = "dir" => Above(tree[e.name], t[e.name], entry)
               /\ e.type \in {"dir", "file"} =>
                    \/ t[e.name].kind = "absent"
                    \/ t[e.name].owner = entry
                    \/ luck # Good /\ t[e.name].owner \in {0, tree[e.name].owner}
               /\ e.type = "file" => /\ \/ t[e.name].kind = tree[e.name].kind
                                        \/ t[e.name].kind = "file" /\ tree[e.name].kind \in {"absent", "file"}
                                     /\ t[e.name].owner \in {entry, tree[e.name].owner}
               /\ e.type \notin {"dir", "file"} =>
                    t[e.name] = tree[e.name] \/ t[e.name].kind \in {"sym", "hard"}
<1> DEFINE e == archive[entry]
           p == archive[entry].name
           t == Extracted(e, entry, luck)
<1>1. /\ GivenInv /\ tree \in [Paths -> Nodes] /\ entry \in 0..Len(archive)
      /\ entry \in DOMAIN archive /\ e \in Entries /\ p \in Paths
      /\ e.type = "hard" => e.to \in Paths
  BY EntryFacts
<1>2. /\ p \in Seq(STRING) /\ p # None
      /\ e.type # "dir" => Len(p) > 1
      /\ e.type \in {"file", "dir", "sym", "hard", "other"}
  BY <1>1, BootstrapAssumption DEF Entries, GivenInv
<1>3. \A q \in luck.kept : luck # Good
  BY DEF Good
<1>4. \A q : Above(tree[q], tree[q], entry)
  BY DEF Above
<1>5. e.name = p
  OBVIOUS
<1> HIDE DEF e, p
<1>6. CASE e.type = "dir"
  <2>1. t = create_dir(p, entry, luck)
    BY <1>5, <1>6 DEF Extracted
  <2>2. \A q \in Paths : /\ q \notin UpTo(p) => t[q] = tree[q]
                         /\ Above(tree[q], t[q], entry)
    BY <1>1, <2>1, CreateDirAbove
  <2>3. \/ t[p].kind = "absent" \/ t[p].owner = entry
        \/ luck # Good /\ t[p].owner \in {0, tree[p].owner}
    <3>1. p \in Climbs(p, luck)
      <4>1. p \in UpTo(p) /\ \A q \in UpTo(p) : Len(q) \in Nat /\ Len(q) <= Len(p)
        BY <1>2, UpToFacts
      <4>2. QED
        BY <4>1 DEF Climbs
    <3>2. \A o : Mine(o, p, entry, luck) = entry \/ (luck # Good /\ Mine(o, p, entry, luck) = o)
      BY <1>3 DEF Mine
    <3>3. CASE Exists(p)
      <4>1. t[p] = [tree[p] EXCEPT !.owner = Mine(@, p, entry, luck)] /\ tree[p] \in Nodes
        BY <1>1, <2>1, <3>1, <3>3 DEF create_dir
      <4>2. t[p].owner = Mine(tree[p].owner, p, entry, luck)
        BY <4>1 DEF Nodes
      <4>3. QED
        BY <3>2, <4>2
    <3>4. CASE ~ Exists(p)
      <4>1. t[p] \in {Node("dir", Mine(0, p, entry, luck)), Absent}
        BY <1>1, <2>1, <3>1, <3>4 DEF create_dir
      <4>2. t[p].kind = "absent" \/ t[p].owner = Mine(0, p, entry, luck)
        BY <4>1 DEF Node, Absent
      <4>3. QED
        BY <3>2, <4>2
    <3>5. QED
      BY <3>3, <3>4
  <2>4. QED
    BY <1>1, <1>5, <1>6, <2>2, <2>3 DEF e
<1>7. CASE e.type = "file"
  <2>1. t = create_file(p, entry, luck) /\ Len(p) > 1
    BY <1>2, <1>5, <1>7 DEF Extracted
  <2>2. /\ \A q \in Paths \ {p} : /\ q \notin UpTo(p) => t[q] = tree[q]
                                  /\ Above(tree[q], t[q], entry)
        /\ \/ t[p].kind = tree[p].kind
           \/ t[p].kind = "file" /\ tree[p].kind \in {"absent", "file"}
        /\ \/ t[p].kind = "absent" /\ t[p] = tree[p]
           \/ t[p].owner = Mine(tree[p].owner, p, entry, luck)
    BY <1>1, <1>2, <2>1, CreateFileAbove
  <2>3. \/ Mine(tree[p].owner, p, entry, luck) = entry
        \/ luck # Good /\ Mine(tree[p].owner, p, entry, luck) = tree[p].owner
    BY <1>3 DEF Mine
  <2> HIDE DEF t
  <2>4. /\ \/ t[p].kind = "absent" \/ t[p].owner = entry
           \/ luck # Good /\ t[p].owner \in {0, tree[p].owner}
        /\ t[p].owner \in {entry, tree[p].owner}
    BY <2>2, <2>3
  <2>5. QED
    BY <1>5, <1>7, <2>2, <2>4 DEF e, t
<1>8. CASE e.type \notin {"dir", "file"}
  <2>1. t = tree \/ (e.type \in {"sym", "hard"} /\ t = create_link(e))
    BY <1>8 DEF Extracted
  <2>2. ASSUME e.type \in {"sym", "hard"}, t = create_link(e)
        PROVE  t[p].kind \in {"sym", "hard"} /\ \A q \in Paths \ {p} : t[q] = tree[q]
    <3> DEFINE m == IF e.type = "sym" THEN Node("sym", 0) ELSE [tree[e.to] EXCEPT !.kind = "hard"]
    <3>1. t = [tree EXCEPT ![p] = m]
      BY <1>5, <2>2 DEF create_link
    <3>2. m.kind \in {"sym", "hard"}
      BY <1>1, <2>2 DEF Node, Nodes
    <3> HIDE DEF m, t
    <3>3. QED
      BY <1>1, <3>1, <3>2
  <2> HIDE DEF t
  <2>3. /\ \A q \in Paths \ {p} : t[q] = tree[q]
        /\ t[p] = tree[p] \/ t[p].kind \in {"sym", "hard"}
    BY <2>1, <2>2
  <2>4. QED
    BY <1>4, <1>5, <1>8, <2>3 DEF e, t
<1>9. QED
  BY <1>6, <1>7, <1>8 DEF e

LEMMA HandedExtract == UntarInv /\ HandedInv /\ Extract => HandedInv'
<1> SUFFICES ASSUME UntarInv, HandedInv, Extract, NEW q \in Paths,
                    tree'[q].kind \in {"absent", "dir", "file"}, tree'[q].owner # 0
             PROVE  tree'[q].owner \in Met' /\ q \in UpTo(Name(tree'[q].owner))
  <2>1. Extract => archive' = archive
    BY DEF Extract, given
  <2>2. QED
    BY <2>1 DEF HandedInv, Name, UpTo
<1> DEFINE e == archive[entry]
<1>1. /\ UNCHANGED archive /\ UNCHANGED entry /\ pc = "entry" /\ pc' = "data"
      /\ \E luck : tree' = Extracted(e, entry, luck)
  BY DEF Extract, Goto, given
<1>2. PICK luck : tree' = Extracted(e, entry, luck)
  BY <1>1
<1>3. entry # 0 /\ entry \in Nat /\ Met' = Met \cup {entry}
  <2>1. entry # 0 /\ entry \in Nat
    BY <1>1, UntarFacts DEF UntarInv, PlaceInv
  <2>2. QED
    BY <1>1, <2>1 DEF Met
<1>4. /\ e.name \in Paths /\ e.name \in UpTo(e.name)
      /\ e.type \in {"file", "dir", "sym", "hard", "other"}
  <2>1. entry \in DOMAIN archive /\ archive \in Archives /\ e \in Entries
    BY <1>3, EntryFacts DEF GivenInv
  <2>2. e.name \in Seq(STRING) /\ e.name # None /\ e.name \in Paths
    BY <2>1, NamesArePaths, BootstrapAssumption DEF Entries
  <2>3. QED
    BY <2>1, <2>2, UpToFacts DEF Entries
<1>5. /\ q # e.name => /\ q \notin UpTo(e.name) => tree'[q] = tree[q]
                       /\ Above(tree[q], tree'[q], entry)
      /\ q = e.name /\ e.type = "dir" => Above(tree[q], tree'[q], entry)
      /\ q = e.name /\ e.type = "file" => tree'[q].owner \in {entry, tree[q].owner}
      /\ q = e.name /\ e.type = "file" /\ tree'[q].kind # tree[q].kind =>
           tree'[q].kind = "file" /\ tree[q].kind \in {"absent", "file"}
      /\ q = e.name /\ e.type \notin {"dir", "file"} =>
           tree'[q] = tree[q] \/ tree'[q].kind \in {"sym", "hard"}
  <2> DEFINE t == Extracted(e, entry, luck)
  <2>1. tree' = t /\ q \in Paths
    BY <1>2
  <2>2. /\ q # e.name => /\ q \notin UpTo(e.name) => t[q] = tree[q]
                         /\ Above(tree[q], t[q], entry)
        /\ e.type = "dir" => Above(tree[e.name], t[e.name], entry)
        /\ e.type = "file" => t[e.name].owner \in {entry, tree[e.name].owner}
        /\ e.type = "file" /\ t[e.name].kind # tree[e.name].kind =>
             t[e.name].kind = "file" /\ tree[e.name].kind \in {"absent", "file"}
        /\ e.type \notin {"dir", "file"} =>
             t[e.name] = tree[e.name] \/ t[e.name].kind \in {"sym", "hard"}
    BY <1>3, ExtractEffect
  <2> HIDE DEF e, t
  <2>3. QED
    BY <2>1, <2>2
<1> HIDE DEF e
<1>6. \/ tree'[q].owner = entry /\ q \in UpTo(e.name)
      \/ tree'[q].owner = tree[q].owner /\ tree[q].kind \in {"absent", "dir", "file"}
  BY <1>4, <1>5 DEF Above, Absent
<1>7. CASE tree'[q].owner = entry /\ q \in UpTo(e.name)
  BY <1>1, <1>3, <1>7 DEF Name, e
<1>8. CASE tree'[q].owner = tree[q].owner /\ tree[q].kind \in {"absent", "dir", "file"}
  BY <1>1, <1>3, <1>8 DEF HandedInv, Name
<1>9. QED
  BY <1>6, <1>7, <1>8

(* The same step in an archive in order. *)
LEMMA OrderExtract ==
    UntarInv /\ HandedInv /\ OrderInv /\ Ordered(archive) /\ Extract => OrderInv'
<1> SUFFICES ASSUME UntarInv, HandedInv, OrderInv, Ordered(archive), Extract PROVE OrderInv'
  OBVIOUS
<1> DEFINE e == archive[entry]
           p == archive[entry].name
<1>1. /\ UNCHANGED <<archive, place, entry>> /\ pc = "entry" /\ pc' = "data"
  BY DEF Extract, Goto, given
<1>2. PICK luck \in Lucks(p) :
        /\ tree' = Extracted(e, entry, luck)
        /\ troubled' = IF luck = Good THEN troubled ELSE troubled \cup {entry}
  BY Zenon DEF Extract
<1>3. /\ entry # 0 /\ entry \in Nat /\ Met = 1..entry - 1 /\ Met' = Met \cup {entry}
      /\ entry \notin Met /\ Met' \subseteq DOMAIN archive /\ entry \in DOMAIN archive
      /\ archive \in Archives /\ e \in Entries
  <2>1. entry # 0 /\ entry \in 0..Len(archive) /\ Len(archive) \in Nat /\ DOMAIN archive = 1..Len(archive)
        /\ archive \in Archives
    BY <1>1, UntarFacts DEF UntarInv, PlaceInv
  <2>2. QED
    BY <1>1, <2>1, UntarFacts DEF Met
<1>4. /\ tree \in [Paths -> Nodes] /\ tree' \in [Paths -> Nodes]
      /\ \A q \in Paths \ {p} : Stays(tree[q], tree'[q])
      /\ IsDir(p) => tree'[p].kind = "dir"
  BY <1>2, <1>3, ExtractedKeeps, EntryFacts
<1>5. /\ \A q \in Paths \ {p} : /\ q \notin UpTo(p) => tree'[q] = tree[q]
                                /\ Above(tree[q], tree'[q], entry)
      /\ e.type = "dir" => Above(tree[p], tree'[p], entry)
      /\ e.type \in {"dir", "file"} =>
           \/ tree'[p].kind = "absent"
           \/ tree'[p].owner = entry
           \/ luck # Good /\ tree'[p].owner \in {0, tree[p].owner}
  BY <1>2, <1>3, ExtractEffect
<1>6. /\ p \in Paths /\ p \in Seq(STRING) /\ p # None /\ p \in UpTo(p) /\ UpTo(p) \subseteq Paths
      /\ Len(p) \in Nat \ {0}
      /\ e.type # "dir" => Len(p) > 1
  BY <1>3, NamesArePaths, UpToFacts, BootstrapAssumption DEF Entries
<1>7. \A i \in DOMAIN archive : Name(i) \in Paths /\ Name(i)' = Name(i) /\ (Name(i) = p => i = entry)
  BY <1>1, <1>3, NamesArePaths DEF Name, Ordered
\* what is above it is the name of a directory met before
<1>8. ASSUME NEW q \in UpTo(p) \ {p}
      PROVE  \E j \in Met : archive[j].type = "dir" /\ Name(j) = q
  BY <1>3, <1>8 DEF Ordered, Name
<1>9. \A q \in UpTo(p) \ {p} : Exists(q) => IsDir(q)
  BY <1>8 DEF OrderInv, DirMet
\* it is not above one met before
<1>10. \A j \in Met : p \notin UpTo(Name(j))
  <2> SUFFICES ASSUME NEW j \in Met, p \in UpTo(Name(j)) PROVE FALSE
    OBVIOUS
  <2>1. j \in DOMAIN archive /\ Name(j) # p
    BY <1>3, <1>7
  <2>2. PICK k \in 1..j - 1 : archive[k].name = p
    BY <2>1 DEF Ordered, Name
  <2>3. k \in Met
    BY <1>3, <2>2
  <2>4. QED
    BY <1>3, <1>7, <2>2, <2>3 DEF Name
<1>11. Exists(p) => p \in place /\ IsDir(p)
  BY <1>6, <1>10 DEF OrderInv
<1>12. luck = Good \/ (entry \in troubled' /\ luck # Good)
  BY <1>2
<1>13. troubled \subseteq troubled'
  BY <1>2
<1> HIDE DEF e
<1>14. (\A q \in Paths : Exists(q) => q \in place \/ \E j \in Met : q \in UpTo(Name(j)))'
  <2> SUFFICES ASSUME NEW q \in Paths, tree'[q].kind # "absent", q \notin place
               PROVE  \E j \in Met' : q \in UpTo(Name(j))
    BY <1>1 DEF Exists, Name, UpTo
  <2>1. CASE q \in UpTo(p)
    BY <1>3, <2>1 DEF Name
  <2>2. CASE q \notin UpTo(p)
    <3>1. tree'[q] = tree[q]
      BY <1>5, <1>6, <2>2
    <3>2. QED
      BY <1>3, <3>1 DEF OrderInv, Exists
  <2>3. QED
    BY <2>1, <2>2
<1>15. (\A q \in place : q \in Paths /\ IsDir(q))'
  BY <1>1, <1>4 DEF OrderInv, IsDir, Stays
<1>16. ASSUME NEW i \in Met' PROVE DirMet(i)'
  <2> SUFFICES ASSUME archive[i].type = "dir"
               PROVE  tree'[Name(i)].kind = "dir" \/ (tree'[Name(i)].kind = "absent" /\ i \in troubled')
    BY <1>1, <1>3, <1>7 DEF DirMet, IsDir, Exists
  <2>1. CASE i # entry
    <3>1. i \in Met /\ Name(i) \in Paths /\ Name(i) # p /\ DirMet(i)
      BY <1>3, <1>7, <2>1 DEF OrderInv
    <3>2. Above(tree[Name(i)], tree'[Name(i)], entry)
      BY <1>5, <3>1
    <3>3. QED
      BY <1>13, <3>1, <3>2 DEF Above, DirMet, IsDir, Exists, Absent
  <2>2. CASE i = entry
    <3>1. e.type = "dir" /\ Name(i) = p
      BY <2>2 DEF e, Name
    <3>2. Above(tree[p], tree'[p], entry)
      BY <1>5, <3>1
    <3>3. tree'[p].kind \in {"dir", "absent"}
      BY <1>11, <3>2 DEF Above, Exists, IsDir, Absent
    <3>4. luck = Good => tree'[p].kind # "absent"
      <4>1. \A q \in UpTo(p) : Exists(q) => IsDir(q)
        BY <1>9, <1>11
      <4>2. tree' = create_dir(p, entry, luck)
        BY <1>2, <3>1 DEF Extracted, e
      <4>3. QED
        BY <1>4, <1>6, <4>1, <4>2, GoodDir
    <3>5. QED
      BY <1>12, <2>2, <3>1, <3>3, <3>4
  <2>3. QED
    BY <2>1, <2>2
\* why anything above it goes to it
<1> DEFINE Reason == p \in place \/ \E k \in troubled' : Name(k) \in UpTo(p)
<1>17. ~ Reason => \A q \in Paths \ {p} : tree'[q] = tree[q]
  <2> SUFFICES ASSUME ~ Reason, NEW q \in Paths \ {p} PROVE tree'[q] = tree[q]
    OBVIOUS
  <2>1. luck = Good
    BY <1>6, <1>12 DEF Name
  <2>2. ~ Exists(p)
    BY <1>11
  <2>3. Len(p) > 1 => IsDir(Front(p))
    <3> SUFFICES ASSUME Len(p) > 1 PROVE IsDir(Front(p))
      OBVIOUS
    <3>1. Front(p) \in UpTo(p) \ {p}
      BY <1>6, FrontFacts
    <3>2. PICK j \in Met : archive[j].type = "dir" /\ Name(j) = Front(p)
      BY <1>8, <3>1
    <3>3. j \notin troubled
      BY <1>13, <3>1, <3>2
    <3>4. QED
      BY <3>2, <3>3 DEF OrderInv, DirMet
  <2>4. Len(p) > 1
    <3>1. p[1] = "."
      BY <1>3, BootstrapAssumption
    <3>2. CASE Len(p) = 1
      <4>1. p = << p[1] >>
        BY <1>6, <3>2
      <4>2. p = Here
        BY <3>1, <4>1, Zenon DEF Here
      <4>3. Here \in place
        BY BootstrapAssumption DEF UntarInv, GivenInv
      <4>4. QED
        BY <4>2, <4>3
    <3>3. \A n \in Nat \ {0} : n = 1 \/ n > 1
      OBVIOUS
    <3>4. Len(p) \in Nat \ {0}
      BY <1>6
    <3>5. Len(p) = 1 \/ Len(p) > 1
      BY <3>3, <3>4, Zenon
    <3>6. QED
      BY <3>2, <3>5
  <2>5. CASE e.type = "dir"
    <3>1. tree' = create_dir(p, entry, Good)
      BY <1>2, <2>1, <2>5 DEF Extracted, e
    <3>2. \A r \in UpTo(p) : Exists(r) => IsDir(r)
      BY <1>9, <1>11
    <3>3. QED
      BY <1>4, <1>6, <2>2, <2>3, <2>4, <3>1, <3>2, GoodDir
  <2>6. CASE e.type = "file"
    <3>1. tree' = create_file(p, entry, Good)
      BY <1>2, <2>1, <2>6 DEF Extracted, e
    <3>2. QED
      BY <1>4, <1>6, <2>2, <2>3, <2>4, <3>1, GoodFile
  <2>7. CASE e.type \notin {"dir", "file"}
    <3>1. tree' = tree \/ tree' = create_link(e)
      BY <1>2, <2>7 DEF Extracted, e
    <3>2. QED
      BY <1>4, <3>1 DEF create_link, e
  <2>8. QED
    BY <2>5, <2>6, <2>7
<1>18. ASSUME NEW i \in Met' PROVE Owned(i)'
  <2> DEFINE n == Name(i)
             o == tree'[n].owner
             Handed == /\ o # 0 /\ n \in UpTo(Name(o)) \ {Name(o)}
                       /\ Name(o) \in place \/ \E k \in troubled' : Name(k) \in UpTo(Name(o))
  <2> SUFFICES ASSUME archive[i].type \in {"dir", "file"}, tree'[n].kind \in {"dir", "file"}
               PROVE  o = i \/ (o = 0 /\ i \in troubled') \/ Handed
    <3>1. Name(i)' = n
      BY <1>3, <1>7
    <3>2. HandedOver(i)' <=> Handed
      BY <1>1, <3>1 DEF HandedOver, Name, UpTo
    <3>3. QED
      BY <1>1, <3>1, <3>2 DEF Owned
  <2>1. CASE i = entry
    <3>1. e.type \in {"dir", "file"} /\ n = p
      BY <2>1 DEF e, Name
    <3>2. o = entry \/ (luck # Good /\ o \in {0, tree[p].owner})
      BY <1>5, <3>1
    <3>3. tree[p].owner = 0 \/ tree[p].kind \notin {"absent", "dir", "file"}
      BY <1>6, <1>10 DEF HandedInv
    <3>4. tree[p].kind \in {"absent", "dir"}
      BY <1>11 DEF Exists, IsDir
    <3>5. QED
      BY <1>12, <2>1, <3>2, <3>3, <3>4
  <2>2. CASE i # entry
    <3>1. i \in Met /\ n \in Paths /\ n # p /\ DirMet(i) /\ Owned(i)
      BY <1>3, <1>7, <2>2 DEF OrderInv
    <3>2. CASE tree'[n] = tree[n]
      <4>1. o = i \/ (o = 0 /\ i \in troubled) \/ HandedOver(i)
        BY <3>1, <3>2 DEF Owned
      <4>2. HandedOver(i) => Handed
        BY <1>13, <3>2 DEF HandedOver
      <4>3. QED
        BY <1>13, <4>1, <4>2
    <3>3. CASE tree'[n] # tree[n]
      <4>1. n \in UpTo(p) \ {p} /\ Reason
        BY <1>5, <1>17, <3>1, <3>3
      <4>2. archive[i].type = "dir"
        <5>1. PICK j \in Met : archive[j].type = "dir" /\ Name(j) = n
          BY <1>8, <4>1
        <5>2. j = i
          BY <1>3, <3>1, <5>1 DEF Ordered, Name
        <5>3. QED
          BY <5>1, <5>2
      <4>3. Above(tree[n], tree'[n], entry)
        BY <1>5, <3>1
      <4>4. o = entry \/ (o = 0 /\ tree[n].kind = "absent")
        BY <3>3, <4>3 DEF Above, Absent
      <4>5. o = entry => Handed
        BY <1>3, <4>1 DEF Name
      <4>6. tree[n].kind = "absent" => i \in troubled
        BY <3>1, <4>2 DEF DirMet, IsDir, Exists
      <4>7. QED
        BY <1>13, <4>4, <4>5, <4>6
    <3>4. QED
      BY <3>2, <3>3
  <2>3. QED
    BY <2>1, <2>2
<1>19. QED
  BY <1>14, <1>15, <1>16, <1>18 DEF OrderInv

(* A step that leaves the kinds and owners of the tree, and the entries met. *)
LEMMA OwnersStay ==
    ASSUME UntarInv, OwnerInv, Met' = Met, UNCHANGED <<archive, place, troubled>>,
           \A q \in Paths : tree'[q].kind = tree[q].kind /\ tree'[q].owner = tree[q].owner
    PROVE  OwnerInv'
<1>1. HandedInv'
  BY DEF OwnerInv, HandedInv, Name, UpTo
<1>2. \A i \in Met : Name(i) \in Paths /\ Name(i)' = Name(i)
  <2>1. Met \subseteq DOMAIN archive
    BY UntarFacts DEF Met
  <2>2. QED
    BY <2>1, UntarFacts, NamesArePaths DEF Name
<1>3. ASSUME Ordered(archive), OrderInv PROVE OrderInv'
  <2>1. \A i \in Met : DirMet(i)'
    BY <1>2, <1>3 DEF OrderInv, DirMet, IsDir, Exists
  <2>2. ASSUME NEW i \in Met PROVE Owned(i)'
    <3>1. tree'[Name(i)].owner = tree[Name(i)].owner /\ Name(i)' = Name(i)
      BY <1>2
    <3>2. archive' = archive /\ place' = place /\ troubled' = troubled
      OBVIOUS
    <3>3. HandedOver(i)' <=> HandedOver(i)
      BY <3>1, <3>2 DEF HandedOver, UpTo, Name
    <3>4. QED
      BY <1>2, <1>3, <3>3 DEF OrderInv, Owned
  <2>3. (\A q \in Paths : Exists(q) => q \in place \/ \E j \in Met : q \in UpTo(Name(j)))'
    BY <1>3 DEF OrderInv, Exists, Name, UpTo
  <2>4. (\A q \in place : q \in Paths /\ IsDir(q))'
    BY <1>3 DEF OrderInv, IsDir
  <2>5. QED
    BY <2>1, <2>2, <2>3, <2>4 DEF OrderInv
<1>4. QED
  BY <1>1, <1>3 DEF OwnerInv, Ordered, UpTo

LEMMA InitOwners == Init => OwnerInv
<1> SUFFICES ASSUME Init PROVE OwnerInv
  OBVIOUS
<1>1. /\ tree = [p \in Paths |-> IF p \in place THEN Node("dir", 0) ELSE Absent]
      /\ place \in Places /\ Met = {}
  BY DEF Init, Met
<1>2. \A q \in Paths : /\ tree[q].owner = 0
                       /\ q \in place => tree[q].kind = "dir"
                       /\ q \notin place => tree[q].kind = "absent"
  BY <1>1 DEF Node, Absent
<1>3. place \subseteq Paths
  BY <1>1 DEF Paths
<1>4. QED
  BY <1>1, <1>2, <1>3 DEF OwnerInv, HandedInv, OrderInv, Exists, IsDir

LEMMA OwnerStep == UntarInv /\ OwnerInv /\ [Next]_vars => OwnerInv'
<1> SUFFICES ASSUME UntarInv, OwnerInv, [Next]_vars PROVE OwnerInv'
  OBVIOUS
<1>1. CASE Extract
  <2>1. archive' = archive
    BY <1>1 DEF Extract, given
  <2>2. QED
    BY <1>1, <2>1, HandedExtract, OrderExtract DEF OwnerInv, Ordered, UpTo
<1>2. CASE ReadData
  <2>1. UNCHANGED <<archive, place, entry, troubled>> /\ pc = "data" /\ pc' \in {"data", "post"}
    BY <1>2 DEF ReadData, Untarred, Goto, given, unpacking
  <2>2. Met' = Met
    BY <2>1 DEF Met
  <2>3. \A q \in Paths : tree'[q].kind = tree[q].kind /\ tree'[q].owner = tree[q].owner
    <3>1. tree \in [Paths -> Nodes]
      BY UntarFacts
    <3>2. UNCHANGED tree \/ \E piece : tree' = [tree EXCEPT ![f].data = Append(@, piece)]
      BY <1>2 DEF ReadData, unpacking
    <3>3. ASSUME NEW piece, tree' = [tree EXCEPT ![f].data = Append(@, piece)], NEW q \in Paths
          PROVE  tree'[q].kind = tree[q].kind /\ tree'[q].owner = tree[q].owner
      <4>1. tree'[q] = IF q = f THEN [tree[q] EXCEPT !.data = Append(tree[q].data, piece)] ELSE tree[q]
        BY <3>1, <3>3
      <4>2. tree[q] \in Nodes
        BY <3>1
      <4>3. QED
        BY <4>1, <4>2 DEF Nodes
    <3>4. QED
      BY <3>2, <3>3
  <2>4. QED
    BY <2>1, <2>2, <2>3, OwnersStay
<1>3. CASE ReadHeader
  <2>1. UNCHANGED <<archive, place, tree, troubled>> /\ pc = "header"
        /\ ((pc' = "post" /\ entry' = entry) \/ pc' = "entry")
    BY <1>3 DEF ReadHeader, Untarred, Goto, given, unpacking
  <2>2. pc' = "entry" => entry' = entry + 1
    BY <1>3, <2>1, NextEntry
  <2>3. Met' = Met
    BY <2>1, <2>2, UntarFacts DEF Met
  <2>4. QED
    BY <2>1, <2>3, OwnersStay
<1>4. CASE UNCHANGED <<archive, place, entry, tree, troubled>> /\ (pc = "entry" <=> pc' = "entry")
  <2>1. Met' = Met
    BY <1>4 DEF Met
  <2>2. QED
    BY <1>4, <2>1, OwnersStay
<1>5. CASE CloseFile
  BY <1>4, <1>5 DEF CloseFile, Goto, given
<1>6. CASE \/ mount_check \/ CheckPaths \/ RefuseReverted \/ RemoveVarJb \/ FindHash
           \/ Open \/ decompress \/ OpenTar
           \/ PostInstall \/ RenameJb \/ RenameVar \/ Link \/ EnterVarJb
           \/ RunScript \/ InstallDeb \/ Dotfile \/ create_directories
  <2>1. UNCHANGED <<given, unpacking>> /\ pc # "entry" /\ pc' # "entry"
    BY <1>6, QuietSteps DEF Untarring, Ahead
  <2>2. QED
    BY <1>4, <2>1 DEF given, unpacking
<1>7. CASE UNCHANGED vars
  BY <1>4, <1>7 DEF vars, given, unpacking
<1>8. QED
  BY <1>1, <1>2, <1>3, <1>5, <1>6, <1>7 DEF Next

(* For any archive and whatever calls the system refuses, nothing goes to the
   owner of an entry elsewhere; and in an archive in order an entry loses what
   was made for it only to a failed chown or to one below it, which climbed
   because its directory was there or a call for it or above it failed. *)
THEOREM OwnersAreKept == Spec => []OwnersKept
<1>1. UntarInv /\ OwnerInv => OwnersKept
  <2> SUFFICES ASSUME UntarInv, OwnerInv PROVE OwnersKept
    OBVIOUS
  <2>1. Done = Through /\ Behind = 1..entry /\ entry \in Nat
    BY BehindIs DEF UntarInv
  <2>2. Through \subseteq Met /\ Met \subseteq Behind
    BY <2>1 DEF Through, Met
  <2>3. QED
    BY <2>1, <2>2 DEF OwnerInv, HandedInv, OrderInv, Owned, OwnersKept
<1>2. QED
  BY InitUntar, UntarStep, InitOwners, OwnerStep, <1>1, PTL DEF Spec
=============================================================================
