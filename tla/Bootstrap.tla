----------------------------- MODULE Bootstrap ------------------------------
(***************************************************************************)
(* helper -i (install_bootstrap): a tar, or a zst it has decompressed, is  *)
(* unpacked where the process stands, one block at a time; then            *)
(* post_install renames and links what lies there, runs prep_bootstrap.sh  *)
(* and dpkg, and leaves the dotfile that marks a bootstrapped device.      *)
(*                                                                         *)
(* A name of the archive is a sequence of components that starts with      *)
(* ".", and goes through no link.  A system call that fails for reasons of *)
(* its own, and an archive that is cut or damaged, count against           *)
(* MaxFaults: one for everything that goes wrong with one entry.           *)
(***************************************************************************)
EXTENDS Integers, Sequences, FiniteSets, SequencesExt

CONSTANTS
    Archives,    \* archives: sequences of entries [name, type, size, to]
    Places,      \* sets of directories that may be there before
    Devices,     \* "rootful", "rootless", "unreadable": the paleinfo
    Dpkg,        \* the name in the archive that becomes /var/jb/usr/bin/dpkg
    Block,       \* 512
    MaxFaults

None == << >>
Here == <<".">>
Jb == <<".", "var", "jb">>
Filtered == {".DS_Store", "__MACOSX"}
NamesOf(ar) == {ar[i].name : i \in DOMAIN ar}
Paths == (UNION {UNION {{SubSeq(n, 1, k) : k \in 1..Len(n)} : n \in NamesOf(ar)}
                  : ar \in Archives}) \cup {Here} \cup (UNION Places)
Entries == [name : Seq(STRING), type : {"file", "dir", "sym", "hard", "other"},
            size : Nat, to : Paths \cup {None}]

ASSUME BootstrapAssumption ==
    /\ Block \in Nat \ {0} /\ MaxFaults \in Nat
    /\ \A ar \in Archives : ar \in Seq(Entries)
    /\ \A ar \in Archives : \A i \in DOMAIN ar :
         /\ ar[i].name # None /\ ar[i].name[1] = "."
         /\ ar[i].type # "dir" => Len(ar[i].name) > 1
         /\ ar[i].type \in {"sym", "hard", "other"} => ar[i].size = 0
         /\ ar[i].type = "hard" => ar[i].to # None
         /\ ar[i].type \in {"sym", "hard"} =>    \* nothing is unpacked over a link
              \A j \in DOMAIN ar : ar[j].name = ar[i].name => j = i
    /\ \A place \in Places : Here \in place /\ None \notin place
    /\ Devices \subseteq {"rootful", "rootless", "unreadable"}

VARIABLES
    device, place, archive,  \* what the command is given
    varjb,     \* /var/jb before: "none", "link" that resolves, "dangling", "empty" directory
    pc,
    ret,       \* what install_bootstrap returns, 1 for any errno
    pos,       \* the next block of the archive
    entry,     \* the entry of the header last read
    filesize,  \* bytes of it still to come
    f,         \* the file being written, or None
    tree,      \* what lies under the directory the process stands in
    failed,    \* entries it could not extract
    troubled,  \* ghost: entries for which the system refused to make or chown something
    moved,     \* renames done: 0, 1 (var/procursus), 2 (jb_path/procursus)
    linked,    \* this run linked /var/jb
    marked,    \* this run left the dotfile
    faults

given == <<device, place, archive>>
unpacking == <<pos, entry, filesize, f, tree, failed, troubled>>
result == <<moved, linked, marked>>
vars == <<given, varjb, pc, ret, unpacking, result, faults>>

Absent == [kind |-> "absent", owner |-> 0, data |-> << >>]
Node(kind, i) == [kind |-> kind, owner |-> i, data |-> << >>]

(* The blocks of an archive, as tar writes them: a header for every entry,
   which is its block 0, the data of a file padded to full blocks, and two
   blocks of zeros at the end. *)
BlocksFor(size) == (size + Block - 1) \div Block
DataBlocks(e) == IF e.type = "file" THEN BlocksFor(e.size) ELSE 0
BlocksOf(ar, i) == {[of |-> i, n |-> n] : n \in 0..DataBlocks(ar[i])}
BlocksBefore(ar, i) == UNION {BlocksOf(ar, j) : j \in 1..i - 1}
HeaderAt(ar, i) == Cardinality(BlocksBefore(ar, i)) + 1
TapeLength(ar) == HeaderAt(ar, Len(ar) + 1) + 1

Zeros == [of |-> 0, n |-> 0]
BlockAt(ar, p) ==
    LET here == {i \in DOMAIN ar : p - HeaderAt(ar, i) \in 0..DataBlocks(ar[i])}
    IN  IF here = {} THEN Zeros
        ELSE LET i == CHOOSE i \in here : TRUE
             IN  [of |-> i, n |-> p - HeaderAt(ar, i)]
IsHeader(block) == block # Zeros /\ block.n = 0

Init ==
    /\ device \in Devices /\ place \in Places /\ archive \in Archives
    /\ varjb \in {"none", "link", "dangling", "empty"}
    /\ pc = "start" /\ ret = 0
    /\ pos = 1 /\ entry = 0 /\ filesize = 0 /\ f = None
    /\ tree = [p \in Paths |-> IF p \in place THEN Node("dir", 0) ELSE Absent]
    /\ failed = {} /\ troubled = {} /\ moved = 0 /\ linked = FALSE /\ marked = FALSE
    /\ faults = 0
-----------------------------------------------------------------------------
(* Outcomes of a call: Fault spends one of MaxFaults. *)
Fault == faults < MaxFaults /\ faults' = faults + 1
Fine == UNCHANGED faults
Goto(label) == pc' = label /\ UNCHANGED ret
Return(r) == pc' = "done" /\ ret' = r

(* check_rootful answers -1, which is neither 1 nor false, when the paleinfo
   cannot be read. *)
check_rootful ==
    CASE device = "rootful" -> 1 [] device = "rootless" -> 0 [] OTHER -> -1

(* The options of this boot: an error of get_kerninfo is an answer like any
   other, and counts as yes. *)
check_forcerevert(kerninfo) ==
    CASE kerninfo = "reverted" -> 1 [] kerninfo = "plain" -> 0 [] OTHER -> -1

(* mount_check: /private/preboot opens, and is where a volume is mounted. *)
mount_check ==
    /\ pc = "start"
    /\ \/ Fine /\ Goto("paths")
       \/ Fault /\ Return(-1)
    /\ UNCHANGED <<given, varjb, unpacking, result>>

(* The two files are found, and the archive has a name it can unpack. *)
CheckPaths ==
    /\ pc = "paths"
    /\ \/ Fine /\ Goto(IF check_rootful = 1 THEN "reverted" ELSE "varjb")
       \/ Fault /\ Return(-1)
    /\ UNCHANGED <<given, varjb, unpacking, result>>

(* Rootful, after a boot with force_revert: it is refused. *)
RefuseReverted ==
    /\ pc = "reverted"
    /\ \E kerninfo \in {"plain", "reverted", "unreadable"} :
         \/ check_forcerevert(kerninfo) = 0 /\ Goto("open")
         \/ check_forcerevert(kerninfo) # 0 /\ Return(-1)
    /\ UNCHANGED <<given, varjb, unpacking, result, faults>>

(* Whatever fopen finds at /var/jb is removed with rmdir, which takes an empty
   directory only. *)
RemoveVarJb ==
    /\ pc = "varjb"
    /\ \/ varjb = "link" /\ Return(-1) /\ UNCHANGED varjb
       \/ varjb = "empty" /\ varjb' = "none" /\ Goto("hash")
       \/ varjb \in {"none", "dangling"} /\ UNCHANGED varjb /\ Goto("hash")
    /\ UNCHANGED <<given, unpacking, result, faults>>

(* get_boot_manifest_hash answers 1 when the device tree has none.  That it
   can stand there is checked by post_install alone. *)
FindHash ==
    /\ pc = "hash"
    /\ \/ Fine /\ Goto("open")
       \/ Fault /\ Return(1)
    /\ UNCHANGED <<given, varjb, unpacking, result>>

(* A zst is decompressed first. *)
Open ==
    /\ pc = "open"
    /\ \/ Fine /\ \E zst \in BOOLEAN : Goto(IF zst THEN "decompress" ELSE "header")
       \/ Fault /\ Return(-1)
    /\ UNCHANGED <<given, varjb, unpacking, result>>

(* The tar of an earlier run is removed first.  Nothing is made of the exit
   status of zstd: when it failed the tar is missing, which OpenTar finds, or
   cut short, which untar finds. *)
decompress ==
    /\ pc = "decompress"
    /\ \/ Fine /\ Goto("tar")
       \/ Fault /\ \E r \in {-1, 1} : Return(r)
    /\ UNCHANGED <<given, varjb, unpacking, result>>

OpenTar ==
    /\ pc = "tar"
    /\ \/ Fine /\ Goto("header")
       \/ Fault /\ Return(-1)
    /\ UNCHANGED <<given, varjb, unpacking, result>>
-----------------------------------------------------------------------------
(* files.c *)
Exists(p) == tree[p].kind # "absent"
IsDir(p) == tree[p].kind = "dir"
UpTo(p) == {SubSeq(p, 1, k) : k \in 1..Len(p)}

(* mkdir(p) works, as far as the tree is concerned. *)
Mkdir(p) == ~ Exists(p) /\ IsDir(Front(p))

(* What the system does with the calls made for the entry named p: again says
   that none works when it is first made, refused which paths cannot be made at
   all, kept which cannot be given to another owner. *)
Lucks(p) == [again : BOOLEAN, refused : SUBSET UpTo(p), kept : SUBSET UpTo(p)]
Good == [again |-> FALSE, refused |-> {}, kept |-> {}]

(* create_dir goes up until a mkdir works, whatever it failed of, and makes
   and chowns on its way back.  Slip: it goes up before it has tried. *)
ClimbsFirst(p, luck) == UpTo(p)
Climbs(p, luck) ==
    LET stops == {q \in UpTo(p) \ luck.refused : Len(q) > 1 /\ ~ luck.again /\ Mkdir(q)}
    IN  {q \in UpTo(p) : \A s \in stops : Len(q) >= Len(s)}

Mine(old, q, i, luck) == IF q \in luck.kept THEN old ELSE i    \* chown

create_dir(p, i, luck) ==
    LET makes(q) == \A r \in UpTo(q) : IF Exists(r) THEN IsDir(r) ELSE r \notin luck.refused
    IN  [q \in Paths |->
           IF q \notin Climbs(p, luck) THEN tree[q]
           ELSE IF Exists(q) THEN [tree[q] EXCEPT !.owner = Mine(@, q, i, luck)]
           ELSE IF makes(q) THEN Node("dir", Mine(0, q, i, luck)) ELSE Absent]

(* fopen(.., "wb+") *)
Opens(t, p, luck) ==
    t[p].kind \in {"absent", "file"} /\ t[Front(p)].kind = "dir" /\ p \notin luck.refused

(* create_file, and the chown that follows whether it worked or not. *)
create_file(p, i, luck) ==
    LET t == IF Opens(tree, p, luck) /\ ~ luck.again THEN tree
             ELSE create_dir(Front(p), i, luck)
        owner == Mine(t[p].owner, p, i, luck)
    IN  IF Opens(t, p, luck) THEN [t EXCEPT ![p] = Node("file", owner)]
        ELSE IF t[p].kind # "absent" THEN [t EXCEPT ![p].owner = owner] ELSE t

CanLink(e, luck) ==
    /\ ~ Exists(e.name) /\ IsDir(Front(e.name)) /\ e.name \notin luck.refused
    /\ e.type = "hard" => tree[e.to].kind \in {"file", "hard"}
create_link(e) == [tree EXCEPT ![e.name] =
    IF e.type = "sym" THEN Node("sym", 0) ELSE [tree[e.to] EXCEPT !.kind = "hard"]]
-----------------------------------------------------------------------------
(* untar *)
Name(i) == archive[i].name
Untarred == Goto("post")

ReadHeader ==
    /\ pc = "header"
    /\ LET block == BlockAt(archive, pos)
           e == archive[block.of]
       IN  \/ Fault /\ Untarred    \* cut here, or the checksum is wrong
              /\ UNCHANGED unpacking
           \/ /\ ~ IsHeader(block) /\ Fine /\ Untarred
              /\ UNCHANGED unpacking
           \/ /\ IsHeader(block) /\ Last(e.name) \in Filtered
              /\ Fine /\ Untarred
              /\ UNCHANGED unpacking
           \/ /\ IsHeader(block) /\ Last(e.name) \notin Filtered
              /\ Fine /\ Goto("entry")
              /\ pos' = pos + 1 /\ entry' = block.of
              /\ UNCHANGED <<filesize, f, tree, failed, troubled>>
    /\ UNCHANGED <<given, varjb, result>>

(* The size given for a directory is no data.  Slip: it is read past. *)
FollowsHeader(e) == e.size
Follows(e) == IF e.type = "dir" THEN 0 ELSE e.size

(* What the tree is after an entry was met, and whether it was made. *)
Extracted(e, i, luck) ==
    CASE e.type = "dir" -> create_dir(e.name, i, luck)
      [] e.type = "file" -> create_file(e.name, i, luck)
      [] e.type \in {"sym", "hard"} /\ CanLink(e, luck) -> create_link(e)
      [] OTHER -> tree
Made(e, luck) ==
    \/ e.type = "dir" /\ tree'[e.name].kind = "dir"
    \/ e.type = "file" /\ e.name \notin luck.refused
         /\ tree'[e.name].kind = "file" /\ tree'[e.name].data = << >>
    \/ e.type \in {"sym", "hard"} /\ CanLink(e, luck)
    \/ e.type = "other"

Extract ==
    /\ pc = "entry"
    /\ LET e == archive[entry]
       IN  /\ \E luck \in Lucks(e.name) :
                /\ e.type = "other" => luck = Good
                /\ IF luck = Good THEN Fine ELSE Fault
                /\ tree' = Extracted(e, entry, luck)
                /\ f' = IF e.type = "file" /\ Made(e, luck) THEN e.name ELSE None
                /\ failed' = IF Made(e, luck) THEN failed ELSE failed \cup {entry}
                /\ troubled' = IF luck = Good THEN troubled ELSE troubled \cup {entry}
           /\ filesize' = Follows(e)
    /\ Goto("data")
    /\ UNCHANGED <<given, varjb, pos, entry, result>>

Smaller(m, n) == IF m < n THEN m ELSE n
(* What a block of 512 holds of the file.  Slip: the padding counts as well. *)
TakesBlock(left) == Block
Takes(left) == Smaller(left, Block)

ReadData ==
    /\ pc = "data" /\ filesize > 0
    /\ \/ /\ Fault /\ Untarred           \* cut: the file is left as it is
          /\ UNCHANGED unpacking
       \/ /\ pos <= TapeLength(archive)
          /\ LET piece == [block |-> BlockAt(archive, pos), bytes |-> Takes(filesize)]
             IN  \/ /\ Fine
                    /\ tree' = IF f = None THEN tree
                               ELSE [tree EXCEPT ![f].data = Append(@, piece)]
                    /\ UNCHANGED <<f, failed>>
                 \/ /\ Fault /\ f # None  \* fwrite fails: the rest is read past
                    /\ f' = None /\ failed' = failed \cup {entry}
                    /\ UNCHANGED tree
          /\ filesize' = filesize - Takes(filesize)
          /\ pos' = pos + 1
          /\ Goto("data") /\ UNCHANGED <<entry, troubled>>
    /\ UNCHANGED <<given, varjb, result>>

CloseFile ==
    /\ pc = "data" /\ filesize <= 0
    /\ f' = None /\ Goto("header")
    /\ UNCHANGED <<given, varjb, pos, entry, filesize, tree, failed, troubled, result, faults>>
-----------------------------------------------------------------------------
(* post_install.  It starts whatever untar made of the archive. *)
PostInstall ==
    /\ pc = "post"
    /\ \/ /\ Fine /\ Goto(IF check_rootful # 0 THEN "sh" ELSE "renameJb")
       \/ /\ Fault
          /\ \/ Return(-1)
             \/ check_rootful = 0 /\ Return(1)    \* no hash
    /\ UNCHANGED <<given, varjb, unpacking, result>>

RenameJb ==
    /\ pc = "renameJb"
    /\ \/ /\ Jb \in Paths /\ IsDir(Jb)
          /\ Fine /\ moved' = 1 /\ Goto("renameVar")
       \/ /\ ~ (Jb \in Paths /\ IsDir(Jb))
          /\ Fine /\ Return(-1) /\ UNCHANGED moved
       \/ Fault /\ Return(-1) /\ UNCHANGED moved
    /\ UNCHANGED <<given, varjb, unpacking, linked, marked>>

RenameVar ==
    /\ pc = "renameVar"
    /\ \/ Fine /\ moved' = 2 /\ Goto("link")
       \/ Fault /\ Return(-1) /\ UNCHANGED moved
    /\ UNCHANGED <<given, varjb, unpacking, linked, marked>>

(* symlink does not replace what is there, a dangling link neither. *)
Link ==
    /\ pc = "link"
    /\ \/ varjb = "none" /\ Fine /\ varjb' = "link" /\ linked' = TRUE /\ Goto("enter")
       \/ varjb # "none" /\ Fine /\ Return(-1) /\ UNCHANGED <<varjb, linked>>
       \/ Fault /\ Return(-1) /\ UNCHANGED <<varjb, linked>>
    /\ UNCHANGED <<given, unpacking, moved, marked>>

(* It stands in /var/jb from here on, or leaves the link it made. *)
EnterVarJb ==
    /\ pc = "enter"
    /\ \/ Fine /\ Goto("sh")
       \/ Fault /\ Return(-1)
    /\ UNCHANGED <<given, varjb, unpacking, result>>

(* Whether there is a dpkg in what was unpacked, be it cut or empty.  On
   rootful a device that was bootstrapped before has one as well. *)
Unpacked == Dpkg \in Paths /\ tree[Dpkg].kind \in {"file", "hard"}
(* slip: the result of access is not looked at *)
HasDpkgSurely == TRUE
HasDpkg == IF check_rootful # 0 THEN TRUE ELSE Unpacked

(* posix_spawnp fails when there is no sh; what the script does is ignored. *)
RunScript ==
    /\ pc = "sh"
    /\ \/ Fine /\ Goto("dpkg")
       \/ Fault /\ Return(1)
    /\ UNCHANGED <<given, varjb, unpacking, result>>

(* install_deb.  What dpkg does, once it could be started, is ignored. *)
InstallDeb ==
    /\ pc = "dpkg"
    /\ \/ HasDpkg /\ Fine /\ Goto("dotfile")
       \/ ~ HasDpkg /\ Fine /\ Return(1)
       \/ Fault /\ Return(1)
    /\ UNCHANGED <<given, varjb, unpacking, result>>

Dotfile ==
    /\ pc = "dotfile"
    /\ \/ Fine /\ marked' = TRUE /\ Goto("directories")
       \/ Fault /\ Return(-1) /\ UNCHANGED marked
    /\ UNCHANGED <<given, varjb, unpacking, moved, linked>>

create_directories ==
    /\ pc = "directories"
    /\ \/ Fine /\ Return(0)
       \/ Fault /\ check_rootful = 0 /\ Return(-1)
    /\ UNCHANGED <<given, varjb, unpacking, result>>

Next ==
    \/ mount_check \/ CheckPaths \/ RefuseReverted \/ RemoveVarJb \/ FindHash
    \/ Open \/ decompress \/ OpenTar
    \/ ReadHeader \/ Extract \/ ReadData \/ CloseFile
    \/ PostInstall \/ RenameJb \/ RenameVar \/ Link \/ EnterVarJb
    \/ RunScript \/ InstallDeb \/ Dotfile \/ create_directories

Spec == Init /\ [][Next]_vars
-----------------------------------------------------------------------------
Pieces == [block : [of : 0..Len(archive), n : Nat], bytes : 1..Block]
Nodes == [kind : {"absent", "dir", "file", "sym", "hard"}, owner : 0..Len(archive),
          data : Seq(Pieces)]

TypeOK ==
    /\ varjb \in {"none", "link", "dangling", "empty"}
    /\ pc \in {"start", "paths", "reverted", "varjb", "hash", "open",
               "decompress", "tar",
               "header", "entry", "data", "post", "renameJb", "renameVar", "link",
               "enter", "sh", "dpkg", "dotfile", "directories", "done"}
    /\ ret \in {0, 1, -1}
    /\ pos \in 1..TapeLength(archive)
    /\ entry \in 0..Len(archive)
    /\ filesize \in Nat
    /\ f \in Paths \cup {None}
    /\ tree \in [Paths -> Nodes]
    /\ failed \subseteq DOMAIN archive /\ troubled \subseteq DOMAIN archive
    /\ moved \in 0..2 /\ linked \in BOOLEAN /\ marked \in BOOLEAN
    /\ faults \in 0..MaxFaults

(* The entries whose header has been read, and those untar was through with,
   where it is or where it stopped. *)
Behind == {i \in DOMAIN archive : HeaderAt(archive, i) < pos}
Done == IF pc \in {"entry", "data"} \/ filesize > 0 THEN Behind \ {entry} ELSE Behind
Alone(i) == \A j \in DOMAIN archive : archive[j].name = archive[i].name => j = i
FirstBlocks(i, k) ==
    [n \in 1..k |->
       [block |-> [of |-> i, n |-> n],
        bytes |-> Smaller(Block, archive[i].size - (n - 1) * Block)]]
Whole(i) == FirstBlocks(i, DataBlocks(archive[i]))
InPlace(i) ==
    /\ archive[i].type = "file" =>
         tree[Name(i)].kind = "file" /\ tree[Name(i)].data = Whole(i)
    /\ archive[i].type = "dir" => IsDir(Name(i))

(* untar stays in step with the archive: whatever failed on the way and
   wherever it is, each file it has passed and could make is there with
   exactly the bytes of its own entry, and each directory is there.  Padding,
   a size given for a directory, a file that could not be opened and a write
   that failed half way must not shift what is read next. *)
NothingShifts ==
    pc = "header" => \A i \in Done \ failed : Alone(i) => InPlace(i)

(* An archive tar made of a tree: each name once, and a directory before all
   that is in it. *)
Ordered(ar) ==
    \A i \in DOMAIN ar :
        /\ \A j \in DOMAIN ar : ar[j].name = ar[i].name => j = i
        /\ \A q \in UpTo(ar[i].name) \ {ar[i].name} :
             \E j \in 1..i - 1 : ar[j].type = "dir" /\ ar[j].name = q

(* What was made for an entry went to one below it, for a reason. *)
HandedOver(i) ==
    LET o == tree[Name(i)].owner
    IN  /\ o # 0 /\ Name(i) \in UpTo(Name(o)) \ {Name(o)}
        /\ Name(o) \in place \/ \E k \in troubled : Name(k) \in UpTo(Name(o))

(* Who gets what untar makes and finds.  Whatever the archive and whatever
   fails, nothing goes to the owner of an entry that is not in it or is not it.
   In an archive in order every directory and file goes to the owner its own
   entry names, but for a chown that failed and for create_dir, which takes any
   failure of mkdir for a missing parent and hands all above to the owner of
   the entry: it does so for a directory that was there before, or after the
   system refused a call for that entry or for a directory above it, and in no
   other case. *)
OwnersKept ==
    /\ \A q \in Paths : tree[q].kind \in {"dir", "file"} /\ tree[q].owner # 0 =>
         tree[q].owner \in Behind /\ q \in UpTo(Name(tree[q].owner))
    /\ Ordered(archive) =>
         \A i \in Done :
           archive[i].type \in {"dir", "file"} /\ tree[Name(i)].kind \in {"dir", "file"} =>
             \/ tree[Name(i)].owner = i
             \/ tree[Name(i)].owner = 0 /\ i \in troubled
             \/ HandedOver(i)

(* What the dotfile stands for.  On rootless both directories have been
   renamed, /var/jb links to what this run unpacked, and a dpkg is in it; and
   on any device each entry untar was through with is whole.  No more than that:
   the entries it could not make, what comes behind the place where it stopped
   and the file it stopped in, which may be dpkg, are holes nothing looks for. *)
MarkedIsUsable ==
    marked =>
      /\ device = "rootless" => moved = 2 /\ linked /\ varjb = "link" /\ Unpacked
      /\ \A i \in Done \ failed : Alone(i) => InPlace(i)

(* helper.c:27 "-i, --install   completes palera1n install": when it returns 0,
   every entry but those it said it skipped has been unpacked. *)
InstallCompletes ==
    pc = "done" /\ ret = 0 =>
        \A i \in DOMAIN archive :
            \/ Last(Name(i)) \in Filtered \/ i \in failed
            \/ archive[i].type = "other" \/ Exists(Name(i))
=============================================================================
