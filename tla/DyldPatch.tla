----------------------------- MODULE DyldPatch ------------------------------
(***************************************************************************)
(* jbinit's patch of dyld (patch_dyld_bridge.c with patch_dyld/): every    *)
(* indirect branch in the platform check is led through code that sets the *)
(* platform, the code being put into free space of __TEXT, and the test    *)
(* for DYLD_IN_CACHE in start is taken out.                                *)
(*                                                                         *)
(* A file is a sequence of slices, a slice its load commands and its       *)
(* memory, a function from offsets to words; offsets, addresses and sizes  *)
(* count words of four bytes.  A word is a record of an operation and its  *)
(* operand; a string is one word, its operand says which.  Whether a slice *)
(* is well formed is nowhere checked, so a slice may lack any command,     *)
(* section or symbol; a NULL that is then used is a "fault".               *)
(***************************************************************************)
EXTENDS Integers, FiniteSets, SequencesExt

CONSTANTS
    Images,   \* [magic, slices]; a slice is [cpu, cmds, mem]
    Page,     \* of adrp
    CPU_TYPE_ARM64

NoLoc == -1
Ops == {"other", "br", "blr", "b", "bl", "stp", "mov_fp", "cmp", "b.eq", "mov_x1",
        "ldp", "ret", "mov_x0_x19", "adrp", "add", "cbz_x0", "cbz_w0", "nop",
        "mov_w0", "str"}
Word(op, arg) == [op |-> op, arg |-> arg]
DYLD_IN_CACHE == 1   \* the two strings that matter
Zero == 2            \* "0"

(* What the commands of a slice may be, as far as they are looked at. *)
Symbols == [name : STRING, offset : Nat]
Sections == [name : STRING, offset : Nat, addr : Nat, size : Nat]
Segments ==
    [cmd : {"LC_SEGMENT_64"}, name : STRING, fileoff : Nat, filesize : Nat, vmaddr : Nat,
     vmsize : Nat, sects : Seq(Sections), nums : Seq(Nat)]
Commands ==
    Segments
      \cup [cmd : {"LC_BUILD_VERSION"}, platform : Nat, nums : Seq(Nat)]
      \cup [cmd : {"LC_SYMTAB"}, syms : Seq(Symbols), nums : Seq(Nat)]
      \cup [cmd : {"LC_UUID"}, nums : Seq(Nat)]

ASSUME DyldPatchAssumption ==
    /\ Page \in Nat \ {0}
    /\ \A im \in Images :
         /\ im.magic \in {"macho", "fat", "other"}
         /\ im.slices \in Seq(Range(im.slices)) \ {<<>>}
         /\ \A sl \in Range(im.slices) :
              /\ sl.cmds \in Seq(Commands)
              /\ \A c \in Range(sl.cmds) : c.cmd = "LC_BUILD_VERSION" =>
                   Len(c.nums) > 2 /\ c.nums[1] = 50 /\ c.nums[3] = c.platform
              /\ IsFiniteSet(DOMAIN sl.mem)
              /\ DOMAIN sl.mem = 0..(Cardinality(DOMAIN sl.mem) - 1)
              /\ \A k \in DOMAIN sl.mem : sl.mem[k] \in [op : Ops, arg : Int]

VARIABLES
    image,    \* /usr/lib/dyld
    slice,    \* the slice at dyld_buf
    pc,
    words,    \* its memory
    platform,
    func, i,  \* the function that is scanned, and how far
    _internal_shc_loc, shc_copied,
    has_found_dyld_in_cache

shc == <<_internal_shc_loc, shc_copied>>
scan == <<func, i>>
vars == <<image, slice, pc, words, platform, scan, shc, has_found_dyld_in_cache>>

NoFunc == [offset |-> 0, len |-> 0]
cmds == slice.cmds

(* read_file: dyld_buf points at the start of the file, the first slice of a
   file that is not fat.  It spins if there is no such file. *)
read_file ==
    /\ image \in Images
    /\ slice = image.slices[1] /\ words = slice.mem

Init ==
    /\ read_file
    /\ pc = "macho_get_magic"
    /\ platform = 0 /\ func = NoFunc /\ i = 0
    /\ _internal_shc_loc = NoLoc /\ shc_copied = 0
    /\ has_found_dyld_in_cache = FALSE
-----------------------------------------------------------------------------
(* macho.c.  The first element of a sequence that passes a test; 0 if none. *)
FirstIn(s, Test(_)) ==
    LET hits == {n \in DOMAIN s : Test(s[n])}
    IN  IF hits = {} THEN 0 ELSE CHOOSE n \in hits : \A h \in hits : n <= h

IsBuild(c) == c.cmd = "LC_BUILD_VERSION"
IsSymtab(c) == c.cmd = "LC_SYMTAB"
IsSegment(c) == c.cmd = "LC_SEGMENT_64"
Within(x, start, size) == start <= x /\ x < start + size

(* What the patches take for granted of a dyld: __unwind_info is the last
   section of __TEXT, with zeros behind it, and no address is in two sections
   at different offsets. *)
SectionsOf(sl) ==
    UNION {Range(seg.sects) : seg \in {c \in Range(sl.cmds) : IsSegment(c)}}
ASSUME LayoutAssumption ==
    \A im \in Images : \A sl \in Range(im.slices) :
        /\ \A text \in Range(sl.cmds) : IsSegment(text) /\ text.name = "__TEXT" =>
             \A sect \in Range(text.sects) : sect.name = "__unwind_info" =>
                 /\ text.fileoff <= sect.offset
                 /\ \A k \in DOMAIN sl.mem :
                      sect.offset + sect.size <= k /\ k < text.fileoff + text.filesize =>
                          /\ sl.mem[k] = Word("other", 0)
                          /\ \A s \in SectionsOf(sl) : ~ Within(k, s.offset, s.size)
        /\ \A s, t \in SectionsOf(sl) :
             Within(s.addr, t.addr, t.size) => t.offset + (s.addr - t.addr) = s.offset

(* slip: platforms that came later pass *)
macho_get_platform_any ==
    LET n == FirstIn(cmds, IsBuild)
    IN  IF n = 0 THEN 0 ELSE cmds[n].platform

(* A platform it does not know counts as none. *)
macho_get_platform ==
    LET n == FirstIn(cmds, IsBuild)
    IN  IF n = 0 \/ cmds[n].platform > 5 THEN 0 ELSE cmds[n].platform

(* The sections of the named segment: the search gives up at the first command
   that is not a segment. *)
macho_get_segment(name) ==
    LET Stop(c) == ~ IsSegment(c) \/ c.name = name
        n == FirstIn(cmds, Stop)
    IN  IF n = 0 \/ ~ IsSegment(cmds[n]) THEN {} ELSE {cmds[n]}

macho_get_section(segment, name) ==
    LET Named(s) == s.name = name
        n == FirstIn(segment.sects, Named)
    IN  IF n = 0 THEN {} ELSE {segment.sects[n]}
macho_find_section(segment, name) ==
    UNION {macho_get_section(seg, name) : seg \in macho_get_segment(segment)}

(* The section that holds an address or an offset, in the first segment that
   does. *)
macho_find_section_for_va(addr) ==
    LET Covers(c) == IsSegment(c) /\ Within(addr, c.vmaddr, c.vmsize)
        Holds(s) == Within(addr, s.addr, s.size)
        seg == FirstIn(cmds, Covers)
        sect == IF seg = 0 THEN 0 ELSE FirstIn(cmds[seg].sects, Holds)
    IN  IF sect = 0 THEN {} ELSE {cmds[seg].sects[sect]}
macho_find_section_for_ptr(ptr) ==
    LET Covers(c) == IsSegment(c) /\ Within(ptr, c.fileoff, c.filesize)
        Holds(s) == Within(ptr, s.offset, s.size)
        seg == FirstIn(cmds, Covers)
        sect == IF seg = 0 THEN 0 ELSE FirstIn(cmds[seg].sects, Holds)
    IN  IF sect = 0 THEN {} ELSE {cmds[seg].sects[sect]}

macho_va_to_ptr(addr) == {s.offset + (addr - s.addr) : s \in macho_find_section_for_va(addr)}
macho_ptr_to_va(ptr) == {s.addr + (ptr - s.offset) : s \in macho_find_section_for_ptr(ptr)}

(* The function of a symbol reaches to the next symbol of the table, whatever
   that is, or has no length when that comes before it; behind the last one is
   what follows the table. *)
macho_find_symbol(name) ==
    LET Named(s) == s.name = name
        n == FirstIn(cmds, IsSymtab)
        k == IF n = 0 THEN 0 ELSE FirstIn(cmds[n].syms, Named)
        syms == cmds[n].syms
    IN  IF k = 0 THEN {}
        ELSE {[offset |-> syms[k].offset,
               len |-> IF next < syms[k].offset THEN 0 ELSE next - syms[k].offset] :
                  next \in IF k < Len(syms) THEN {syms[k + 1].offset}
                           ELSE {0} \cup DOMAIN words}
-----------------------------------------------------------------------------
Goto(to) == pc' = to
(* spin shows an alert and sleeps for ever. *)
spin == Goto("spin")

GetMagic ==
    /\ pc = "macho_get_magic"
    /\ Goto(CASE image.magic = "macho" -> "macho_get_platform"
              [] image.magic = "fat" -> "macho_find_arch"
              [] OTHER -> "spin")
    /\ UNCHANGED <<image, slice, words, platform, scan, shc, has_found_dyld_in_cache>>

FindArch ==
    /\ pc = "macho_find_arch"
    /\ LET Arm64(s) == s.cpu = CPU_TYPE_ARM64
           n == FirstIn(image.slices, Arm64)
       IN  IF n = 0 THEN spin /\ UNCHANGED <<slice, words>>
           ELSE /\ slice' = image.slices[n] /\ words' = slice'.mem
                /\ Goto("macho_get_platform")
    /\ UNCHANGED <<image, platform, scan, shc, has_found_dyld_in_cache>>

GetPlatform ==
    /\ pc = "macho_get_platform"
    /\ platform' = macho_get_platform
    /\ Goto(IF platform' = 0 THEN "spin" ELSE "platform_check_patch")
    /\ UNCHANGED <<image, slice, words, scan, shc, has_found_dyld_in_cache>>

(* A missing symbol is used all the same. *)
FindFunction(at, name, to) ==
    /\ pc = at
    /\ \/ macho_find_symbol(name) = {} /\ Goto("fault") /\ UNCHANGED scan
       \/ func' \in macho_find_symbol(name) /\ i' = 0 /\ Goto(to)
    /\ UNCHANGED <<image, slice, words, platform, shc, has_found_dyld_in_cache>>

platform_check_patch ==
    FindFunction("platform_check_patch", "forEachSupportedPlatform", "patch_platform_check")
-----------------------------------------------------------------------------
(* slip: behind all that is left of the segment *)
RegionNotHalved ==
    UNION {{sect.offset + sect.size + (seg.filesize - sect.offset) :
               sect \in macho_get_section(seg, "__unwind_info")} :
               seg \in macho_get_segment("__TEXT")}

(* get_shc_region: behind the last section of __TEXT, half of what is left of
   the segment from the start of that section on. *)
get_shc_region ==
    UNION {{sect.offset + sect.size + (seg.filesize - sect.offset) \div 2 :
               sect \in macho_get_section(seg, "__unwind_info")} :
               seg \in macho_get_segment("__TEXT")}

shellcode_br(plat, jmp) ==
    <<Word("cmp", 10), Word("b.eq", 2), Word("mov_x1", plat), jmp>>
shellcode_blr(plat, jmp) ==
    <<Word("stp", 0), Word("mov_fp", 0), Word("cmp", 10), Word("b.eq", 2),
      Word("mov_x1", plat), jmp, Word("ldp", 0), Word("ret", 0)>>

(* copy_shc.  The copy for a br is only made if it is the first; a later br
   goes to the first copy, whatever that one is for. *)
Copied(jmp) == jmp.op = "blr" \/ shc_copied = 0
Shellcode(jmp) ==
    IF jmp.op = "br" THEN shellcode_br(platform, jmp) ELSE shellcode_blr(platform, jmp)
(* slip: the copies lie as near as the code is long in bytes of the br one *)
CopyLocNear(base, jmp) == IF Copied(jmp) THEN base + shc_copied * 4 ELSE base
CopyLoc(base, jmp) ==
    IF Copied(jmp) THEN base + shc_copied * Len(Shellcode(jmp)) ELSE base

BranchTo(jmp, loc) == Word(IF jmp.op = "br" THEN "b" ELSE "bl", loc)

(* inject_shc at one word; the code may lie outside the memory of the file. *)
Inject(at, base) ==
    LET jmp == words[at]
        loc == CopyLoc(base, jmp)
        code == IF Copied(jmp) THEN Shellcode(jmp) ELSE <<>>
    IN  IF code = <<>> \/ loc + Len(code) - 1 \in DOMAIN words
        THEN /\ words' = [k \in DOMAIN words |->
                             IF k = at THEN BranchTo(jmp, loc)
                             ELSE IF Within(k, loc, Len(code)) THEN code[k - loc + 1]
                             ELSE words[k]]
             /\ shc_copied' = shc_copied + (IF Copied(jmp) THEN 1 ELSE 0)
             /\ UNCHANGED pc
        ELSE Goto("fault") /\ UNCHANGED <<words, shc_copied>>

(* One word of pf_find_maskmatch32; a word that cannot be patched is passed
   over. *)
IsJump(w) == w.op \in {"br", "blr"}
ScanPlatformCheck ==
    /\ pc = "patch_platform_check" /\ i < func.len
    /\ i' = i + 1
    /\ LET at == func.offset + i
           base == IF _internal_shc_loc # NoLoc THEN {_internal_shc_loc} ELSE get_shc_region
       IN  IF at \in DOMAIN words /\ IsJump(words[at]) /\ base # {}
             THEN /\ _internal_shc_loc' \in base
                  /\ Inject(at, _internal_shc_loc')
             ELSE UNCHANGED <<pc, words, shc>>
    /\ UNCHANGED <<image, slice, platform, func, has_found_dyld_in_cache>>

PlatformCheckScanned ==
    /\ pc = "patch_platform_check" /\ i = func.len
    /\ Goto("cstring")
    /\ UNCHANGED <<image, slice, words, platform, scan, shc, has_found_dyld_in_cache>>

(* Whether this dyld knows DYLD_IN_CACHE at all. *)
FindCstring ==
    /\ pc = "cstring"
    /\ LET sects == macho_find_section("__TEXT", "__cstring")
           starts == UNION {macho_va_to_ptr(s.addr) : s \in sects}
       IN  Goto(IF sects = {} THEN "spin"
                ELSE IF starts = {} THEN "fault"
                ELSE IF \E s \in sects, start \in starts : \E k \in DOMAIN words :
                           /\ Within(k, start, s.size)
                           /\ words[k] = Word("str", DYLD_IN_CACHE)
                     THEN "dyld_in_cache_patch" ELSE "write_file")
    /\ UNCHANGED <<image, slice, words, platform, scan, shc, has_found_dyld_in_cache>>
-----------------------------------------------------------------------------
dyld_in_cache_patch == FindFunction("dyld_in_cache_patch", "start", "scan_start")

(* The ten instructions of getenv("DYLD_IN_CACHE") and its comparison. *)
Pattern == <<"mov_x0_x19", "bl", "adrp", "add", "bl", "cbz_x0", "adrp", "add", "bl", "cbz_w0">>
MatchesAt(mem, at) ==
    \A x \in DOMAIN Pattern :
        at + x - 1 \in DOMAIN mem /\ mem[at + x - 1].op = Pattern[x]

(* pf_follow_xref: the page of the adrp plus what adrp and add give. *)
pf_follow_xref(at) ==
    UNION {macho_va_to_ptr((va - (va % Page)) + words[at].arg * Page + words[at + 1].arg) :
              va \in macho_ptr_to_va(at)}
StringAt(ptr) ==
    IF ptr \in DOMAIN words /\ words[ptr].op = "str" THEN words[ptr].arg ELSE 0

IsInCacheTest(at) ==
    \E name \in pf_follow_xref(at + 2), value \in pf_follow_xref(at + 6) :
        StringAt(name) = DYLD_IN_CACHE /\ StringAt(value) = Zero

(* One word of the scan, patch_dyld_in_cache included.  Both references are
   followed before either is tested. *)
ScanStart ==
    /\ pc = "scan_start" /\ i < func.len
    /\ LET at == func.offset + i
       IN  IF ~ MatchesAt(words, at) THEN i' = i + 1 /\ UNCHANGED <<pc, words, has_found_dyld_in_cache>>
           ELSE IF pf_follow_xref(at + 2) = {} \/ pf_follow_xref(at + 6) = {}
             THEN Goto("fault") /\ UNCHANGED <<i, words, has_found_dyld_in_cache>>
           ELSE /\ i' = i + 1 /\ UNCHANGED pc
                /\ IF IsInCacheTest(at)
                     THEN /\ words' = [words EXCEPT ![at + 5] = Word("nop", 0),
                                                    ![at + 8] = Word("mov_w0", 0)]
                          /\ has_found_dyld_in_cache' = TRUE
                     ELSE UNCHANGED <<words, has_found_dyld_in_cache>>
    /\ UNCHANGED <<image, slice, platform, func, shc>>

(* slip: nobody looks whether the test was found *)
StartScannedAnyway ==
    /\ pc = "scan_start" /\ i = func.len
    /\ Goto("write_file")
    /\ UNCHANGED <<image, slice, words, platform, scan, shc, has_found_dyld_in_cache>>

StartScanned ==
    /\ pc = "scan_start" /\ i = func.len
    /\ Goto(IF has_found_dyld_in_cache THEN "write_file" ELSE "spin")
    /\ UNCHANGED <<image, slice, words, platform, scan, shc, has_found_dyld_in_cache>>

(* write_file spins if it cannot open /cores/dyld. *)
WriteFile ==
    /\ pc = "write_file"
    /\ Goto("done") \/ spin
    /\ UNCHANGED <<image, slice, words, platform, scan, shc, has_found_dyld_in_cache>>

Next ==
    \/ GetMagic \/ FindArch \/ GetPlatform
    \/ platform_check_patch \/ ScanPlatformCheck \/ PlatformCheckScanned
    \/ FindCstring \/ dyld_in_cache_patch \/ ScanStart \/ StartScanned \/ WriteFile

Spec == Init /\ [][Next]_vars
-----------------------------------------------------------------------------
(* slip: the number next to the type of the command, its size *)
get_dyld_platform_size ==
    LET nums == FlattenSeq([n \in DOMAIN image.slices |->
                    FlattenSeq([c \in DOMAIN image.slices[n].cmds |->
                        image.slices[n].cmds[c].nums])])
        Is50(x) == x = 50
        k == FirstIn(nums, Is50)
    IN  IF k = 0 \/ k + 1 > Len(nums) THEN -1 ELSE nums[k + 1]

(* jbloader finds the platform in its own way, in the same file: two numbers
   on from the first one that is 0x32, LC_BUILD_VERSION, wherever that is. *)
get_dyld_platform ==
    LET nums == FlattenSeq([n \in DOMAIN image.slices |->
                    FlattenSeq([c \in DOMAIN image.slices[n].cmds |->
                        image.slices[n].cmds[c].nums])])
        Is50(x) == x = 50
        k == FirstIn(nums, Is50)
    IN  IF k = 0 \/ k + 2 > Len(nums) \/ nums[k + 2] > 20 THEN -1 ELSE nums[k + 2]
-----------------------------------------------------------------------------
TypeOK ==
    /\ image \in Images /\ \E n \in DOMAIN image.slices : slice = image.slices[n]
    /\ pc \in {"macho_get_magic", "macho_find_arch", "macho_get_platform",
               "platform_check_patch", "patch_platform_check", "cstring",
               "dyld_in_cache_patch", "scan_start", "write_file", "done", "spin", "fault"}
    /\ DOMAIN words = DOMAIN slice.mem
    /\ \A k \in DOMAIN words : words[k].op \in Ops
    /\ platform \in 0..5
    /\ func.offset \in Nat /\ func.len \in Nat /\ i \in 0..func.len
    /\ _internal_shc_loc \in {NoLoc} \cup Nat /\ shc_copied \in Nat
    /\ has_found_dyld_in_cache \in BOOLEAN

(* The indirect branches of the file, those of the platform check as far as its
   symbol says it goes, those of them that were led elsewhere, and those that
   still branch. *)
Branches == {k \in DOMAIN words : IsJump(slice.mem[k])}
CheckBranches ==
    LET check == macho_find_symbol("forEachSupportedPlatform")
    IN  {k \in Branches : \E f \in check : Within(k, f.offset, f.len)}
Led == {k \in CheckBranches : words[k] # slice.mem[k]}
Sites == {k \in CheckBranches : words[k].op \in {"b", "bl"}}

(* The test for DYLD_IN_CACHE in the file; what calls in it may have been an
   indirect branch that was led elsewhere before. *)
IsOrBecomes(w, op) == w.op = op \/ (op = "bl" /\ IsJump(w))
InCacheTest(at) ==
    \A x \in DOMAIN Pattern :
        at + x - 1 \in DOMAIN words /\ IsOrBecomes(slice.mem[at + x - 1], Pattern[x])
InCacheWords == {k \in DOMAIN words : \E x \in {5, 8} : InCacheTest(k - x)}

(* The code goes behind what is taken for the platform check, and has room in
   __TEXT for one copy for each branch there: __unwind_info is small next to
   the zeros behind it. *)
RegionBehind ==
    \A f \in macho_find_symbol("forEachSupportedPlatform"), base \in get_shc_region :
        f.offset + f.len <= base
CodeWords ==
    LET room == 8 * Cardinality(CheckBranches)
        region == get_shc_region
    IN  {k \in DOMAIN words : \E base \in region : Within(k, base, room)}
Roomy ==
    \A seg \in macho_get_segment("__TEXT") :
        \A sect \in macho_get_section(seg, "__unwind_info") :
            sect.size + 8 * Cardinality(CheckBranches) <= (seg.filesize - sect.offset) \div 2

(* dyld itself is left alone: what the patches change is indirect branches of
   the platform check, the two instructions of the test for DYLD_IN_CACHE, and
   the eight words of code for each of those branches, wherever they fall; with
   room for them they are zeros of __TEXT that belong to no section. *)
OnlyPatched ==
    RegionBehind =>
        \A k \in {h \in DOMAIN words : words[h] # slice.mem[h]} \ (Sites \cup InCacheWords) :
            /\ k \in CodeWords
            /\ Roomy =>
                  /\ slice.mem[k] = Word("other", 0) /\ macho_find_section_for_ptr(k) = {}
                  /\ \E seg \in macho_get_segment("__TEXT") : Within(k, seg.fileoff, seg.filesize)

(* Through the copied code, which sets the platform, every call still gets where
   it went, as a call.  Of the branches that are no calls each gets where the
   first branch of all gets, through the same code: where it went itself only
   if that is the same register. *)
CodeFor(plat, jmp) ==
    IF jmp.op = "br" THEN shellcode_br(plat, jmp) ELSE shellcode_blr(plat, jmp)
FirstLed(k) == k \in Led /\ \A h \in Led : k <= h
Runs(code, to) ==
    \A x \in DOMAIN code : to + x - 1 \in DOMAIN words /\ words[to + x - 1] = code[x]
SitesRunTheirCode ==
    RegionBehind =>
        \A k \in Sites :
            /\ words[k].op = "bl" <=> slice.mem[k].op = "blr"
            /\ \E j \in Led :
                  /\ IF slice.mem[k].op = "br" THEN FirstLed(j) ELSE j = k
                  /\ Runs(CodeFor(platform, slice.mem[j]), words[k].arg)

(* What a dyld that is deployed has: no indirect branch is left in the platform
   check, which ends where the next symbol in memory is, and if dyld knows
   DYLD_IN_CACHE there is a test for it that no longer branches.  But where
   there is no __unwind_info, or the table puts a symbol of the same or a lower
   address next to that of the check, nobody notices that the check is deployed
   as it was. *)
SymbolsOfSlice ==
    LET n == FirstIn(cmds, IsSymtab)
    IN  IF n = 0 THEN {} ELSE Range(cmds[n].syms)
CheckWords ==
    LET check == macho_find_symbol("forEachSupportedPlatform")
        syms == SymbolsOfSlice
    IN  {k \in DOMAIN words : \E f \in check :
            /\ f.offset <= k
            /\ \A s \in syms : f.offset < s.offset => k < s.offset}
HasLength == \A f \in macho_find_symbol("forEachSupportedPlatform") : f.len > 0
HasNone == \A f \in macho_find_symbol("forEachSupportedPlatform") : f.len = 0
KnowsDyldInCache ==
    \E s \in macho_find_section("__TEXT", "__cstring") : \E k \in DOMAIN words :
        Within(k, s.offset, s.size) /\ words[k] = Word("str", DYLD_IN_CACHE)
PatchedTest(at) ==
    \A x \in DOMAIN Pattern :
        /\ at + x - 1 \in DOMAIN words
        /\ words[at + x - 1].op =
             IF x = 6 THEN "nop" ELSE IF x = 9 THEN "mov_w0" ELSE Pattern[x]
DoneMeansPatched ==
    pc = "done" =>
        /\ RegionBehind /\ HasLength /\ get_shc_region # {} =>
               \A k \in CheckWords : ~ IsJump(words[k])
        /\ RegionBehind /\ (HasNone \/ get_shc_region = {}) =>
               \A k \in DOMAIN words \ InCacheWords : words[k] = slice.mem[k]
        /\ KnowsDyldInCache => \E at \in DOMAIN words : PatchedTest(at)

(* The platform jbinit patches into dyld is the one jbloader finds in it,
   unless a number of an earlier load command happens to be 0x32, or the slices
   of a fat file are for several platforms. *)
StrayNumber ==
    \E n \in DOMAIN image.slices : \E c \in DOMAIN image.slices[n].cmds :
        LET cmd == image.slices[n].cmds[c]
        IN  \E x \in DOMAIN cmd.nums : cmd.nums[x] = 50 /\ (x > 1 \/ ~ IsBuild(cmd))
FirstBuild(sl, n) == IsBuild(sl.cmds[n]) /\ \A h \in 1..n - 1 : ~ IsBuild(sl.cmds[h])
OnePlatform ==
    \A sl, other \in Range(image.slices) :
        \A n \in DOMAIN sl.cmds, m \in DOMAIN other.cmds :
            FirstBuild(sl, n) /\ FirstBuild(other, m) =>
                sl.cmds[n].platform = other.cmds[m].platform
PlatformsAgree ==
    pc = "done" /\ ~ StrayNumber /\ OnePlatform => get_dyld_platform = platform
=============================================================================
