--------------------------- MODULE DyldPatchProofs ---------------------------
(***************************************************************************)
(* Proofs about DyldPatch, for any files.                                  *)
(***************************************************************************)
EXTENDS DyldPatch, SequenceTheorems, FiniteSetTheorems, WellFoundedInduction, TLAPS

(* What the steps before the scan of the platform check leave, and those behind
   it. *)
Early == {"macho_get_magic", "macho_find_arch", "macho_get_platform", "platform_check_patch"}
Late == {"cstring", "dyld_in_cache_patch", "scan_start", "write_file", "done"}
Untouched ==
    /\ words = slice.mem /\ _internal_shc_loc = NoLoc /\ shc_copied = 0
    /\ ~ has_found_dyld_in_cache

(* How far the scan of the platform check has come. *)
Reached == func.offset + i
ReachedBranches == {k \in CheckBranches : k < Reached}

(* Every word is what it was, a branch to the copied code, a word of the
   patched test, or a word of that code. *)
CodeOps == {"stp", "mov_fp", "cmp", "b.eq", "mov_x1", "br", "blr", "ldp", "ret"}
InCode(k) ==
    /\ _internal_shc_loc # NoLoc
    /\ _internal_shc_loc <= k /\ k < _internal_shc_loc + 8 * shc_copied
Accounted(k) ==
    \/ words[k] = slice.mem[k]
    \/ k \in Sites
    \/ k \in InCacheWords /\ words[k].op \in {"nop", "mov_w0"}
    \/ InCode(k) /\ words[k].op \in CodeOps

(* The code for a branch lies where it is sought. *)
PlacedIn(mem, plat, region, n, jmp, to) ==
    /\ to \in Nat /\ region <= to /\ to + Len(CodeFor(plat, jmp)) <= region + 8 * n
    /\ \A x \in DOMAIN CodeFor(plat, jmp) :
          to + x - 1 \in DOMAIN mem /\ mem[to + x - 1] = CodeFor(plat, jmp)[x]
Placed(jmp, to) == PlacedIn(words, platform, _internal_shc_loc, shc_copied, jmp, to)

PatchInv ==
    /\ TypeOK
    /\ pc \in Early => Untouched
    /\ _internal_shc_loc \in {NoLoc} \cup get_shc_region
    /\ _internal_shc_loc = NoLoc => shc_copied = 0
    /\ pc = "patch_platform_check" => func \in macho_find_symbol("forEachSupportedPlatform")

(* The scan ahead, and the branches behind it. *)
CheckInv ==
    /\ pc = "patch_platform_check" /\ RegionBehind => \A k \in DOMAIN words :
          /\ Within(k, Reached, func.len - i) => words[k] = slice.mem[k]
          /\ Within(k, func.offset, i) /\ get_shc_region # {} => ~ IsJump(words[k])
    /\ pc \in Late /\ RegionBehind /\ get_shc_region # {} =>
          \E f \in macho_find_symbol("forEachSupportedPlatform") :
              \A k \in DOMAIN words : Within(k, f.offset, f.len) => ~ IsJump(words[k])

(* How much code there is, what is written, and who gets there. *)
CodeInv ==
    RegionBehind =>
        /\ pc = "patch_platform_check" =>
              Led \subseteq ReachedBranches /\ shc_copied <= Cardinality(ReachedBranches)
        /\ shc_copied <= Cardinality(CheckBranches)
        /\ shc_copied = 0 <=> Led = {}
        /\ \A k \in DOMAIN words : Accounted(k)
        /\ \A k \in Led : FirstLed(k) => Placed(slice.mem[k], _internal_shc_loc)
        /\ \A k \in Sites :
              /\ words[k].op = "bl" <=> slice.mem[k].op = "blr"
              /\ IF slice.mem[k].op = "br" THEN words[k].arg = _internal_shc_loc
                 ELSE Placed(slice.mem[k], words[k].arg)

(* The test for DYLD_IN_CACHE. *)
FoundInv ==
    /\ has_found_dyld_in_cache => pc \in {"scan_start", "write_file", "done", "spin", "fault"}
    /\ has_found_dyld_in_cache => \E at \in DOMAIN words : PatchedTest(at)
    /\ pc \in {"write_file", "done"} => has_found_dyld_in_cache \/ ~ KnowsDyldInCache

IInv == PatchInv /\ CheckInv /\ CodeInv /\ FoundInv

-----------------------------------------------------------------------------
(* What macho.c finds in a slice. *)
LEMMA SmallestHit ==
    ASSUME NEW hits \in SUBSET Nat, hits # {}
    PROVE  \E h \in hits : \A g \in hits : h <= g
<1>1. \E h \in hits : \A g \in hits : <<g, h>> \notin OpToRel(<, Nat)
  BY NatLessThanWellFounded, WFMin
<1>2. \E h \in hits : \A g \in hits : ~ (g < h)
  BY <1>1 DEF OpToRel
<1>3. QED
  BY <1>2

(* The position FirstIn gives is a hit, or 0 when there is none. *)
FirstOf(hits) == IF hits = {} THEN 0 ELSE CHOOSE n \in hits : \A h \in hits : n <= h
LEMMA FirstIsHit ==
    ASSUME NEW S, NEW s \in Seq(S), NEW hits \in SUBSET DOMAIN s
    PROVE  /\ hits = {} => FirstOf(hits) = 0
           /\ hits # {} => /\ FirstOf(hits) \in hits /\ FirstOf(hits) \in 1..Len(s)
                           /\ FirstOf(hits) # 0 /\ s[FirstOf(hits)] \in S
<1>1. DOMAIN s = 1..Len(s) /\ Len(s) \in Nat
  BY LenProperties
<1>2. hits \in SUBSET Nat
  BY <1>1
<1>3. ASSUME hits # {} PROVE FirstOf(hits) \in hits
  BY <1>2, <1>3, SmallestHit DEF FirstOf
<1>4. ASSUME hits # {} PROVE s[FirstOf(hits)] \in S
  BY <1>1, <1>3, <1>4, ElementOfSeq
<1>5. ASSUME hits = {} PROVE FirstOf(hits) = 0
  BY <1>5 DEF FirstOf
<1>6. QED
  BY <1>1, <1>3, <1>4, <1>5

IsSlice(sl) == \E im \in Images : sl \in Range(im.slices)
LEMMA SliceFacts ==
    ASSUME IsSlice(slice)
    PROVE  /\ cmds \in Seq(Commands)
           /\ IsFiniteSet(DOMAIN slice.mem) /\ DOMAIN slice.mem \subseteq Nat
           /\ \A k \in DOMAIN slice.mem : slice.mem[k] \in [op : Ops, arg : Int]
           /\ \A k \in DOMAIN slice.mem, h \in Nat : h <= k => h \in DOMAIN slice.mem
<1>1. /\ cmds \in Seq(Commands) /\ IsFiniteSet(DOMAIN slice.mem)
      /\ DOMAIN slice.mem = 0..(Cardinality(DOMAIN slice.mem) - 1)
      /\ \A k \in DOMAIN slice.mem : slice.mem[k] \in [op : Ops, arg : Int]
  BY DyldPatchAssumption DEF IsSlice, cmds
<1>2. Cardinality(DOMAIN slice.mem) \in Nat
  BY <1>1, FS_CardinalityType
<1>3. QED
  BY <1>1, <1>2

LEMMA CommandKinds ==
    ASSUME NEW c \in Commands
    PROVE  /\ IsSegment(c) => c \in Segments
           /\ IsBuild(c) => c.platform \in Nat
           /\ IsSymtab(c) => c.syms \in Seq(Symbols)
BY DEF Commands, Segments, IsSegment, IsBuild, IsSymtab

LEMMA PlatformFound == ASSUME IsSlice(slice) PROVE macho_get_platform \in 0..5
<1> DEFINE hits == {n \in DOMAIN cmds : IsBuild(cmds[n])}
           n == FirstOf(hits)
<1>1. cmds \in Seq(Commands)
  BY SliceFacts
<1>2. hits # {} => IsBuild(cmds[n]) /\ cmds[n] \in Commands
  BY <1>1, FirstIsHit
<1>3. hits = {} => n = 0
  BY DEF FirstOf
<1>4. macho_get_platform = IF n = 0 \/ cmds[n].platform > 5 THEN 0 ELSE cmds[n].platform
  BY DEF macho_get_platform, FirstIn, FirstOf
<1>5. n = 0 \/ cmds[n].platform \in Nat
  BY <1>2, <1>3, CommandKinds
<1> HIDE DEF n
<1>6. QED
  BY <1>4, <1>5

LEMMA SegmentFound ==
    ASSUME IsSlice(slice), NEW name
    PROVE  /\ \A seg \in macho_get_segment(name) :
                 seg \in Range(cmds) /\ IsSegment(seg) /\ seg \in Segments /\ seg.name = name
           /\ \A seg, other \in macho_get_segment(name) : seg = other
<1> DEFINE Stop(c) == ~ IsSegment(c) \/ c.name = name
           hits == {n \in DOMAIN cmds : Stop(cmds[n])}
           n == FirstOf(hits)
<1>1. cmds \in Seq(Commands) /\ DOMAIN cmds = 1..Len(cmds)
  BY SliceFacts, LenProperties
<1>2. hits # {} => Stop(cmds[n]) /\ cmds[n] \in Commands /\ n \in DOMAIN cmds
  BY <1>1, FirstIsHit
<1>3. hits = {} => n = 0
  BY DEF FirstOf
<1>4. macho_get_segment(name) = IF n = 0 \/ ~ IsSegment(cmds[n]) THEN {} ELSE {cmds[n]}
  BY DEF macho_get_segment, FirstIn, FirstOf
<1> HIDE DEF n, hits
<1>5. n = 0 \/ (cmds[n] \in Range(cmds) /\ Stop(cmds[n]) /\ cmds[n] \in Commands)
  BY <1>2, <1>3 DEF Range
<1>6. QED
  BY <1>4, <1>5, CommandKinds

LEMMA SectionFound ==
    ASSUME NEW seg \in Segments, NEW name
    PROVE  /\ \A s \in macho_get_section(seg, name) :
                 s \in Range(seg.sects) /\ s \in Sections /\ s.name = name
           /\ \A s, t \in macho_get_section(seg, name) : s = t
<1> DEFINE Named(s) == s.name = name
           hits == {n \in DOMAIN seg.sects : Named(seg.sects[n])}
           n == FirstOf(hits)
<1>1. seg.sects \in Seq(Sections) /\ DOMAIN seg.sects = 1..Len(seg.sects)
  BY LenProperties DEF Segments
<1>2. hits # {} => Named(seg.sects[n]) /\ seg.sects[n] \in Sections /\ n \in DOMAIN seg.sects
  <2>1. hits \in SUBSET DOMAIN seg.sects
    OBVIOUS
  <2>2. n \in hits => Named(seg.sects[n]) /\ n \in DOMAIN seg.sects
    OBVIOUS
  <2> HIDE DEF hits
  <2>3. hits # {} => n \in hits /\ seg.sects[n] \in Sections
    BY <1>1, <2>1, FirstIsHit
  <2>4. QED
    BY <2>2, <2>3
<1>3. hits = {} => n = 0
  BY DEF FirstOf
<1>4. macho_get_section(seg, name) = IF n = 0 THEN {} ELSE {seg.sects[n]}
  BY DEF macho_get_section, FirstIn, FirstOf
<1> HIDE DEF n, hits
<1>5. n = 0 \/ (/\ seg.sects[n] \in Range(seg.sects) /\ Named(seg.sects[n])
                /\ seg.sects[n] \in Sections)
  BY <1>2, <1>3 DEF Range
<1>6. QED
  BY <1>4, <1>5

LEMMA SymbolFound ==
    ASSUME IsSlice(slice), DOMAIN words = DOMAIN slice.mem, NEW name,
           NEW f \in macho_find_symbol(name)
    PROVE  f.offset \in Nat /\ f.len \in Nat
<1> DEFINE tabs == {n \in DOMAIN cmds : IsSymtab(cmds[n])}
           n == FirstOf(tabs)
           syms == cmds[n].syms
           Named(s) == s.name = name
           hits == {m \in DOMAIN syms : Named(syms[m])}
           k == IF n = 0 THEN 0 ELSE FirstOf(hits)
           nexts == IF k < Len(syms) THEN {syms[k + 1].offset} ELSE {0} \cup DOMAIN words
<1>1. cmds \in Seq(Commands)
  BY SliceFacts
<1>2. tabs # {} => syms \in Seq(Symbols)
  BY <1>1, FirstIsHit, CommandKinds
<1>3. tabs = {} => n = 0
  BY DEF FirstOf
<1>4. macho_find_symbol(name) =
          IF k = 0 THEN {}
          ELSE {[offset |-> syms[k].offset,
                 len |-> IF next < syms[k].offset THEN 0 ELSE next - syms[k].offset] :
                    next \in nexts}
  BY DEF macho_find_symbol, FirstIn, FirstOf
<1> HIDE DEF n, nexts
<1>5. k # 0
  BY <1>4
<1>6. syms \in Seq(Symbols) /\ n # 0
  BY <1>2, <1>3, <1>5
<1>7. k = FirstOf(hits) /\ hits # {}
  BY <1>5, <1>6 DEF FirstOf
<1>8. k \in 1..Len(syms) /\ syms[k] \in Symbols /\ Len(syms) \in Nat
  <2>1. hits \in SUBSET DOMAIN syms
    OBVIOUS
  <2> HIDE DEF hits, syms
  <2>2. FirstOf(hits) \in 1..Len(syms) /\ syms[FirstOf(hits)] \in Symbols
    BY <1>6, <1>7, <2>1, FirstIsHit
  <2>3. QED
    BY <1>6, <1>7, <2>2, LenProperties
<1> HIDE DEF k, syms
<1>9. \A next \in nexts : next \in Nat
  <2>1. DOMAIN words \subseteq Nat
    BY SliceFacts
  <2>2. k < Len(syms) => syms[k + 1] \in Symbols
    BY <1>6, <1>8, ElementOfSeq
  <2>3. QED
    BY <2>1, <2>2 DEF nexts, Symbols
<1>10. syms[k].offset \in Nat
  BY <1>8 DEF Symbols
<1>11. PICK next \in nexts :
          f = [offset |-> syms[k].offset,
               len |-> IF next < syms[k].offset THEN 0 ELSE next - syms[k].offset]
  BY <1>4, <1>5
<1>12. QED
  BY <1>9, <1>10, <1>11

(* If a symbol has a length whatever follows the table, that is the distance to
   a symbol behind it. *)
LEMMA SymbolBehind ==
    ASSUME IsSlice(slice), DOMAIN words = DOMAIN slice.mem, NEW name,
           NEW f \in macho_find_symbol(name),
           \A g \in macho_find_symbol(name) : g.len > 0
    PROVE  /\ \A g \in macho_find_symbol(name) : g = f
           /\ \E s \in SymbolsOfSlice : s.offset = f.offset + f.len
<1> DEFINE tabs == {n \in DOMAIN cmds : IsSymtab(cmds[n])}
           n == FirstOf(tabs)
           syms == cmds[n].syms
           Named(s) == s.name = name
           hits == {m \in DOMAIN syms : Named(syms[m])}
           k == IF n = 0 THEN 0 ELSE FirstOf(hits)
           nexts == IF k < Len(syms) THEN {syms[k + 1].offset} ELSE {0} \cup DOMAIN words
           Found(next) == [offset |-> syms[k].offset,
                           len |-> IF next < syms[k].offset THEN 0 ELSE next - syms[k].offset]
<1>1. cmds \in Seq(Commands)
  BY SliceFacts
<1>2. tabs # {} => syms \in Seq(Symbols)
  BY <1>1, FirstIsHit, CommandKinds
<1>3. tabs = {} => n = 0
  BY DEF FirstOf
<1>4. macho_find_symbol(name) = IF k = 0 THEN {} ELSE {Found(next) : next \in nexts}
  BY DEF macho_find_symbol, FirstIn, FirstOf
<1>5. SymbolsOfSlice = IF n = 0 THEN {} ELSE Range(syms)
  BY DEF SymbolsOfSlice, FirstIn, FirstOf
<1> HIDE DEF n, nexts
<1>6. k # 0
  BY <1>4
<1>7. syms \in Seq(Symbols) /\ n # 0
  BY <1>2, <1>3, <1>6
<1>8. k = FirstOf(hits) /\ hits # {}
  BY <1>6, <1>7 DEF FirstOf
<1>9. k \in 1..Len(syms) /\ syms[k] \in Symbols /\ Len(syms) \in Nat
  <2>1. hits \in SUBSET DOMAIN syms
    OBVIOUS
  <2> HIDE DEF hits, syms
  <2>2. FirstOf(hits) \in 1..Len(syms) /\ syms[FirstOf(hits)] \in Symbols
    BY <1>7, <1>8, <2>1, FirstIsHit
  <2>3. QED
    BY <1>7, <1>8, <2>2, LenProperties
<1> HIDE DEF k, syms
<1>10. syms[k].offset \in Nat
  BY <1>9 DEF Symbols
<1>11. k < Len(syms)
  <2> SUFFICES ASSUME ~ (k < Len(syms)) PROVE FALSE
    OBVIOUS
  <2>1. 0 \in nexts
    BY DEF nexts
  <2>2. Found(0) \in macho_find_symbol(name)
    BY <1>4, <1>6, <2>1
  <2>3. Found(0).len = 0
    BY <1>10
  <2>4. QED
    BY <2>2, <2>3
<1>12. syms[k + 1] \in Symbols /\ syms[k + 1] \in Range(syms)
  <2>1. k + 1 \in 1..Len(syms)
    BY <1>9, <1>11
  <2>2. QED
    BY <1>7, <2>1, ElementOfSeq, LenProperties DEF Range
<1>13. \A g \in macho_find_symbol(name) : g = Found(syms[k + 1].offset)
  BY <1>4, <1>11 DEF nexts
<1>14. f.offset + f.len = syms[k + 1].offset
  <2>1. f = Found(syms[k + 1].offset) /\ f.len > 0 /\ syms[k + 1].offset \in Nat
    BY <1>12, <1>13 DEF Symbols
  <2>2. QED
    BY <1>10, <2>1
<1>15. QED
  BY <1>5, <1>7, <1>12, <1>13, <1>14

(* The words of the platform check are those its length covers. *)
LEMMA LengthCovers ==
    ASSUME IsSlice(slice), DOMAIN words = DOMAIN slice.mem, HasLength,
           NEW f \in macho_find_symbol("forEachSupportedPlatform"), NEW k \in CheckWords
    PROVE  k \in DOMAIN words /\ Within(k, f.offset, f.len)
<1>1. /\ \A g \in macho_find_symbol("forEachSupportedPlatform") : g = f
      /\ \E s \in SymbolsOfSlice : s.offset = f.offset + f.len
  BY SymbolBehind DEF HasLength
<1>2. PICK s \in SymbolsOfSlice : s.offset = f.offset + f.len
  BY <1>1
<1>3. f.offset \in Nat /\ f.len \in Nat /\ f.len > 0
  BY SymbolFound DEF HasLength
<1>4. k \in DOMAIN words /\ f.offset <= k /\ (f.offset < s.offset => k < s.offset)
  BY <1>1 DEF CheckWords
<1>5. QED
  BY <1>2, <1>3, <1>4 DEF Within

(* A section of a segment of the slice is one of its sections. *)
LEMMA SectionOfSlice ==
    ASSUME NEW seg \in Range(cmds), IsSegment(seg), NEW s \in Range(seg.sects)
    PROVE  s \in SectionsOf(slice)
BY DEF SectionsOf, cmds

LEMMA RegionFound ==
    ASSUME IsSlice(slice), NEW base \in get_shc_region
    PROVE  /\ base \in Nat
           /\ \E seg \in macho_get_segment("__TEXT") :
                 \E sect \in macho_get_section(seg, "__unwind_info") :
                     base = sect.offset + sect.size + (seg.filesize - sect.offset) \div 2
<1>1. PICK seg \in macho_get_segment("__TEXT") :
         \E sect \in macho_get_section(seg, "__unwind_info") :
             base = sect.offset + sect.size + (seg.filesize - sect.offset) \div 2
  BY DEF get_shc_region
<1>2. PICK sect \in macho_get_section(seg, "__unwind_info") :
         base = sect.offset + sect.size + (seg.filesize - sect.offset) \div 2
  BY <1>1
<1>3. seg \in Segments
  BY SegmentFound
<1>4. seg.filesize \in Nat /\ sect \in Sections
  BY <1>3, SectionFound DEF Segments
<1>5. sect.offset \in Nat /\ sect.size \in Nat
  BY <1>4 DEF Sections
<1>6. base \in Nat
  BY <1>2, <1>4, <1>5
<1>7. QED
  BY <1>1, <1>6

LEMMA OneRegion ==
    ASSUME IsSlice(slice), NEW a \in get_shc_region, NEW b \in get_shc_region
    PROVE  a = b
<1>1. PICK sa \in macho_get_segment("__TEXT") :
         \E ta \in macho_get_section(sa, "__unwind_info") :
             a = ta.offset + ta.size + (sa.filesize - ta.offset) \div 2
  BY RegionFound
<1>2. PICK sb \in macho_get_segment("__TEXT") :
         \E tb \in macho_get_section(sb, "__unwind_info") :
             b = tb.offset + tb.size + (sb.filesize - tb.offset) \div 2
  BY RegionFound
<1>3. sa = sb /\ sa \in Segments
  BY SegmentFound
<1>4. \A s, t \in macho_get_section(sa, "__unwind_info") : s = t
  BY <1>3, SectionFound
<1>5. QED
  BY <1>1, <1>2, <1>3, <1>4

(* The section that covers an offset, or an address, does. *)
LEMMA NoSectionAt ==
    ASSUME IsSlice(slice), NEW k, \A s \in SectionsOf(slice) : ~ Within(k, s.offset, s.size)
    PROVE  macho_find_section_for_ptr(k) = {}
<1> DEFINE Covers(c) == IsSegment(c) /\ Within(k, c.fileoff, c.filesize)
           Holds(s) == Within(k, s.offset, s.size)
           segs == {n \in DOMAIN cmds : Covers(cmds[n])}
           seg == FirstOf(segs)
           hits == {n \in DOMAIN cmds[seg].sects : Holds(cmds[seg].sects[n])}
           sect == IF seg = 0 THEN 0 ELSE FirstOf(hits)
<1>1. cmds \in Seq(Commands) /\ DOMAIN cmds = 1..Len(cmds)
  BY SliceFacts, LenProperties
<1>2. segs # {} => IsSegment(cmds[seg]) /\ cmds[seg] \in Range(cmds)
  <2>1. segs \in SUBSET DOMAIN cmds
    OBVIOUS
  <2>2. segs # {} => seg \in segs
    BY <1>1, <2>1, FirstIsHit
  <2>3. QED
    BY <2>2 DEF Range
<1>3. segs = {} => seg = 0
  BY DEF FirstOf
<1>4. macho_find_section_for_ptr(k) = IF sect = 0 THEN {} ELSE {cmds[seg].sects[sect]}
  BY DEF macho_find_section_for_ptr, FirstIn, FirstOf
<1> HIDE DEF seg, segs
<1>5. seg # 0 => hits = {}
  <2> HAVE seg # 0
  <2>1. IsSegment(cmds[seg]) /\ cmds[seg] \in Range(cmds)
    BY <1>2, <1>3
  <2>2. \A n \in DOMAIN cmds[seg].sects : cmds[seg].sects[n] \in SectionsOf(slice)
    BY <2>1, SectionOfSlice DEF Range
  <2>3. QED
    BY <2>2
<1>6. sect = 0
  BY <1>5 DEF FirstOf
<1>7. QED
  BY <1>4, <1>6

LEMMA SectionForVa ==
    ASSUME IsSlice(slice), NEW addr, NEW t \in macho_find_section_for_va(addr)
    PROVE  t \in SectionsOf(slice) /\ Within(addr, t.addr, t.size)
<1> DEFINE Covers(c) == IsSegment(c) /\ Within(addr, c.vmaddr, c.vmsize)
           Holds(s) == Within(addr, s.addr, s.size)
           segs == {n \in DOMAIN cmds : Covers(cmds[n])}
           seg == FirstOf(segs)
           sects == cmds[seg].sects
           hits == {n \in DOMAIN sects : Holds(sects[n])}
           sect == IF seg = 0 THEN 0 ELSE FirstOf(hits)
<1>1. cmds \in Seq(Commands) /\ DOMAIN cmds = 1..Len(cmds)
  BY SliceFacts, LenProperties
<1>2. segs # {} => /\ IsSegment(cmds[seg]) /\ cmds[seg] \in Range(cmds)
                   /\ sects \in Seq(Sections)
  <2>1. segs \in SUBSET DOMAIN cmds
    OBVIOUS
  <2>2. segs # {} => seg \in segs /\ cmds[seg] \in Commands
    BY <1>1, <2>1, FirstIsHit
  <2>3. segs # {} => IsSegment(cmds[seg]) /\ cmds[seg] \in Range(cmds)
    BY <2>2 DEF Range
  <2>4. QED
    BY <2>2, <2>3, CommandKinds DEF Segments
<1>3. segs = {} => seg = 0
  BY DEF FirstOf
<1>4. macho_find_section_for_va(addr) = IF sect = 0 THEN {} ELSE {sects[sect]}
  BY DEF macho_find_section_for_va, FirstIn, FirstOf
<1> HIDE DEF seg, segs
<1>5. seg # 0 /\ sect # 0 /\ sect = FirstOf(hits) /\ t = sects[sect]
  BY <1>4
<1>6. hits # {}
  BY <1>5 DEF FirstOf
<1>7. IsSegment(cmds[seg]) /\ cmds[seg] \in Range(cmds) /\ sects \in Seq(Sections)
  BY <1>2, <1>3, <1>5
<1>8. sect \in hits
  <2>1. hits \in SUBSET DOMAIN sects
    OBVIOUS
  <2> HIDE DEF hits, sects, sect
  <2>2. QED
    BY <1>5, <1>6, <1>7, <2>1, FirstIsHit
<1>9. t \in Range(cmds[seg].sects) /\ Holds(t)
  BY <1>5, <1>8 DEF Range
<1>10. QED
  BY <1>7, <1>9, SectionOfSlice

(* The room there is for the code is in __TEXT, in no section, and zero. *)
LEMMA RoomIsFree ==
    ASSUME IsSlice(slice), DOMAIN words = DOMAIN slice.mem, Roomy,
           NEW base \in get_shc_region, NEW k \in DOMAIN words,
           base <= k, k < base + 8 * Cardinality(CheckBranches)
    PROVE  /\ slice.mem[k] = Word("other", 0)
           /\ macho_find_section_for_ptr(k) = {}
           /\ \E seg \in macho_get_segment("__TEXT") : Within(k, seg.fileoff, seg.filesize)
<1>1. base \in Nat
  BY RegionFound
<1>2. PICK seg \in macho_get_segment("__TEXT") :
         \E sect \in macho_get_section(seg, "__unwind_info") :
             base = sect.offset + sect.size + (seg.filesize - sect.offset) \div 2
  BY RegionFound
<1>3. PICK sect \in macho_get_section(seg, "__unwind_info") :
         base = sect.offset + sect.size + (seg.filesize - sect.offset) \div 2
  BY <1>2
<1>4. /\ seg \in Range(cmds) /\ IsSegment(seg) /\ seg.name = "__TEXT" /\ seg \in Segments
  BY SegmentFound
<1>5. sect \in Range(seg.sects) /\ sect \in Sections /\ sect.name = "__unwind_info"
  BY <1>4, SectionFound
<1>6. /\ seg.filesize \in Nat /\ seg.fileoff \in Nat
      /\ sect.offset \in Nat /\ sect.size \in Nat
  BY <1>4, <1>5 DEF Segments, Sections
<1>7. /\ sect.size + 8 * Cardinality(CheckBranches) <= (seg.filesize - sect.offset) \div 2
      /\ Cardinality(CheckBranches) \in Nat /\ k \in Nat
  <2>1. IsFiniteSet(DOMAIN words) /\ DOMAIN words \subseteq Nat
    BY SliceFacts
  <2>2. Cardinality(CheckBranches) \in Nat
    BY <2>1, FS_Subset, FS_CardinalityType DEF Branches, CheckBranches
  <2>3. QED
    BY <1>3, <2>1, <2>2 DEF Roomy
<1> DEFINE half == (seg.filesize - sect.offset) \div 2
           room == 8 * Cardinality(CheckBranches)
<1>8. half \in Int /\ 2 * half <= seg.filesize - sect.offset /\ room \in Nat
  BY <1>6, <1>7
<1>9. sect.size + room <= half /\ base = sect.offset + sect.size + half /\ k < base + room
  BY <1>3, <1>7
<1> HIDE DEF half, room
<1>10. sect.offset + sect.size <= k /\ k < seg.filesize
  BY <1>6, <1>7, <1>8, <1>9
<1>11. /\ seg.fileoff <= sect.offset
       /\ slice.mem[k] = Word("other", 0)
       /\ \A s \in SectionsOf(slice) : ~ Within(k, s.offset, s.size)
  <2>1. k \in DOMAIN slice.mem /\ k < seg.fileoff + seg.filesize
    BY <1>6, <1>7, <1>10
  <2>2. PICK im \in Images : slice \in Range(im.slices)
    BY DEF IsSlice
  <2>3. QED
    BY <1>4, <1>5, <1>10, <2>1, <2>2, LayoutAssumption DEF cmds
<1>12. macho_find_section_for_ptr(k) = {}
  BY <1>11, NoSectionAt
<1>13. Within(k, seg.fileoff, seg.filesize)
  BY <1>6, <1>7, <1>10, <1>11 DEF Within
<1>14. QED
  BY <1>11, <1>12, <1>13

(* An address in the strings of __TEXT is at their offset. *)
LEMMA StringsFound ==
    ASSUME IsSlice(slice), NEW s \in macho_find_section("__TEXT", "__cstring"),
           NEW start \in macho_va_to_ptr(s.addr)
    PROVE  start = s.offset
<1>1. s \in SectionsOf(slice)
  <2>1. PICK seg \in macho_get_segment("__TEXT") : s \in macho_get_section(seg, "__cstring")
    BY DEF macho_find_section
  <2>2. seg \in Range(cmds) /\ IsSegment(seg) /\ seg \in Segments
    BY SegmentFound
  <2>3. s \in Range(seg.sects)
    BY <2>1, <2>2, SectionFound
  <2>4. QED
    BY <2>2, <2>3, SectionOfSlice
<1>2. PICK t \in macho_find_section_for_va(s.addr) : start = t.offset + (s.addr - t.addr)
  BY DEF macho_va_to_ptr
<1>3. t \in SectionsOf(slice) /\ Within(s.addr, t.addr, t.size)
  BY SectionForVa
<1>4. QED
  BY <1>1, <1>2, <1>3, LayoutAssumption DEF IsSlice

(* What is read of the slice does not change with its words. *)
LEMMA SliceKept ==
    ASSUME slice' = slice, DOMAIN words' = DOMAIN words
    PROVE  /\ \A name : macho_find_symbol(name)' = macho_find_symbol(name)
           /\ get_shc_region' = get_shc_region
           /\ Branches' = Branches /\ CheckBranches' = CheckBranches
           /\ InCacheWords' = InCacheWords
           /\ RegionBehind' = RegionBehind
           /\ macho_find_section("__TEXT", "__cstring")' = macho_find_section("__TEXT", "__cstring")
<1>1. ASSUME NEW name PROVE macho_find_symbol(name)' = macho_find_symbol(name)
  BY DEF macho_find_symbol, cmds, FirstIn, IsSymtab
<1>2. /\ macho_get_segment("__TEXT")' = macho_get_segment("__TEXT")
      /\ \A seg, name : macho_get_section(seg, name)' = macho_get_section(seg, name)
  BY DEF macho_get_segment, macho_get_section, cmds, FirstIn, IsSegment
<1>3. get_shc_region' = get_shc_region
  BY DEF get_shc_region, macho_get_segment, macho_get_section, cmds, FirstIn, IsSegment
<1>4. Branches' = Branches /\ CheckBranches' = CheckBranches
  <2>1. Branches' = Branches
    BY DEF Branches
  <2>2. QED
    BY <1>1, <2>1 DEF CheckBranches
<1>5. InCacheWords' = InCacheWords
  BY DEF InCacheWords, InCacheTest
<1>6. RegionBehind' = RegionBehind
  BY <1>1, <1>3 DEF RegionBehind
<1>7. macho_find_section("__TEXT", "__cstring")' = macho_find_section("__TEXT", "__cstring")
  BY DEF macho_find_section, macho_get_segment, macho_get_section, cmds, FirstIn, IsSegment
<1>9. QED
  BY <1>1, <1>3, <1>4, <1>5, <1>6, <1>7

-----------------------------------------------------------------------------
(* Types, and where the code goes. *)
LEMMA TypedSlice == ASSUME TypeOK PROVE IsSlice(slice)
BY DEF TypeOK, IsSlice, Range

(* Before the scan of the platform check, and in every state in which the
   patch has stopped there, nothing is written. *)
Unscanned ==
    /\ pc \in Early \cup {"spin", "fault", "patch_platform_check"}
    /\ pc = "patch_platform_check" => i = 0
LEMMA NothingYet == TypeOK /\ Untouched /\ Unscanned => CheckInv /\ CodeInv /\ FoundInv
<1> SUFFICES ASSUME TypeOK, Untouched, Unscanned
             PROVE  CheckInv /\ CodeInv /\ FoundInv
  OBVIOUS
<1>1. IsSlice(slice) /\ pc \notin Late
  BY TypedSlice DEF Unscanned, Early, Late
<1>2. /\ IsFiniteSet(DOMAIN slice.mem) /\ DOMAIN slice.mem \subseteq Nat
      /\ \A k \in DOMAIN slice.mem : slice.mem[k].op \in Ops
  BY <1>1, SliceFacts
<1>3. CheckInv
  <2>1. func.offset \in Nat /\ words = slice.mem
    BY DEF TypeOK, Untouched
  <2>2. ASSUME i = 0, NEW k \in DOMAIN words, Within(k, func.offset, i) PROVE FALSE
    BY <1>2, <2>1, <2>2 DEF Within
  <2>3. QED
    BY <1>1, <2>1, <2>2 DEF CheckInv, Unscanned
<1>4. CodeInv
  <2>1. Led = {} /\ Sites = {} /\ words = slice.mem /\ shc_copied = 0
    BY DEF Led, Sites, CheckBranches, Branches, IsJump, Untouched
  <2>2. Cardinality(CheckBranches) \in Nat /\ Cardinality(ReachedBranches) \in Nat
    BY <1>2, <2>1, FS_Subset, FS_CardinalityType DEF Branches, CheckBranches, ReachedBranches
  <2>3. QED
    BY <2>1, <2>2 DEF CodeInv, Accounted
<1>5. FoundInv
  BY <1>1 DEF FoundInv, Late, Untouched
<1>6. QED
  BY <1>3, <1>4, <1>5

LEMMA PatchInit == Init => IInv
<1> SUFFICES ASSUME Init PROVE IInv
  OBVIOUS
<1>1. /\ image.slices \in Seq(Range(image.slices)) \ {<<>>} /\ image \in Images
  BY DyldPatchAssumption DEF Init, read_file
<1>2. 1 \in DOMAIN image.slices
  BY <1>1, EmptySeq, LenProperties
<1>3. IsSlice(slice) /\ slice = image.slices[1] /\ words = slice.mem
  BY <1>1, <1>2 DEF Init, read_file, IsSlice, Range
<1>4. \A k \in DOMAIN words : words[k].op \in Ops
  BY <1>3, SliceFacts
<1>5. TypeOK
  <2>1. image \in Images /\ \E n \in DOMAIN image.slices : slice = image.slices[n]
    BY <1>1, <1>2, <1>3
  <2>2. func.offset = 0 /\ func.len = 0
    BY DEF Init, NoFunc
  <2>3. has_found_dyld_in_cache \in BOOLEAN
    BY DEF Init
  <2>4. /\ pc = "macho_get_magic" /\ platform = 0 /\ i = 0
        /\ _internal_shc_loc = NoLoc /\ shc_copied = 0
    BY DEF Init
  <2>5. QED
    BY <1>3, <1>4, <2>1, <2>2, <2>3, <2>4 DEF TypeOK, NoLoc
<1>6. Untouched /\ pc \in Early /\ pc # "patch_platform_check"
  BY <1>3 DEF Init, Untouched, Early
<1>7. PatchInv
  BY <1>5, <1>6 DEF PatchInv, Untouched
<1>8. CheckInv /\ CodeInv /\ FoundInv
  BY <1>5, <1>6, NothingYet DEF Unscanned
<1>9. QED
  BY <1>7, <1>8 DEF IInv

(* The code a branch is led through. *)
LEMMA CodeForFacts ==
    ASSUME NEW plat, NEW jmp, IsJump(jmp)
    PROVE  /\ DOMAIN CodeFor(plat, jmp) = 1..Len(CodeFor(plat, jmp))
           /\ Len(CodeFor(plat, jmp)) = IF jmp.op = "br" THEN 4 ELSE 8
           /\ \A x \in 1..Len(CodeFor(plat, jmp)) : CodeFor(plat, jmp)[x].op \in CodeOps
<1>1. CASE jmp.op = "br"
  BY <1>1 DEF CodeFor, shellcode_br, CodeOps, Word
<1>2. CASE jmp.op = "blr"
  BY <1>2 DEF CodeFor, shellcode_blr, CodeOps, Word
<1>3. QED
  BY <1>1, <1>2 DEF IsJump

LEMMA CodeFacts ==
    ASSUME NEW jmp, IsJump(jmp)
    PROVE  /\ Shellcode(jmp) = CodeFor(platform, jmp)
           /\ DOMAIN Shellcode(jmp) = 1..Len(Shellcode(jmp))
           /\ Len(Shellcode(jmp)) = IF jmp.op = "br" THEN 4 ELSE 8
           /\ \A x \in 1..Len(Shellcode(jmp)) : Shellcode(jmp)[x].op \in CodeOps
<1>1. Shellcode(jmp) = CodeFor(platform, jmp)
  BY DEF Shellcode, CodeFor
<1>2. QED
  BY <1>1, CodeForFacts

(* It stays where it is while its words do. *)
LEMMA PlacedStays ==
    ASSUME NEW mem, NEW mem2, DOMAIN mem2 = DOMAIN mem, DOMAIN mem \subseteq Nat, NEW plat,
           NEW region \in Nat, NEW n \in Nat, NEW m \in Nat, n <= m,
           NEW jmp, IsJump(jmp), NEW to, PlacedIn(mem, plat, region, n, jmp, to),
           \A k \in DOMAIN mem :
               region <= k /\ k < region + 8 * n /\ mem[k].op \in CodeOps => mem2[k] = mem[k]
    PROVE  PlacedIn(mem2, plat, region, m, jmp, to)
<1> DEFINE code == CodeFor(plat, jmp)
<1>1. /\ DOMAIN code = 1..Len(code) /\ Len(code) \in {4, 8}
      /\ \A x \in 1..Len(code) : code[x].op \in CodeOps
  BY CodeForFacts
<1>2. /\ to \in Nat /\ region <= to /\ to + Len(code) <= region + 8 * n
      /\ \A x \in DOMAIN code : to + x - 1 \in DOMAIN mem /\ mem[to + x - 1] = code[x]
  BY DEF PlacedIn
<1> HIDE DEF code
<1>3. ASSUME NEW x \in DOMAIN code
      PROVE  to + x - 1 \in DOMAIN mem2 /\ mem2[to + x - 1] = code[x]
  <2>1. region <= to + x - 1 /\ to + x - 1 < region + 8 * n
    BY <1>1, <1>2
  <2>2. to + x - 1 \in DOMAIN mem /\ mem[to + x - 1] = code[x] /\ code[x].op \in CodeOps
    BY <1>1, <1>2
  <2>3. QED
    BY <2>1, <2>2
<1>4. to + Len(code) <= region + 8 * m
  BY <1>1, <1>2
<1>5. QED
  BY <1>2, <1>3, <1>4 DEF PlacedIn, code

LEMMA CodeIsOps == CodeOps \subseteq Ops
BY DEF CodeOps, Ops

(* A step that leaves the slice, what it found of the region, and the function
   that is scanned. *)
Kept ==
    /\ image' = image /\ slice' = slice /\ words' = words /\ platform' = platform
    /\ _internal_shc_loc' = _internal_shc_loc /\ shc_copied' = shc_copied
Pcs == Early \cup Late \cup {"patch_platform_check", "spin", "fault"}
LEMMA PcTyped == TypeOK => pc \in Pcs
BY DEF TypeOK, Pcs, Early, Late

LEMMA KeptStep ==
    ASSUME PatchInv, Kept, pc' \in Pcs, has_found_dyld_in_cache' \in BOOLEAN,
           func'.offset \in Nat, func'.len \in Nat, i' \in 0..func'.len,
           pc' \in Early =>
               pc \in Early /\ has_found_dyld_in_cache' = has_found_dyld_in_cache,
           pc' = "patch_platform_check" =>
               func' \in macho_find_symbol("forEachSupportedPlatform")
    PROVE  PatchInv'
<1>1. TypeOK /\ slice' = slice /\ DOMAIN words' = DOMAIN words
  BY DEF PatchInv, Kept
<1>2. /\ get_shc_region' = get_shc_region
      /\ macho_find_symbol("forEachSupportedPlatform")'
            = macho_find_symbol("forEachSupportedPlatform")
  BY <1>1, SliceKept
<1>3. TypeOK'
  BY <1>1 DEF TypeOK, Kept, Pcs, Early, Late
<1>4. (pc \in Early => Untouched)'
  BY DEF PatchInv, Kept, Untouched
<1>5. (_internal_shc_loc \in {NoLoc} \cup get_shc_region)'
  BY <1>2 DEF PatchInv, Kept, NoLoc
<1>6. (_internal_shc_loc = NoLoc => shc_copied = 0)'
  BY DEF PatchInv, Kept, NoLoc
<1>7. (pc = "patch_platform_check" => func \in macho_find_symbol("forEachSupportedPlatform"))'
  BY <1>2
<1>8. QED
  BY <1>3, <1>4, <1>5, <1>6, <1>7 DEF PatchInv

(* What the scan of the platform check does to a word, and how long the region
   is known. *)
LEMMA InjectTyped ==
    ASSUME PatchInv, NEW at \in DOMAIN words, IsJump(words[at]), NEW base \in Nat,
           Inject(at, base)
    PROVE  /\ pc' \in {pc, "fault"} /\ shc_copied' \in Nat
           /\ DOMAIN words' = DOMAIN words /\ \A k \in DOMAIN words' : words'[k].op \in Ops
<1> DEFINE jmp == words[at]
           loc == CopyLoc(base, jmp)
           code == IF Copied(jmp) THEN Shellcode(jmp) ELSE <<>>
<1>1. CASE Goto("fault") /\ UNCHANGED <<words, shc_copied>>
  BY <1>1 DEF PatchInv, TypeOK, Goto
<1>2. CASE /\ words' = [k \in DOMAIN words |->
                           IF k = at THEN BranchTo(jmp, loc)
                           ELSE IF Within(k, loc, Len(code)) THEN code[k - loc + 1]
                           ELSE words[k]]
           /\ shc_copied' = shc_copied + (IF Copied(jmp) THEN 1 ELSE 0)
           /\ UNCHANGED pc
  <2>1. loc \in Nat /\ shc_copied \in Nat
    <3>1. shc_copied \in Nat
      BY DEF PatchInv, TypeOK
    <3>2. Len(Shellcode(jmp)) \in {4, 8}
      BY CodeFacts
    <3>3. shc_copied * Len(Shellcode(jmp)) \in Nat
      BY <3>1, <3>2
    <3>4. QED
      BY <3>1, <3>3 DEF CopyLoc
  <2>2. BranchTo(jmp, loc).op \in Ops
    BY DEF BranchTo, Word, Ops
  <2>3. /\ Len(code) \in Nat /\ \A x \in 1..Len(code) : code[x].op \in Ops
    BY CodeFacts, CodeIsOps
  <2>4. DOMAIN words \subseteq Nat
    BY TypedSlice, SliceFacts DEF PatchInv, TypeOK
  <2> HIDE DEF loc, code, jmp
  <2>5. \A k \in DOMAIN words : Within(k, loc, Len(code)) => k - loc + 1 \in 1..Len(code)
    BY <2>1, <2>3, <2>4 DEF Within
  <2>6. \A k \in DOMAIN words' : words'[k].op \in Ops
    BY <1>2, <2>2, <2>3, <2>5 DEF PatchInv, TypeOK
  <2>7. QED
    BY <1>2, <2>1, <2>6
<1>3. QED
  BY <1>1, <1>2 DEF Inject

LEMMA ScanPlatformCheckTyped == ASSUME PatchInv, ScanPlatformCheck PROVE PatchInv'
<1> DEFINE at == func.offset + i
           base == IF _internal_shc_loc # NoLoc THEN {_internal_shc_loc} ELSE get_shc_region
<1>1. /\ TypeOK /\ IsSlice(slice) /\ slice' = slice /\ func' = func /\ i' = i + 1
      /\ i < func.len /\ pc = "patch_platform_check"
  BY TypedSlice DEF PatchInv, ScanPlatformCheck
<1>2. base \subseteq get_shc_region /\ get_shc_region \subseteq Nat
  BY <1>1, RegionFound DEF PatchInv
<1>3. /\ pc' \in {pc, "fault"} /\ shc_copied' \in Nat
      /\ DOMAIN words' = DOMAIN words /\ \A k \in DOMAIN words' : words'[k].op \in Ops
      /\ _internal_shc_loc' \in {NoLoc} \cup get_shc_region
      /\ _internal_shc_loc' = NoLoc => shc_copied' = 0
  <2>1. CASE at \in DOMAIN words /\ IsJump(words[at]) /\ base # {}
    <3>1. _internal_shc_loc' \in base /\ Inject(at, _internal_shc_loc')
      BY <2>1 DEF ScanPlatformCheck
    <3>2. _internal_shc_loc' \in get_shc_region /\ _internal_shc_loc' \in Nat
      BY <1>2, <3>1
    <3> HIDE DEF at, base
    <3>3. QED
      BY <2>1, <3>1, <3>2, InjectTyped DEF NoLoc
  <2>2. CASE ~ (at \in DOMAIN words /\ IsJump(words[at]) /\ base # {})
    <3>1. UNCHANGED <<pc, words, shc>>
      BY <2>2 DEF ScanPlatformCheck
    <3>2. QED
      BY <1>1, <3>1 DEF shc, PatchInv, TypeOK
  <2>3. QED
    BY <2>1, <2>2
<1>4. /\ get_shc_region' = get_shc_region
      /\ macho_find_symbol("forEachSupportedPlatform")'
            = macho_find_symbol("forEachSupportedPlatform")
  BY <1>1, <1>3, SliceKept
<1>5. pc' \notin Early
  BY <1>1, <1>3 DEF Early
<1>6. TypeOK'
  <2>1. /\ image' = image /\ platform' = platform
        /\ has_found_dyld_in_cache' = has_found_dyld_in_cache
    BY DEF ScanPlatformCheck
  <2>2. _internal_shc_loc' \in {NoLoc} \cup Nat
    BY <1>2, <1>3
  <2>3. i' \in 0..func'.len
    BY <1>1 DEF TypeOK
  <2>4. QED
    BY <1>1, <1>3, <2>1, <2>2, <2>3 DEF TypeOK
<1>7. QED
  BY <1>1, <1>3, <1>4, <1>5, <1>6 DEF PatchInv

LEMMA ScanStartTyped == ASSUME PatchInv, ScanStart PROVE PatchInv'
<1> DEFINE at == func.offset + i
<1>1. /\ TypeOK /\ image' = image /\ slice' = slice /\ func' = func /\ platform' = platform
      /\ i < func.len /\ UNCHANGED shc /\ pc = "scan_start"
  BY DEF PatchInv, ScanStart
<1>2. /\ i' \in {i, i + 1} /\ pc' \in {pc, "fault"}
      /\ has_found_dyld_in_cache' \in {TRUE, has_found_dyld_in_cache}
      /\ words' \in {words, [words EXCEPT ![at + 5] = Word("nop", 0),
                                         ![at + 8] = Word("mov_w0", 0)]}
  <2>1. CASE ~ MatchesAt(words, at)
    BY <2>1, Zenon DEF ScanStart
  <2>2. CASE MatchesAt(words, at) /\ (pf_follow_xref(at + 2) = {} \/ pf_follow_xref(at + 6) = {})
    BY <2>2, Zenon DEF ScanStart, Goto
  <2>3. CASE MatchesAt(words, at) /\ ~ (pf_follow_xref(at + 2) = {} \/ pf_follow_xref(at + 6) = {})
    BY <2>3, Zenon DEF ScanStart
  <2>4. QED
    BY <2>1, <2>2, <2>3
<1>3. DOMAIN words' = DOMAIN words /\ \A k \in DOMAIN words' : words'[k].op \in Ops
  BY <1>1, <1>2 DEF TypeOK, Word, Ops
<1>4. has_found_dyld_in_cache' \in BOOLEAN
  BY <1>1, <1>2, Zenon DEF TypeOK
<1>5. i' \in 0..func'.len
  BY <1>1, <1>2 DEF TypeOK
<1>6. _internal_shc_loc' = _internal_shc_loc /\ shc_copied' = shc_copied
  BY <1>1 DEF shc
<1>7. TypeOK'
  BY <1>1, <1>2, <1>3, <1>4, <1>5, <1>6 DEF TypeOK
<1>8. get_shc_region' = get_shc_region
  BY <1>1, <1>3, SliceKept
<1>9. QED
  BY <1>1, <1>2, <1>6, <1>7, <1>8 DEF PatchInv, Early, NoLoc

LEMMA PatchStep == ASSUME PatchInv, [Next]_vars PROVE PatchInv'
<1>1. TypeOK /\ IsSlice(slice) /\ pc \in Pcs
  BY TypedSlice, PcTyped DEF PatchInv
<1>2. /\ func.offset \in Nat /\ func.len \in Nat /\ i \in 0..func.len
      /\ has_found_dyld_in_cache \in BOOLEAN
  BY <1>1 DEF TypeOK
<1>3. CASE GetMagic
  <2>1. Kept /\ UNCHANGED <<func, i, has_found_dyld_in_cache>> /\ pc \in Early
    BY <1>3 DEF GetMagic, Kept, scan, shc, Early
  <2>2. pc' \in {"macho_get_platform", "macho_find_arch", "spin"}
    BY <1>3 DEF GetMagic, Goto, spin
  <2>3. QED
    BY <1>2, <2>1, <2>2, KeptStep DEF Pcs, Early
<1>4. CASE FindArch
  <2>1. /\ UNCHANGED <<image, platform, func, i, _internal_shc_loc, shc_copied, has_found_dyld_in_cache>>
        /\ pc = "macho_find_arch"
    BY <1>4 DEF FindArch, scan, shc
  <2>2. Untouched
    BY <2>1 DEF PatchInv, Early
  <2>3. /\ pc' \in {"macho_get_platform", "spin"}
        /\ \E n \in DOMAIN image.slices : slice' = image.slices[n]
        /\ words' = slice'.mem
    <3> DEFINE hits == {n \in DOMAIN image.slices : image.slices[n].cpu = CPU_TYPE_ARM64}
               n == FirstOf(hits)
    <3>1. image.slices \in Seq(Range(image.slices))
      BY <1>1, DyldPatchAssumption DEF TypeOK
    <3>2. n = 0 \/ n \in DOMAIN image.slices
      <4>1. hits \in SUBSET DOMAIN image.slices
        OBVIOUS
      <4> HIDE DEF hits
      <4>2. QED
        BY <3>1, <4>1, FirstIsHit
    <3>3. IF n = 0 THEN pc' = "spin" /\ UNCHANGED <<slice, words>>
          ELSE /\ slice' = image.slices[n] /\ words' = slice'.mem
               /\ pc' = "macho_get_platform"
      BY <1>4, Zenon DEF FindArch, FirstIn, FirstOf, spin, Goto
    <3> HIDE DEF n, hits
    <3>4. QED
      BY <1>1, <2>2, <3>2, <3>3 DEF TypeOK, Untouched
  <2>4. IsSlice(slice')
    BY <1>1, <2>1, <2>3 DEF TypeOK, IsSlice, Range
  <2>5. \A k \in DOMAIN slice'.mem : slice'.mem[k].op \in Ops
    BY <2>4, DyldPatchAssumption DEF IsSlice
  <2>6. TypeOK'
    BY <1>1, <2>1, <2>3, <2>5 DEF TypeOK
  <2>7. Untouched'
    BY <2>1, <2>2, <2>3 DEF Untouched, NoLoc
  <2>8. QED
    BY <2>3, <2>6, <2>7 DEF PatchInv, Untouched
<1>5. CASE GetPlatform
  <2>1. /\ UNCHANGED <<image, slice, words, func, i, _internal_shc_loc, shc_copied, has_found_dyld_in_cache>>
        /\ pc = "macho_get_platform" /\ platform' = macho_get_platform
        /\ pc' \in {"spin", "platform_check_patch"}
    BY <1>5 DEF GetPlatform, scan, shc, Goto
  <2>2. platform' \in 0..5
    BY <1>1, <2>1, PlatformFound
  <2>3. TypeOK'
    BY <1>1, <2>1, <2>2 DEF TypeOK
  <2>4. Untouched /\ Untouched'
    BY <2>1 DEF PatchInv, Untouched, Early, NoLoc
  <2>5. QED
    BY <2>1, <2>3, <2>4 DEF PatchInv, Untouched
<1>6. ASSUME NEW from \in Pcs, NEW name, NEW to \in Pcs \ Early, FindFunction(from, name, to),
             to = "patch_platform_check" => name = "forEachSupportedPlatform"
      PROVE  PatchInv'
  <2>1. Kept /\ UNCHANGED has_found_dyld_in_cache
    BY <1>6 DEF FindFunction, Kept, shc
  <2>2. CASE pc' = "fault" /\ UNCHANGED scan
    BY <1>2, <2>1, <2>2, KeptStep DEF scan, Pcs, Early
  <2>3. CASE func' \in macho_find_symbol(name) /\ i' = 0 /\ pc' = to
    <3>1. func'.offset \in Nat /\ func'.len \in Nat
      BY <1>1, <2>3, SymbolFound DEF TypeOK
    <3>2. i' \in 0..func'.len
      BY <2>3, <3>1
    <3>3. QED
      BY <1>2, <1>6, <2>1, <2>3, <3>1, <3>2, KeptStep
  <2>4. QED
    BY <1>6, <2>2, <2>3 DEF FindFunction, Goto
<1>7. CASE platform_check_patch
  BY <1>6, <1>7 DEF platform_check_patch, Pcs, Early
<1>8. CASE ScanPlatformCheck
  BY <1>8, ScanPlatformCheckTyped
<1>9. ASSUME Kept, UNCHANGED <<func, i, has_found_dyld_in_cache>>,
             pc' \in {"cstring", "spin", "fault", "dyld_in_cache_patch", "write_file", "done"}
      PROVE  PatchInv'
  BY <1>2, <1>9, KeptStep DEF Pcs, Early, Late
<1>10. CASE PlatformCheckScanned
  BY <1>9, <1>10 DEF PlatformCheckScanned, Goto, Kept, scan, shc
<1>11. CASE FindCstring
  <2>1. pc' \in {"spin", "fault", "dyld_in_cache_patch", "write_file"}
    BY <1>11 DEF FindCstring, Goto
  <2>2. QED
    BY <1>9, <1>11, <2>1 DEF FindCstring, Kept, scan, shc
<1>12. CASE dyld_in_cache_patch
  BY <1>6, <1>12 DEF dyld_in_cache_patch, Pcs, Late, Early
<1>13. CASE ScanStart
  BY <1>13, ScanStartTyped
<1>14. CASE StartScanned
  BY <1>9, <1>14 DEF StartScanned, Goto, spin, Kept, scan, shc
<1>15. CASE WriteFile
  BY <1>9, <1>15 DEF WriteFile, Goto, spin, Kept, scan, shc
<1>16. CASE UNCHANGED vars
  <2>1. Kept /\ UNCHANGED <<func, i, pc, has_found_dyld_in_cache>>
    BY <1>16 DEF vars, Kept, scan, shc
  <2>2. QED
    BY <1>1, <1>2, <2>1, KeptStep DEF PatchInv
<1>17. QED
  BY <1>3, <1>4, <1>5, <1>7, <1>8, <1>10, <1>11, <1>12, <1>13, <1>14, <1>15, <1>16 DEF Next

-----------------------------------------------------------------------------
(* The scan of the platform check, at a branch. *)
Code(jmp) == IF Copied(jmp) THEN Shellcode(jmp) ELSE <<>>
LEMMA InjectWords ==
    ASSUME PatchInv, CheckInv, RegionBehind, pc = "patch_platform_check", i < func.len,
           NEW at, at = Reached, at \in DOMAIN words, IsJump(words[at]),
           NEW base \in get_shc_region, NEW loc, loc = CopyLoc(base, words[at]),
           NEW n, n = Len(Code(words[at])),
           Inject(at, base), ~ (Goto("fault") /\ UNCHANGED <<words, shc_copied>>)
    PROVE  /\ words[at] = slice.mem[at] /\ at \in CheckBranches
           /\ at < func.offset + func.len /\ func.offset + func.len <= base /\ base <= loc
           /\ base \in Nat /\ loc \in Nat /\ at \in Nat
           /\ pc' = pc /\ DOMAIN words' = DOMAIN words
           /\ words'[at] = BranchTo(words[at], loc)
           /\ words[at].op = "br" => loc = base
           /\ \A k \in DOMAIN words \ {at} : ~ Within(k, loc, n) => words'[k] = words[k]
           /\ \/ /\ loc = base + 8 * shc_copied /\ shc_copied' = shc_copied + 1
                 /\ n = Len(Shellcode(words[at])) /\ loc + n - 1 \in DOMAIN words
                 /\ \A k \in DOMAIN words : Within(k, loc, n) =>
                        k # at /\ words'[k] = Shellcode(words[at])[k - loc + 1]
              \/ /\ n = 0 /\ loc = base /\ words[at].op = "br"
                 /\ shc_copied # 0 /\ shc_copied' = shc_copied
<1> DEFINE jmp == words[at]
<1>1. TypeOK /\ IsSlice(slice) /\ base \in Nat
  BY TypedSlice, RegionFound DEF PatchInv
<1>2. /\ func.offset \in Nat /\ func.len \in Nat /\ i \in Nat /\ shc_copied \in Nat
      /\ DOMAIN words = DOMAIN slice.mem /\ DOMAIN words \subseteq Nat
  BY <1>1, SliceFacts DEF TypeOK
<1>3. words[at] = slice.mem[at] /\ at \in CheckBranches
  <2>1. Within(at, Reached, func.len - i) /\ Within(at, func.offset, func.len)
    BY <1>2 DEF Within, Reached
  <2>2. func \in macho_find_symbol("forEachSupportedPlatform")
    BY DEF PatchInv
  <2>3. words[at] = slice.mem[at]
    BY <2>1 DEF CheckInv
  <2>4. QED
    BY <2>1, <2>2, <2>3 DEF CheckBranches, Branches
<1>4. func.offset + func.len <= base
  BY DEF PatchInv, RegionBehind
<1>5. at < func.offset + func.len /\ at \in Nat
  BY <1>2 DEF Reached
<1>6. /\ words' = [k \in DOMAIN words |->
                     IF k = at THEN BranchTo(jmp, loc)
                     ELSE IF Within(k, loc, n) THEN Code(jmp)[k - loc + 1] ELSE words[k]]
      /\ shc_copied' = shc_copied + (IF Copied(jmp) THEN 1 ELSE 0)
      /\ pc' = pc
      /\ Code(jmp) = <<>> \/ loc + n - 1 \in DOMAIN words
  BY DEF Inject, Code
<1>7. CASE Copied(jmp)
  <2>1. Len(Shellcode(jmp)) = (IF jmp.op = "br" THEN 4 ELSE 8) /\ n = Len(Shellcode(jmp))
    BY <1>7, CodeFacts DEF Code
  <2>2. shc_copied * Len(Shellcode(jmp)) = 8 * shc_copied
    <3>1. CASE jmp.op = "br"
      BY <1>2, <1>7, <2>1, <3>1 DEF Copied
    <3>2. CASE jmp.op # "br"
      BY <1>2, <2>1, <3>2
    <3>3. QED
      BY <3>1, <3>2
  <2>3. loc = base + 8 * shc_copied
    BY <1>7, <2>2 DEF CopyLoc
  <2>4. loc \in Nat /\ base <= loc /\ at < loc
    BY <1>1, <1>2, <1>4, <1>5, <2>3
  <2>5. \A k \in DOMAIN words : Within(k, loc, n) => k # at
    BY <1>2, <1>5, <2>4 DEF Within
  <2>6. Code(jmp) = Shellcode(jmp) /\ Code(jmp) # <<>>
    BY <1>7, <2>1 DEF Code
  <2>7. \A k \in DOMAIN words : Within(k, loc, n) =>
            k # at /\ words'[k] = Shellcode(jmp)[k - loc + 1]
    BY <1>6, <2>5, <2>6
  <2>8. words'[at] = BranchTo(jmp, loc)
    BY <1>6
  <2>9. \A k \in DOMAIN words \ {at} : ~ Within(k, loc, n) => words'[k] = words[k]
    BY <1>6
  <2>10. shc_copied' = shc_copied + 1 /\ loc + n - 1 \in DOMAIN words /\ DOMAIN words' = DOMAIN words
    BY <1>6, <1>7, <2>6
  <2>11. jmp.op = "br" => loc = base
    BY <1>1, <1>7, <2>3 DEF Copied
  <2>12. QED
    BY <1>1, <1>3, <1>4, <1>5, <1>6, <2>1, <2>3, <2>4, <2>7, <2>8, <2>9, <2>10, <2>11
<1>8. CASE ~ Copied(jmp)
  <2>1. n = 0 /\ loc = base /\ shc_copied' = shc_copied
    BY <1>2, <1>6, <1>8 DEF Code, CopyLoc
  <2>2. jmp.op = "br" /\ shc_copied # 0
    BY <1>8 DEF Copied, IsJump
  <2>3. \A k \in DOMAIN words : ~ Within(k, loc, n)
    BY <1>1, <1>2, <2>1 DEF Within
  <2> HIDE DEF jmp
  <2>4. QED
    BY <1>1, <1>3, <1>4, <1>5, <1>6, <2>1, <2>2, <2>3 DEF jmp
<1>9. QED
  BY <1>7, <1>8

LEMMA BranchFacts ==
    ASSUME TypeOK
    PROVE  /\ IsFiniteSet(CheckBranches) /\ Cardinality(CheckBranches) \in Nat
           /\ IsFiniteSet(ReachedBranches) /\ Cardinality(ReachedBranches) \in Nat
           /\ Cardinality(ReachedBranches) <= Cardinality(CheckBranches)
           /\ CheckBranches \subseteq Nat /\ DOMAIN words \subseteq Nat
           /\ Sites \subseteq Led /\ Led \subseteq CheckBranches
           /\ \A k \in CheckBranches : IsJump(slice.mem[k])
<1>1. IsFiniteSet(DOMAIN words) /\ DOMAIN words \subseteq Nat
  BY TypedSlice, SliceFacts DEF TypeOK
<1>2. IsFiniteSet(CheckBranches) /\ ReachedBranches \subseteq CheckBranches /\ CheckBranches \subseteq Nat
  BY <1>1, FS_Subset DEF CheckBranches, Branches, ReachedBranches
<1>3. Sites \subseteq Led /\ Led \subseteq CheckBranches
  BY DEF Sites, Led, CheckBranches, Branches, IsJump
<1>4. \A k \in CheckBranches : IsJump(slice.mem[k])
  BY DEF CheckBranches, Branches
<1>5. /\ IsFiniteSet(ReachedBranches) /\ Cardinality(CheckBranches) \in Nat
      /\ Cardinality(ReachedBranches) \in Nat
      /\ Cardinality(ReachedBranches) <= Cardinality(CheckBranches)
  BY <1>2, FS_Subset, FS_CardinalityType
<1>6. QED
  BY <1>1, <1>2, <1>3, <1>4, <1>5

(* A step that puts no code anywhere, and changes no words but those of the
   test for DYLD_IN_CACHE. *)
LEMMA CodeStays ==
    ASSUME PatchInv, PatchInv', CodeInv, slice' = slice, platform' = platform,
           shc_copied' = shc_copied, DOMAIN words' = DOMAIN words,
           shc_copied # 0 => _internal_shc_loc' = _internal_shc_loc,
           \A k \in DOMAIN words :
               \/ words'[k] = words[k]
               \/ /\ words'[k].op \in {"nop", "mov_w0"} /\ words[k].op \in {"cbz_x0", "bl"}
                  /\ RegionBehind => k \in InCacheWords,
           pc' = "patch_platform_check" =>
               pc = "patch_platform_check" /\ func' = func /\ i' \in {i, i + 1}
    PROVE  CodeInv'
<1> SUFFICES ASSUME RegionBehind' PROVE CodeInv'
  BY DEF CodeInv
<1>1. /\ CheckBranches' = CheckBranches /\ Branches' = Branches
      /\ InCacheWords' = InCacheWords /\ RegionBehind
  BY SliceKept
<1>2. TypeOK /\ TypeOK'
  BY DEF PatchInv
<1>3. Led' = Led
  <2>1. \A k \in CheckBranches : words'[k] # words[k] =>
           words[k] # slice.mem[k] /\ words'[k] # slice.mem[k]
    BY DEF CheckBranches, Branches, IsJump
  <2>2. QED
    BY <1>1, <2>1 DEF Led
<1>4. \A k \in Sites' : k \in Sites /\ words'[k] = words[k]
  <2>1. \A k \in CheckBranches : k \in DOMAIN words
    BY DEF CheckBranches, Branches
  <2>2. QED
    BY <1>1, <2>1 DEF Sites
<1>5. /\ pc = "patch_platform_check" =>
             Led \subseteq ReachedBranches /\ shc_copied <= Cardinality(ReachedBranches)
      /\ shc_copied <= Cardinality(CheckBranches)
      /\ shc_copied = 0 <=> Led = {}
      /\ \A k \in DOMAIN words : Accounted(k)
      /\ \A k \in Led : FirstLed(k) => Placed(slice.mem[k], _internal_shc_loc)
      /\ \A k \in Sites :
            /\ words[k].op = "bl" <=> slice.mem[k].op = "blr"
            /\ IF slice.mem[k].op = "br" THEN words[k].arg = _internal_shc_loc
               ELSE Placed(slice.mem[k], words[k].arg)
  BY <1>1 DEF CodeInv
<1>6. ASSUME pc' = "patch_platform_check"
      PROVE  Led' \subseteq ReachedBranches' /\ shc_copied' <= Cardinality(ReachedBranches')
  <2>1. Reached \in Nat /\ Reached' \in Nat /\ Reached <= Reached'
    BY <1>2, <1>6 DEF Reached, TypeOK
  <2>2. ReachedBranches \subseteq ReachedBranches'
    BY <1>1, <1>2, <2>1, BranchFacts DEF ReachedBranches
  <2>3. IsFiniteSet(ReachedBranches')
    <3>1. ReachedBranches' \subseteq CheckBranches
      BY <1>1 DEF ReachedBranches
    <3>2. QED
      BY <1>2, <3>1, BranchFacts, FS_Subset
  <2>4. Cardinality(ReachedBranches) <= Cardinality(ReachedBranches')
        /\ Cardinality(ReachedBranches) \in Nat /\ Cardinality(ReachedBranches') \in Nat
    BY <2>2, <2>3, FS_Subset, FS_CardinalityType
  <2>5. shc_copied \in Nat
    BY <1>2 DEF TypeOK
  <2>6. QED
    BY <1>3, <1>5, <1>6, <2>2, <2>4, <2>5
<1>7. ASSUME NEW k \in DOMAIN words' PROVE Accounted(k)'
  <2>1. CASE words'[k] # words[k]
    BY <1>1, <2>1 DEF Accounted
  <2>2. CASE words'[k] = words[k]
    <3>1. k \in Sites => k \in Sites'
      BY <1>1, <2>2 DEF Sites
    <3>2. InCode(k) => InCode(k)'
      <4> HAVE InCode(k)
      <4>1. _internal_shc_loc \in Nat /\ shc_copied \in Nat /\ k \in Nat
        BY <1>2, BranchFacts DEF TypeOK, InCode
      <4>2. shc_copied # 0
        BY <4>1 DEF InCode
      <4>3. QED
        BY <4>2 DEF InCode, NoLoc
    <3>3. Accounted(k)
      BY <1>5
    <3>4. QED
      BY <1>1, <2>2, <3>1, <3>2, <3>3 DEF Accounted
  <2>3. QED
    BY <2>1, <2>2
<1>8. ASSUME NEW k \in Led, NEW to, PlacedIn(words, platform, _internal_shc_loc, shc_copied, slice.mem[k], to)
      PROVE  /\ PlacedIn(words', platform', _internal_shc_loc', shc_copied', slice'.mem[k], to)
             /\ _internal_shc_loc' = _internal_shc_loc
  <2>1. shc_copied # 0 /\ _internal_shc_loc' = _internal_shc_loc
    BY <1>5
  <2>2. _internal_shc_loc \in Nat /\ shc_copied \in Nat
    BY <1>2, <2>1 DEF TypeOK, PatchInv
  <2>3. IsJump(slice.mem[k]) /\ DOMAIN words \subseteq Nat
    BY <1>2, BranchFacts
  <2>4. \A h \in DOMAIN words : words[h].op \in CodeOps => words'[h] = words[h]
    BY DEF CodeOps
  <2>5. shc_copied <= shc_copied
    BY <2>2
  <2>6. PlacedIn(words', platform, _internal_shc_loc, shc_copied, slice.mem[k], to)
    BY <1>8, <2>2, <2>3, <2>4, <2>5, PlacedStays
  <2>7. QED
    BY <2>1, <2>6
<1>9. ASSUME NEW k \in Led', FirstLed(k)' PROVE Placed(slice.mem[k], _internal_shc_loc)'
  <2>1. k \in Led /\ FirstLed(k)
    BY <1>3, <1>9 DEF FirstLed
  <2>2. PlacedIn(words, platform, _internal_shc_loc, shc_copied, slice.mem[k], _internal_shc_loc)
    BY <1>5, <2>1 DEF Placed
  <2>3. QED
    BY <1>8, <2>1, <2>2 DEF Placed
<1>10. ASSUME NEW k \in Sites'
       PROVE  /\ words'[k].op = "bl" <=> slice'.mem[k].op = "blr"
              /\ IF slice'.mem[k].op = "br" THEN words'[k].arg = _internal_shc_loc'
                 ELSE Placed(slice.mem[k], words[k].arg)'
  <2>1. k \in Sites /\ words'[k] = words[k] /\ k \in Led
    BY <1>2, <1>4, BranchFacts
  <2>2. CASE slice.mem[k].op # "br"
    BY <1>5, <1>8, <2>1, <2>2 DEF Placed
  <2>3. CASE slice.mem[k].op = "br"
    <3>1. shc_copied # 0
      BY <1>5, <2>1
    <3>2. QED
      BY <1>5, <2>1, <2>3, <3>1
  <2>4. QED
    BY <2>2, <2>3
<1>11. QED
  BY <1>1, <1>3, <1>5, <1>6, <1>7, <1>9, <1>10 DEF CodeInv

(* The scan of the platform check leads a branch through the code. *)
LEMMA InjectStep ==
    ASSUME PatchInv, PatchInv', CheckInv, CodeInv, pc = "patch_platform_check", i < func.len,
           slice' = slice, platform' = platform, func' = func, i' = i + 1,
           NEW at, at = Reached, at \in DOMAIN words, IsJump(words[at]),
           NEW base \in get_shc_region, _internal_shc_loc' = base,
           _internal_shc_loc # NoLoc => _internal_shc_loc = base,
           Inject(at, base), ~ (Goto("fault") /\ UNCHANGED <<words, shc_copied>>)
    PROVE  CheckInv' /\ CodeInv'
<1> DEFINE jmp == words[at]
           loc == CopyLoc(base, words[at])
           n == Len(Code(words[at]))
<1>1. TypeOK /\ TypeOK' /\ IsSlice(slice) /\ base \in Nat
  BY TypedSlice, RegionFound DEF PatchInv
<1>2. DOMAIN words' = DOMAIN words
  BY <1>1 DEF TypeOK
<1>3. /\ CheckBranches' = CheckBranches /\ InCacheWords' = InCacheWords
      /\ (RegionBehind' <=> RegionBehind)
      /\ get_shc_region' = get_shc_region
  BY <1>2, SliceKept
<1>4. ASSUME RegionBehind
      PROVE  /\ jmp = slice.mem[at] /\ at \in CheckBranches
             /\ at < func.offset + func.len /\ func.offset + func.len <= base /\ base <= loc
             /\ loc \in Nat /\ at \in Nat /\ pc' = pc
             /\ words'[at] = BranchTo(jmp, loc)
             /\ jmp.op = "br" => loc = base
             /\ \A k \in DOMAIN words \ {at} : ~ Within(k, loc, n) => words'[k] = words[k]
  BY <1>4, InjectWords
<1> DEFINE Another == /\ loc = base + 8 * shc_copied /\ shc_copied' = shc_copied + 1
                      /\ n = Len(Shellcode(jmp)) /\ loc + n - 1 \in DOMAIN words
                      /\ \A k \in DOMAIN words : Within(k, loc, n) =>
                             k # at /\ words'[k] = Shellcode(jmp)[k - loc + 1]
           Same == /\ n = 0 /\ loc = base /\ jmp.op = "br"
                   /\ shc_copied # 0 /\ shc_copied' = shc_copied
<1>5. RegionBehind => Another \/ Same
  BY InjectWords
<1> HIDE DEF loc, n, jmp, Another, Same
<1>6. /\ func.offset \in Nat /\ func.len \in Nat /\ i \in Nat /\ shc_copied \in Nat
      /\ shc_copied' \in Nat /\ DOMAIN words \subseteq Nat
  BY <1>1, BranchFacts DEF TypeOK
<1>7. RegionBehind => IsJump(jmp) /\ ~ IsJump(words'[at])
  BY <1>4 DEF BranchTo, IsJump, Word, jmp
<1>8. CheckInv'
  <2>1. ASSUME RegionBehind, NEW k \in DOMAIN words, k < func.offset + func.len, k # at
        PROVE  words'[k] = words[k]
    BY <1>1, <1>4, <1>6, <2>1 DEF Within
  <2>2. ASSUME RegionBehind, NEW k \in DOMAIN words', Within(k, Reached', func'.len - i')
        PROVE  words'[k] = slice'.mem[k]
    <3>1. k # at /\ Within(k, Reached, func.len - i) /\ k < func.offset + func.len
      BY <1>2, <1>6, <2>2 DEF Within, Reached
    <3>2. words[k] = slice.mem[k]
      BY <1>2, <2>2, <3>1 DEF CheckInv
    <3>3. QED
      BY <1>2, <2>1, <2>2, <3>1, <3>2
  <2>3. ASSUME RegionBehind, NEW k \in DOMAIN words', Within(k, func'.offset, i')
        PROVE  ~ IsJump(words'[k])
    <3>1. CASE k = at
      BY <1>7, <2>3, <3>1
    <3>2. CASE k # at
      <4>1. Within(k, func.offset, i) /\ k < func.offset + func.len
        BY <1>2, <1>6, <2>3, <3>2 DEF Within, Reached
      <4>2. ~ IsJump(words[k])
        BY <1>2, <2>3, <4>1 DEF CheckInv
      <4>3. QED
        BY <1>2, <2>1, <2>3, <3>2, <4>1, <4>2
    <3>3. QED
      BY <3>1, <3>2
  <2>4. RegionBehind => pc' \notin Late
    BY <1>4 DEF Late
  <2>5. QED
    BY <1>3, <2>2, <2>3, <2>4 DEF CheckInv
<1>9. CodeInv'
  <2> SUFFICES ASSUME RegionBehind' PROVE CodeInv'
    BY DEF CodeInv
  <2>1. RegionBehind
    BY <1>3
  <2>2. /\ Led \subseteq ReachedBranches /\ shc_copied <= Cardinality(ReachedBranches)
        /\ shc_copied = 0 <=> Led = {}
        /\ \A k \in DOMAIN words : Accounted(k)
        /\ \A k \in Led : FirstLed(k) => Placed(slice.mem[k], _internal_shc_loc)
        /\ \A k \in Sites :
              /\ words[k].op = "bl" <=> slice.mem[k].op = "blr"
              /\ IF slice.mem[k].op = "br" THEN words[k].arg = _internal_shc_loc
                 ELSE Placed(slice.mem[k], words[k].arg)
    BY <2>1 DEF CodeInv
  <2>3. /\ jmp = words[at] /\ jmp = slice.mem[at] /\ at \in CheckBranches /\ IsJump(jmp)
        /\ at < base /\ base <= loc /\ loc \in Nat /\ at \in Nat
        /\ words'[at] = BranchTo(jmp, loc)
        /\ jmp.op = "br" => loc = base
        /\ \A k \in DOMAIN words \ {at} : ~ Within(k, loc, n) => words'[k] = words[k]
    BY <1>1, <1>4, <1>6, <1>7, <2>1 DEF jmp
  <2>4. /\ shc_copied <= shc_copied' /\ shc_copied' <= shc_copied + 1 /\ shc_copied' # 0
        /\ n \in {0, 4, 8} /\ loc + n <= base + 8 * shc_copied'
        /\ n # 0 => loc = base + 8 * shc_copied
    <3>1. CASE Same
      BY <1>1, <1>6, <3>1 DEF Same
    <3>2. CASE Another
      <4>1. n \in {4, 8} /\ loc = base + 8 * shc_copied /\ shc_copied' = shc_copied + 1
        BY <2>3, <3>2, CodeFacts DEF Another
      <4>2. QED
        BY <1>1, <1>6, <4>1
    <3>3. QED
      BY <1>5, <2>1, <3>1, <3>2
  <2>5. \A k \in DOMAIN words : Within(k, loc, n) =>
            k # at /\ words'[k].op \in CodeOps /\ base + 8 * shc_copied <= k
    <3>1. CASE n = 0
      BY <1>6, <2>3, <3>1 DEF Within
    <3>2. CASE n # 0
      <4>1. /\ loc = base + 8 * shc_copied /\ shc_copied' = shc_copied + 1
            /\ n = Len(Shellcode(jmp))
            /\ \A k \in DOMAIN words : Within(k, loc, n) =>
                   k # at /\ words'[k] = Shellcode(jmp)[k - loc + 1]
        BY <1>5, <2>1, <3>2 DEF Another, Same
      <4>2. n \in {4, 8}
        BY <2>3, <4>1, CodeFacts
      <4>3. \A k \in DOMAIN words : Within(k, loc, n) => k - loc + 1 \in 1..n /\ loc <= k
        BY <1>6, <2>3, <4>2 DEF Within
      <4>4. \A k \in DOMAIN words : Within(k, loc, n) => words'[k].op \in CodeOps
        BY <2>3, <4>1, <4>3, CodeFacts
      <4>5. QED
        BY <4>1, <4>3, <4>4
    <3>3. QED
      BY <3>1, <3>2
  <2>6. /\ ReachedBranches' = ReachedBranches \cup {at} /\ at \notin ReachedBranches
        /\ ReachedBranches' \subseteq CheckBranches
    <3>1. Reached' = Reached + 1 /\ Reached = at
      BY <1>6 DEF Reached
    <3>2. CheckBranches \subseteq Nat
      BY <1>1, BranchFacts
    <3>3. QED
      BY <1>3, <2>3, <3>1, <3>2 DEF ReachedBranches
  <2>7. /\ Cardinality(ReachedBranches') = Cardinality(ReachedBranches) + 1
        /\ Cardinality(ReachedBranches) \in Nat
        /\ Cardinality(ReachedBranches') <= Cardinality(CheckBranches)
        /\ Cardinality(CheckBranches) \in Nat
    <3>1. IsFiniteSet(ReachedBranches) /\ Cardinality(ReachedBranches) \in Nat
          /\ IsFiniteSet(CheckBranches) /\ Cardinality(CheckBranches) \in Nat
      BY <1>1, BranchFacts
    <3>2. QED
      BY <2>6, <3>1, FS_AddElement, FS_Subset
  <2>8. /\ shc_copied' <= Cardinality(ReachedBranches')
        /\ shc_copied' <= Cardinality(CheckBranches)
    BY <1>6, <2>2, <2>4, <2>7
  <2>9. \A k \in CheckBranches : ~ Within(k, loc, n)
    <3> SUFFICES ASSUME NEW k \in CheckBranches, Within(k, loc, n) PROVE FALSE
      OBVIOUS
    <3>1. PICK fn \in macho_find_symbol("forEachSupportedPlatform") : Within(k, fn.offset, fn.len)
      BY DEF CheckBranches
    <3>2. fn.offset + fn.len <= base /\ fn.offset \in Nat /\ fn.len \in Nat
      BY <1>1, <2>1, <3>1, SymbolFound DEF RegionBehind, TypeOK
    <3>3. k < fn.offset + fn.len /\ loc <= k /\ k \in Nat
      BY <1>1, <3>1, BranchFacts DEF Within
    <3>4. QED
      BY <1>1, <2>3, <3>2, <3>3
  <2>10. \A k \in CheckBranches \ {at} : words'[k] = words[k]
    <3>1. CheckBranches \subseteq DOMAIN words
      BY DEF CheckBranches, Branches
    <3>2. QED
      BY <2>3, <2>9, <3>1
  <2>11. Led' = Led \cup {at} /\ Sites' = Sites \cup {at} /\ at \notin Led
    <3>1. words'[at] # slice.mem[at] /\ words'[at].op \in {"b", "bl"}
      BY <2>3 DEF BranchTo, IsJump, Word
    <3>2. words[at].op \notin {"b", "bl"}
      BY <2>3 DEF IsJump
    <3>3. QED
      BY <1>3, <2>3, <2>10, <3>1, <3>2 DEF Led, Sites
  <2>12. \A k \in Led : k < at /\ k \in Nat
    <3>1. Reached = at /\ CheckBranches \subseteq Nat
      BY <1>1, BranchFacts
    <3>2. QED
      BY <2>2, <3>1 DEF ReachedBranches
  <2>13. ASSUME NEW k \in Led, NEW to,
                PlacedIn(words, platform, _internal_shc_loc, shc_copied, slice.mem[k], to)
         PROVE  PlacedIn(words', platform', _internal_shc_loc', shc_copied', slice'.mem[k], to)
    <3>1. _internal_shc_loc = base
      BY <2>2, <2>13 DEF PatchInv
    <3>2. IsJump(slice.mem[k])
      BY <1>1, BranchFacts
    <3>3. \A h \in DOMAIN words :
             base <= h /\ h < base + 8 * shc_copied /\ words[h].op \in CodeOps =>
                 words'[h] = words[h]
      <4>1. \A h \in DOMAIN words : h < base + 8 * shc_copied => ~ Within(h, loc, n)
        BY <1>1, <1>6, <2>5
      <4>2. \A h \in DOMAIN words : base <= h => h # at
        BY <1>1, <2>3
      <4>3. QED
        BY <2>3, <4>1, <4>2
    <3>4. PlacedIn(words', platform, base, shc_copied', slice.mem[k], to)
      BY <1>1, <1>2, <1>6, <2>4, <2>13, <3>1, <3>2, <3>3, PlacedStays
    <3>5. QED
      BY <3>4
  <2>14. n # 0 => PlacedIn(words', platform', _internal_shc_loc', shc_copied', slice'.mem[at], loc)
    <3> HAVE n # 0
    <3>1. /\ n = Len(Shellcode(jmp)) /\ loc + n - 1 \in DOMAIN words
          /\ \A k \in DOMAIN words : Within(k, loc, n) =>
                 k # at /\ words'[k] = Shellcode(jmp)[k - loc + 1]
      BY <1>5, <2>1 DEF Another, Same
    <3> DEFINE code == CodeFor(platform, jmp)
    <3>2. Shellcode(jmp) = code /\ DOMAIN code = 1..n /\ Len(code) = n /\ n \in {4, 8}
      BY <2>3, <3>1, CodeFacts
    <3> HIDE DEF code
    <3>3. ASSUME NEW x \in DOMAIN code
          PROVE  loc + x - 1 \in DOMAIN words' /\ words'[loc + x - 1] = code[x]
      <4>1. x \in 1..n /\ loc + x - 1 \in Nat /\ loc + x - 1 <= loc + n - 1
        BY <2>3, <3>2
      <4>2. loc + x - 1 \in DOMAIN words
        <5>1. DOMAIN words = DOMAIN slice.mem
          BY <1>1 DEF TypeOK
        <5>2. QED
          BY <1>1, <3>1, <4>1, <5>1, SliceFacts
      <4>3. Within(loc + x - 1, loc, n) /\ (loc + x - 1) - loc + 1 = x
        BY <2>3, <3>2, <4>1 DEF Within
      <4>4. QED
        BY <1>2, <3>1, <3>2, <4>2, <4>3
    <3>4. QED
      BY <2>3, <2>4, <3>2, <3>3 DEF PlacedIn, code
  <2>15. ASSUME NEW k \in DOMAIN words' PROVE Accounted(k)'
    <3>1. CASE k = at
      BY <2>11, <3>1 DEF Accounted
    <3>2. CASE Within(k, loc, n)
      <4>1. base <= k /\ k < base + 8 * shc_copied' /\ words'[k].op \in CodeOps
        <5>1. loc <= k /\ k < loc + n /\ k \in Nat /\ k \in DOMAIN words
          BY <1>2, <1>6, <3>2, <2>15 DEF Within
        <5>2. QED
          BY <1>1, <1>6, <2>3, <2>4, <2>5, <3>2, <5>1
      <4>2. QED
        BY <1>1, <4>1 DEF Accounted, InCode, NoLoc
    <3>3. CASE k # at /\ ~ Within(k, loc, n)
      <4>1. words'[k] = words[k] /\ Accounted(k)
        BY <1>2, <2>2, <2>3, <3>3
      <4>2. InCode(k) => InCode(k)'
        BY <1>1, <1>2, <1>6, <2>4 DEF InCode, NoLoc
      <4>3. QED
        BY <1>3, <2>11, <4>1, <4>2 DEF Accounted
    <3>4. QED
      BY <3>1, <3>2, <3>3
  <2>16. ASSUME NEW k \in Led', FirstLed(k)' PROVE Placed(slice.mem[k], _internal_shc_loc)'
    <3>1. CASE Led = {}
      <4>1. k = at /\ shc_copied = 0 /\ n # 0
        <5>1. k = at /\ shc_copied = 0
          BY <2>2, <2>11, <2>16, <3>1
        <5>2. Another
          BY <1>5, <2>1, <5>1 DEF Same
        <5>3. n \in {4, 8}
          BY <2>3, <5>2, CodeFacts DEF Another
        <5>4. QED
          BY <5>1, <5>3
      <4>2. loc = base
        BY <1>1, <2>4, <4>1
      <4>3. QED
        BY <2>14, <4>1, <4>2 DEF Placed
    <3>2. CASE Led # {}
      <4>1. PICK h \in Led : TRUE
        BY <3>2
      <4>2. \A g \in Led \cup {at} : k <= g
        BY <2>11, <2>16 DEF FirstLed
      <4>3. k # at
        BY <2>3, <2>12, <4>1, <4>2
      <4>4. k \in Led /\ FirstLed(k)
        BY <2>11, <4>2, <4>3 DEF FirstLed
      <4>5. PlacedIn(words, platform, _internal_shc_loc, shc_copied, slice.mem[k], _internal_shc_loc)
        BY <2>2, <4>4 DEF Placed
      <4>6. _internal_shc_loc' = _internal_shc_loc
        BY <2>2, <4>4 DEF PatchInv
      <4>7. QED
        BY <2>13, <4>4, <4>5, <4>6 DEF Placed
    <3>3. QED
      BY <3>1, <3>2
  <2>17. ASSUME NEW k \in Sites'
         PROVE  /\ words'[k].op = "bl" <=> slice'.mem[k].op = "blr"
                /\ IF slice'.mem[k].op = "br" THEN words'[k].arg = _internal_shc_loc'
                   ELSE Placed(slice.mem[k], words[k].arg)'
    <3>1. CASE k = at
      <4>1. words'[k].op = (IF jmp.op = "br" THEN "b" ELSE "bl") /\ words'[k].arg = loc
        BY <2>3, <3>1 DEF BranchTo, Word
      <4>2. words'[k].op = "bl" <=> slice'.mem[k].op = "blr"
        BY <2>3, <3>1, <4>1 DEF IsJump
      <4>3. n = 0 => jmp.op = "br"
        <5>1. Another => n \in {4, 8}
          BY <2>3, CodeFacts DEF Another
        <5>2. Another => n # 0
          BY <5>1
        <5>3. QED
          BY <1>5, <2>1, <5>2 DEF Same
      <4>4. QED
        BY <2>3, <2>14, <3>1, <4>1, <4>2, <4>3 DEF Placed
    <3>2. CASE k # at
      <4>1. k \in Sites /\ k \in Led /\ words'[k] = words[k]
        BY <1>1, <2>10, <2>11, <3>2, BranchFacts
      <4>2. _internal_shc_loc' = _internal_shc_loc
        BY <2>2, <4>1 DEF PatchInv
      <4>3. QED
        BY <2>2, <2>13, <4>1, <4>2 DEF Placed
    <3>3. QED
      BY <3>1, <3>2
  <2>18. shc_copied' # 0 /\ Led' # {} /\ Led' \subseteq ReachedBranches'
    BY <2>2, <2>4, <2>6, <2>11
  <2>19. QED
    BY <1>3, <2>8, <2>15, <2>16, <2>17, <2>18 DEF CodeInv
<1>10. QED
  BY <1>8, <1>9

LEMMA ScanPlatformCheckStep ==
    ASSUME IInv, PatchInv', ScanPlatformCheck PROVE CheckInv' /\ CodeInv' /\ FoundInv'
<1> DEFINE at == Reached
           base == IF _internal_shc_loc # NoLoc THEN {_internal_shc_loc} ELSE get_shc_region
           Branch == at \in DOMAIN words /\ IsJump(words[at]) /\ base # {}
<1>1. /\ PatchInv /\ CheckInv /\ CodeInv /\ FoundInv /\ TypeOK /\ TypeOK' /\ IsSlice(slice)
      /\ pc = "patch_platform_check" /\ i < func.len /\ i' = i + 1 /\ func' = func
      /\ slice' = slice /\ platform' = platform
      /\ UNCHANGED has_found_dyld_in_cache
  BY TypedSlice DEF IInv, PatchInv, ScanPlatformCheck
<1>2. DOMAIN words' = DOMAIN words
  BY <1>1 DEF TypeOK
<1>3. /\ RegionBehind' = RegionBehind /\ get_shc_region' = get_shc_region
  BY <1>1, <1>2, SliceKept
<1>4. Branch => _internal_shc_loc' \in base /\ Inject(at, _internal_shc_loc')
  BY DEF ScanPlatformCheck, Reached
<1>5. ~ Branch => UNCHANGED <<pc, words, shc>>
  BY DEF ScanPlatformCheck, Reached
<1>6. /\ base \subseteq get_shc_region
      /\ _internal_shc_loc # NoLoc => base = {_internal_shc_loc}
      /\ base = {} => get_shc_region = {}
  BY <1>1 DEF PatchInv
<1>7. FoundInv'
  <2>1. ~ has_found_dyld_in_cache
    BY <1>1, Zenon DEF FoundInv
  <2>2. pc' \in {"patch_platform_check", "fault"}
    BY <1>1, <1>4, <1>5 DEF Inject, Goto
  <2>3. pc' \notin {"write_file", "done"}
    BY <2>2
  <2>4. QED
    BY <1>1, <2>1, <2>3, Zenon DEF FoundInv
<1> HIDE DEF base
<1>8. CASE Branch /\ ~ (Goto("fault") /\ UNCHANGED <<words, shc_copied>>)
  <2>1. /\ _internal_shc_loc' \in get_shc_region
        /\ _internal_shc_loc # NoLoc => _internal_shc_loc = _internal_shc_loc'
    BY <1>4, <1>6, <1>8
  <2>2. PICK b \in get_shc_region :
          /\ _internal_shc_loc # NoLoc => _internal_shc_loc = b
          /\ Inject(at, b) /\ _internal_shc_loc' = b
    BY <1>4, <1>8, <2>1
  <2>3. PICK a : a = Reached
    OBVIOUS
  <2>4. CheckInv' /\ CodeInv'
    BY <1>1, <1>8, <2>2, <2>3, InjectStep
  <2>5. QED
    BY <1>7, <2>4
<1>9. CASE Branch /\ Goto("fault") /\ UNCHANGED <<words, shc_copied>>
  <2>1. shc_copied # 0 => _internal_shc_loc' = _internal_shc_loc
    BY <1>1, <1>4, <1>6, <1>9 DEF PatchInv
  <2>2. pc' # "patch_platform_check" /\ pc' \notin Late
    BY <1>9 DEF Goto, Late
  <2>3. CodeInv'
    BY <1>1, <1>2, <1>9, <2>1, <2>2, CodeStays
  <2>4. CheckInv'
    BY <2>2 DEF CheckInv
  <2>5. QED
    BY <1>7, <2>3, <2>4
<1>10. CASE ~ Branch
  <2>1. UNCHANGED <<pc, words, _internal_shc_loc, shc_copied>>
    BY <1>5, <1>10 DEF shc
  <2>2. CodeInv'
    BY <1>1, <2>1, CodeStays
  <2>3. ASSUME RegionBehind, NEW k \in DOMAIN words, Within(k, Reached', func'.len - i')
        PROVE  words[k] = slice.mem[k]
    <3>1. Within(k, Reached, func.len - i)
      BY <1>1, <2>3, BranchFacts DEF Within, Reached, TypeOK
    <3>2. QED
      BY <1>1, <2>3, <3>1 DEF CheckInv
  <2>4. ASSUME RegionBehind, NEW k \in DOMAIN words, Within(k, func.offset, i'),
               get_shc_region # {}
        PROVE  ~ IsJump(words[k])
    <3>1. k = at \/ Within(k, func.offset, i)
      BY <1>1, <2>4, BranchFacts DEF Within, Reached, TypeOK
    <3>2. CASE k = at
      BY <1>6, <1>10, <2>4, <3>2
    <3>3. CASE Within(k, func.offset, i)
      BY <1>1, <2>4, <3>3 DEF CheckInv
    <3>4. QED
      BY <3>1, <3>2, <3>3
  <2>5. pc' \notin Late
    BY <1>1, <2>1 DEF Late
  <2>6. CheckInv'
    BY <1>1, <1>3, <2>1, <2>3, <2>4, <2>5 DEF CheckInv
  <2>7. QED
    BY <1>7, <2>2, <2>6
<1>11. QED
  BY <1>8, <1>9, <1>10

(* The scan of start. *)
LEMMA PatternFacts ==
    ASSUME NEW mem, NEW at \in Nat, MatchesAt(mem, at)
    PROVE  /\ at \in DOMAIN mem /\ at + 5 \in DOMAIN mem /\ at + 8 \in DOMAIN mem
           /\ mem[at + 5].op = "cbz_x0" /\ mem[at + 8].op = "bl"
<1>1. /\ DOMAIN Pattern = 1..10
      /\ Pattern[6] = "cbz_x0" /\ Pattern[9] = "bl"
  BY DEF Pattern
<1>2. \A x \in 1..10 : at + x - 1 \in DOMAIN mem /\ mem[at + x - 1].op = Pattern[x]
  BY <1>1 DEF MatchesAt
<1>3. at + 1 - 1 = at /\ at + 6 - 1 = at + 5 /\ at + 9 - 1 = at + 8
  OBVIOUS
<1>4. QED
  BY <1>1, <1>2, <1>3

LEMMA PatternOps ==
    ASSUME NEW x \in DOMAIN Pattern
    PROVE  /\ Pattern[x] \notin CodeOps /\ Pattern[x] \notin {"nop", "mov_w0", "b"}
           /\ x \in 1..10
BY DEF Pattern, CodeOps

LEMMA MatchIsInCacheTest ==
    ASSUME TypeOK, CodeInv, RegionBehind, NEW at \in Nat, MatchesAt(words, at)
    PROVE  at + 5 \in InCacheWords /\ at + 8 \in InCacheWords
<1>1. InCacheTest(at)
  <2> SUFFICES ASSUME NEW x \in DOMAIN Pattern
               PROVE  /\ at + x - 1 \in DOMAIN words
                      /\ IsOrBecomes(slice.mem[at + x - 1], Pattern[x])
    BY DEF InCacheTest
  <2> DEFINE k == at + x - 1
  <2>1. k \in DOMAIN words /\ words[k].op = Pattern[x]
    BY DEF MatchesAt
  <2>2. Accounted(k)
    BY <2>1 DEF CodeInv
  <2>3. words[k].op \notin CodeOps /\ words[k].op \notin {"nop", "mov_w0", "b"}
    BY <2>1, PatternOps
  <2> HIDE DEF k
  <2>4. \/ words[k] = slice.mem[k]
        \/ IsJump(slice.mem[k]) /\ words[k].op = "bl"
    BY <2>2, <2>3 DEF Accounted, Sites, CheckBranches, Branches
  <2>5. IsOrBecomes(slice.mem[k], Pattern[x])
    BY <2>1, <2>4 DEF IsOrBecomes, k
  <2>6. QED
    BY <2>1, <2>5 DEF k
<1>2. /\ at + 5 \in DOMAIN words /\ at + 8 \in DOMAIN words
      /\ (at + 5) - 5 = at /\ (at + 8) - 8 = at
  BY PatternFacts
<1>3. QED
  BY <1>1, <1>2 DEF InCacheWords

LEMMA TestPatched ==
    ASSUME NEW at \in Nat, MatchesAt(words, at),
           words' = [words EXCEPT ![at + 5] = Word("nop", 0), ![at + 8] = Word("mov_w0", 0)]
    PROVE  PatchedTest(at)'
<1> SUFFICES ASSUME NEW x \in DOMAIN Pattern
             PROVE  /\ at + x - 1 \in DOMAIN words'
                    /\ words'[at + x - 1].op =
                         IF x = 6 THEN "nop" ELSE IF x = 9 THEN "mov_w0" ELSE Pattern[x]
  BY DEF PatchedTest
<1>1. /\ at + x - 1 \in DOMAIN words /\ words[at + x - 1].op = Pattern[x] /\ x \in 1..10
      /\ at + 5 \in DOMAIN words /\ at + 8 \in DOMAIN words
  BY PatternFacts, PatternOps DEF MatchesAt
<1>2. CASE x = 6
  <2>1. at + x - 1 = at + 5 /\ at + 5 # at + 8
    BY <1>2
  <2>2. QED
    BY <1>1, <1>2, <2>1 DEF Word
<1>3. CASE x = 9
  <2>1. at + x - 1 = at + 8
    BY <1>3
  <2>2. QED
    BY <1>1, <1>3, <2>1 DEF Word
<1>4. CASE x # 6 /\ x # 9
  <2>1. at + x - 1 # at + 5 /\ at + x - 1 # at + 8
    BY <1>1, <1>4
  <2>2. QED
    BY <1>1, <1>4, <2>1
<1>5. QED
  BY <1>2, <1>3, <1>4

LEMMA ScanStartStep ==
    ASSUME IInv, PatchInv', ScanStart PROVE CheckInv' /\ CodeInv' /\ FoundInv'
<1> DEFINE at == func.offset + i
           Patched == [words EXCEPT ![at + 5] = Word("nop", 0), ![at + 8] = Word("mov_w0", 0)]
<1>1. /\ PatchInv /\ CheckInv /\ CodeInv /\ FoundInv /\ TypeOK /\ TypeOK'
      /\ pc = "scan_start" /\ slice' = slice /\ platform' = platform
      /\ _internal_shc_loc' = _internal_shc_loc /\ shc_copied' = shc_copied
  BY DEF IInv, PatchInv, ScanStart, shc
<1>2. /\ DOMAIN words' = DOMAIN words /\ at \in Nat /\ DOMAIN words \subseteq Nat
  BY <1>1, BranchFacts DEF TypeOK
<1>3. pc' \in {"scan_start", "fault"}
  <2>1. CASE MatchesAt(words, at) /\ (pf_follow_xref(at + 2) = {} \/ pf_follow_xref(at + 6) = {})
    BY <2>1, Zenon DEF ScanStart, Goto
  <2>2. CASE ~ (MatchesAt(words, at) /\ (pf_follow_xref(at + 2) = {} \/ pf_follow_xref(at + 6) = {}))
    BY <1>1, <2>2, Zenon DEF ScanStart
  <2>3. QED
    BY <2>1, <2>2
<1>4. \/ words' = words /\ has_found_dyld_in_cache' = has_found_dyld_in_cache
      \/ MatchesAt(words, at) /\ words' = Patched
  <2>1. CASE MatchesAt(words, at)
    BY <2>1, Zenon DEF ScanStart
  <2>2. CASE ~ MatchesAt(words, at)
    BY <2>2, Zenon DEF ScanStart
  <2>3. QED
    BY <2>1, <2>2
<1> HIDE DEF at
<1>5. ASSUME NEW k \in DOMAIN words, words'[k] # words[k]
      PROVE  /\ words'[k].op \in {"nop", "mov_w0"} /\ words[k].op \in {"cbz_x0", "bl"}
             /\ RegionBehind => k \in InCacheWords
  <2>1. MatchesAt(words, at) /\ words' = Patched
    BY <1>4, <1>5
  <2>2. k = at + 5 \/ k = at + 8
    BY <1>2, <1>5, <2>1
  <2>3. at + 5 # at + 8
    BY <1>2
  <2>4. words'[k].op \in {"nop", "mov_w0"}
    BY <1>5, <2>1, <2>2, <2>3 DEF Word
  <2>5. QED
    BY <1>1, <1>2, <2>1, <2>2, <2>4, PatternFacts, MatchIsInCacheTest
<1>6. CodeInv'
  <2>1. pc' # "patch_platform_check"
    BY <1>3
  <2>2. QED
    BY <1>1, <1>2, <1>5, <2>1, CodeStays
<1>7. CheckInv'
  <2>1. /\ RegionBehind' = RegionBehind /\ get_shc_region' = get_shc_region
        /\ macho_find_symbol("forEachSupportedPlatform")'
              = macho_find_symbol("forEachSupportedPlatform")
    BY <1>1, <1>2, SliceKept
  <2>2. pc' # "patch_platform_check" /\ pc \in Late
    BY <1>1, <1>3 DEF Late
  <2>3. \A k \in DOMAIN words : ~ IsJump(words[k]) => ~ IsJump(words'[k])
    BY <1>5 DEF IsJump
  <2>4. QED
    BY <1>1, <1>2, <2>1, <2>2, <2>3 DEF CheckInv
<1>8. FoundInv'
  <2>1. pc' \in {"scan_start", "write_file", "done", "spin", "fault"} /\ pc' \notin {"write_file", "done"}
    BY <1>3
  <2>2. CASE words' = words /\ has_found_dyld_in_cache' = has_found_dyld_in_cache
    <3>1. has_found_dyld_in_cache => \E a \in DOMAIN words : PatchedTest(a)
      BY <1>1, Zenon DEF FoundInv
    <3>2. has_found_dyld_in_cache' => \E a \in DOMAIN words' : PatchedTest(a)'
      BY <2>2, <3>1, Zenon DEF PatchedTest
    <3>3. QED
      BY <2>1, <3>2, Zenon DEF FoundInv
  <2>3. CASE MatchesAt(words, at) /\ words' = Patched
    <3>1. \E a \in DOMAIN words' : PatchedTest(a)'
      <4>1. PICK a : a = at
        OBVIOUS
      <4>2. a \in Nat /\ MatchesAt(words, a) /\ a \in DOMAIN words'
        BY <1>2, <2>3, <4>1, PatternFacts
      <4>3. words' = [words EXCEPT ![a + 5] = Word("nop", 0), ![a + 8] = Word("mov_w0", 0)]
        BY <2>3, <4>1
      <4>4. PatchedTest(a)'
        BY <4>2, <4>3, TestPatched
      <4>5. QED
        BY <4>2, <4>4
    <3>2. QED
      BY <2>1, <3>1, Zenon DEF FoundInv
  <2>4. QED
    BY <1>4, <2>2, <2>3
<1>9. QED
  BY <1>6, <1>7, <1>8

(* The steps that change no words. *)
LEMMA UntouchedStep ==
    ASSUME PatchInv', Untouched', Unscanned' PROVE CheckInv' /\ CodeInv' /\ FoundInv'
<1>1. (TypeOK /\ Untouched /\ Unscanned)'
  BY DEF PatchInv
<1>2. (TypeOK /\ Untouched /\ Unscanned)' => (CheckInv /\ CodeInv /\ FoundInv)'
  BY NothingYet, PTL
<1>3. QED
  BY <1>1, <1>2

LEMMA QuietStep ==
    ASSUME IInv, PatchInv', Kept, pc' # "patch_platform_check",
           pc' \in Late =>
             \/ pc \in Late
             \/ RegionBehind /\ get_shc_region # {} =>
                   \E f \in macho_find_symbol("forEachSupportedPlatform") :
                       \A k \in DOMAIN words : Within(k, f.offset, f.len) => ~ IsJump(words[k])
    PROVE  CheckInv' /\ CodeInv'
<1>1. /\ PatchInv /\ CheckInv /\ CodeInv /\ slice' = slice /\ DOMAIN words' = DOMAIN words
      /\ platform' = platform /\ shc_copied' = shc_copied /\ words' = words
      /\ _internal_shc_loc' = _internal_shc_loc
  BY DEF IInv, Kept
<1>2. CodeInv'
  BY <1>1, CodeStays
<1>3. /\ RegionBehind' = RegionBehind /\ get_shc_region' = get_shc_region
      /\ macho_find_symbol("forEachSupportedPlatform")'
            = macho_find_symbol("forEachSupportedPlatform")
  BY <1>1, SliceKept
<1>4. CheckInv'
  BY <1>1, <1>3 DEF CheckInv
<1>5. QED
  BY <1>2, <1>4

(* What is found is still found. *)
LEMMA FoundStays ==
    ASSUME IInv, Kept, UNCHANGED has_found_dyld_in_cache,
           has_found_dyld_in_cache =>
               pc' \in {"scan_start", "write_file", "done", "spin", "fault"},
           pc' \in {"write_file", "done"} => has_found_dyld_in_cache \/ ~ KnowsDyldInCache
    PROVE  FoundInv'
<1>1. has_found_dyld_in_cache => \E at \in DOMAIN words : PatchedTest(at)
  BY Zenon DEF IInv, FoundInv
<1>2. has_found_dyld_in_cache' => \E at \in DOMAIN words' : PatchedTest(at)'
  BY <1>1, Zenon DEF PatchedTest, Kept
<1>3. slice' = slice /\ words' = words /\ DOMAIN words' = DOMAIN words
  BY DEF Kept
<1>4. macho_find_section("__TEXT", "__cstring")' = macho_find_section("__TEXT", "__cstring")
  BY <1>3, SliceKept
<1>5. KnowsDyldInCache' = KnowsDyldInCache
  BY <1>3, <1>4, Zenon DEF KnowsDyldInCache
<1>6. (pc \in {"write_file", "done"} => has_found_dyld_in_cache \/ ~ KnowsDyldInCache)'
  BY <1>5, Zenon
<1>7. (has_found_dyld_in_cache => pc \in {"scan_start", "write_file", "done", "spin", "fault"})'
  BY Zenon
<1>8. QED
  BY <1>2, <1>6, <1>7, Zenon DEF FoundInv

(* The strings of dyld are looked at where they are. *)
LEMMA CstringStep ==
    ASSUME TypeOK, FindCstring, pc' = "write_file"
    PROVE  ~ KnowsDyldInCache
<1> DEFINE sects == macho_find_section("__TEXT", "__cstring")
           starts == UNION {macho_va_to_ptr(s.addr) : s \in sects}
           Known == \E s \in sects, start \in starts : \E k \in DOMAIN words :
                       /\ Within(k, start, s.size)
                       /\ words[k] = Word("str", DYLD_IN_CACHE)
<1>1. pc' = (IF sects = {} THEN "spin" ELSE IF starts = {} THEN "fault"
             ELSE IF Known THEN "dyld_in_cache_patch" ELSE "write_file")
  BY DEF FindCstring, Goto
<1> HIDE DEF Known, starts
<1>2. starts # {} /\ ~ Known
  BY <1>1
<1>3. \A s, t \in sects : s = t
  <2>1. \A seg \in macho_get_segment("__TEXT") : seg \in Segments
    BY TypedSlice, SegmentFound
  <2>2. \A seg, other \in macho_get_segment("__TEXT") : seg = other
    BY TypedSlice, SegmentFound
  <2>3. \A seg \in macho_get_segment("__TEXT") :
           \A s, t \in macho_get_section(seg, "__cstring") : s = t
    BY <2>1, SectionFound
  <2>4. QED
    BY <2>2, <2>3 DEF macho_find_section
<1>4. PICK t \in sects : macho_va_to_ptr(t.addr) # {}
  BY <1>2 DEF starts
<1>5. t.offset \in starts
  <2>1. PICK start \in macho_va_to_ptr(t.addr) : TRUE
    BY <1>4
  <2>2. start = t.offset
    BY <1>4, <2>1, TypedSlice, StringsFound
  <2>3. QED
    BY <1>4, <2>1, <2>2 DEF starts
<1>6. ASSUME KnowsDyldInCache PROVE FALSE
  <2>1. PICK s \in sects : \E k \in DOMAIN words :
            Within(k, s.offset, s.size) /\ words[k] = Word("str", DYLD_IN_CACHE)
    BY <1>6 DEF KnowsDyldInCache
  <2>2. s = t
    BY <1>3, <1>4, <2>1
  <2>3. QED
    BY <1>2, <1>5, <2>1, <2>2 DEF Known
<1>7. QED
  BY <1>6

LEMMA InvStep == ASSUME IInv, [Next]_vars PROVE IInv'
<1>1. PatchInv /\ PatchInv' /\ TypeOK
  BY PatchStep DEF IInv, PatchInv
<1>2. ASSUME NEW from, FindFunction(from, "forEachSupportedPlatform", "patch_platform_check"),
             from = "platform_check_patch"
      PROVE  IInv'
  <2>1. Kept /\ UNCHANGED has_found_dyld_in_cache /\ Untouched
    BY <1>1, <1>2 DEF FindFunction, Kept, shc, PatchInv, Early
  <2>2. Untouched'
    BY <2>1 DEF Untouched, Kept, NoLoc
  <2>3. pc' = "fault" \/ (pc' = "patch_platform_check" /\ i' = 0)
    BY <1>2 DEF FindFunction, Goto
  <2>4. Unscanned'
    BY <2>3 DEF Unscanned
  <2>5. QED
    BY <1>1, <2>2, <2>4, UntouchedStep DEF IInv
<1>3. CASE GetMagic
  <2>1. Kept /\ UNCHANGED has_found_dyld_in_cache /\ Untouched
        /\ pc' \in {"macho_get_platform", "macho_find_arch", "spin"}
    BY <1>1, <1>3 DEF GetMagic, Kept, shc, PatchInv, Early, Goto, spin
  <2>2. Untouched' /\ Unscanned'
    BY <2>1 DEF Untouched, Unscanned, Kept, NoLoc, Early
  <2>3. QED
    BY <1>1, <2>2, UntouchedStep DEF IInv
<1>4. CASE FindArch
  <2>1. /\ UNCHANGED <<_internal_shc_loc, shc_copied, has_found_dyld_in_cache>> /\ Untouched
        /\ words' = slice'.mem /\ pc' \in {"macho_get_platform", "spin"}
    <3>1. UNCHANGED <<_internal_shc_loc, shc_copied, has_found_dyld_in_cache>> /\ Untouched
      BY <1>1, <1>4 DEF FindArch, shc, PatchInv, Early
    <3>2. \/ pc' = "spin" /\ UNCHANGED <<slice, words>>
          \/ words' = slice'.mem /\ pc' = "macho_get_platform"
      BY <1>4, Zenon DEF FindArch, spin, Goto
    <3>3. QED
      BY <3>1, <3>2 DEF Untouched
  <2>2. Untouched' /\ Unscanned'
    BY <2>1 DEF Untouched, Unscanned, NoLoc, Early
  <2>3. QED
    BY <1>1, <2>2, UntouchedStep DEF IInv
<1>5. CASE GetPlatform
  <2>1. /\ UNCHANGED <<slice, words, _internal_shc_loc, shc_copied, has_found_dyld_in_cache>>
        /\ Untouched /\ pc' \in {"spin", "platform_check_patch"}
    BY <1>1, <1>5 DEF GetPlatform, shc, PatchInv, Early, Goto
  <2>2. Untouched' /\ Unscanned'
    BY <2>1 DEF Untouched, Unscanned, NoLoc, Early
  <2>3. QED
    BY <1>1, <2>2, UntouchedStep DEF IInv
<1>6. CASE platform_check_patch
  BY <1>2, <1>6 DEF platform_check_patch, FindFunction
<1>7. CASE ScanPlatformCheck
  BY <1>1, <1>7, ScanPlatformCheckStep DEF IInv
<1>8. CASE PlatformCheckScanned
  <2>1. /\ Kept /\ UNCHANGED has_found_dyld_in_cache
        /\ pc = "patch_platform_check" /\ i = func.len /\ pc' = "cstring"
    BY <1>8 DEF PlatformCheckScanned, Kept, shc, Goto
  <2>2. RegionBehind /\ get_shc_region # {} =>
           \E f \in macho_find_symbol("forEachSupportedPlatform") :
               \A k \in DOMAIN words : Within(k, f.offset, f.len) => ~ IsJump(words[k])
    BY <2>1 DEF IInv, PatchInv, CheckInv
  <2>3. CheckInv' /\ CodeInv'
    <3>1. pc' # "patch_platform_check"
      BY <2>1
    <3>2. QED
      BY <1>1, <2>1, <2>2, <3>1, QuietStep
  <2>4. ~ has_found_dyld_in_cache
    BY <2>1, Zenon DEF IInv, FoundInv
  <2>5. pc' \notin {"write_file", "done"}
    BY <2>1
  <2>6. FoundInv'
    BY <2>1, <2>4, <2>5, FoundStays, Zenon
  <2>7. QED
    BY <1>1, <2>3, <2>6 DEF IInv
<1>9. ASSUME Kept, UNCHANGED has_found_dyld_in_cache, pc \in Late,
             pc' # "patch_platform_check",
             has_found_dyld_in_cache =>
                 pc' \in {"scan_start", "write_file", "done", "spin", "fault"},
             pc' \in {"write_file", "done"} => has_found_dyld_in_cache \/ ~ KnowsDyldInCache
      PROVE  IInv'
  BY <1>1, <1>9, QuietStep, FoundStays DEF IInv
<1>10. pc \in {"cstring", "dyld_in_cache_patch"} => ~ has_found_dyld_in_cache
  <2>1. has_found_dyld_in_cache => pc \in {"scan_start", "write_file", "done", "spin", "fault"}
    BY Zenon DEF IInv, FoundInv
  <2>2. QED
    BY <2>1
<1>11. CASE FindCstring
  <2>1. Kept /\ UNCHANGED has_found_dyld_in_cache /\ pc = "cstring"
    BY <1>11 DEF FindCstring, Kept, shc
  <2>2. pc' \in {"spin", "fault", "dyld_in_cache_patch", "write_file"}
    BY <1>11 DEF FindCstring, Goto
  <2>3. pc' = "write_file" => ~ KnowsDyldInCache
    BY <1>1, <1>11, CstringStep
  <2>4. /\ pc \in Late /\ pc' # "patch_platform_check"
        /\ pc' \in {"write_file", "done"} => ~ KnowsDyldInCache
    BY <2>1, <2>2, <2>3 DEF Late
  <2>5. QED
    BY <1>9, <1>10, <2>1, <2>4
<1>12. CASE dyld_in_cache_patch
  <2>1. Kept /\ UNCHANGED has_found_dyld_in_cache /\ pc = "dyld_in_cache_patch"
    BY <1>12 DEF dyld_in_cache_patch, FindFunction, Kept, shc
  <2>2. pc' \in {"scan_start", "fault"}
    BY <1>12 DEF dyld_in_cache_patch, FindFunction, Goto
  <2>3. /\ pc \in Late /\ pc' # "patch_platform_check"
        /\ pc' \notin {"write_file", "done"}
    BY <2>1, <2>2 DEF Late
  <2>4. QED
    BY <1>9, <1>10, <2>1, <2>3
<1>13. CASE ScanStart
  BY <1>1, <1>13, ScanStartStep DEF IInv
<1>14. CASE StartScanned
  <2>1. Kept /\ UNCHANGED has_found_dyld_in_cache /\ pc = "scan_start"
    BY <1>14 DEF StartScanned, Kept, shc
  <2>2. pc' = IF has_found_dyld_in_cache THEN "write_file" ELSE "spin"
    BY <1>14, Zenon DEF StartScanned, Goto
  <2>3. pc' \in {"write_file", "spin"} /\ (pc' = "write_file" => has_found_dyld_in_cache)
    BY <2>2
  <2>4. /\ pc \in Late /\ pc' # "patch_platform_check"
        /\ pc' \in {"write_file", "done"} => has_found_dyld_in_cache
        /\ pc' \in {"scan_start", "write_file", "done", "spin", "fault"}
    BY <2>1, <2>3 DEF Late
  <2>5. QED
    BY <1>9, <2>1, <2>4
<1>15. CASE WriteFile
  <2>1. Kept /\ UNCHANGED has_found_dyld_in_cache /\ pc = "write_file"
    BY <1>15 DEF WriteFile, Kept, shc
  <2>2. pc' \in {"done", "spin"}
    BY <1>15 DEF WriteFile, Goto, spin
  <2>3. /\ pc \in Late /\ pc' # "patch_platform_check"
        /\ pc' \in {"scan_start", "write_file", "done", "spin", "fault"}
        /\ pc \in {"write_file", "done"}
    BY <2>1, <2>2 DEF Late
  <2>4. has_found_dyld_in_cache \/ ~ KnowsDyldInCache
    BY <2>3, Zenon DEF IInv, FoundInv
  <2>5. QED
    BY <1>9, <2>1, <2>3, <2>4
<1>16. CASE UNCHANGED vars
  <2>1. Kept /\ UNCHANGED <<pc, func, i, has_found_dyld_in_cache>>
    BY <1>16 DEF vars, Kept, scan, shc
  <2>2. slice' = slice /\ DOMAIN words' = DOMAIN words /\ platform' = platform
        /\ shc_copied' = shc_copied /\ words' = words /\ _internal_shc_loc' = _internal_shc_loc
    BY <2>1 DEF Kept
  <2>3. CodeInv'
    BY <1>1, <2>1, <2>2, CodeStays DEF IInv
  <2>4. CheckInv'
    <3>1. /\ RegionBehind' = RegionBehind /\ get_shc_region' = get_shc_region
          /\ macho_find_symbol("forEachSupportedPlatform")'
                = macho_find_symbol("forEachSupportedPlatform")
      BY <2>2, SliceKept
    <3>2. QED
      BY <2>1, <2>2, <3>1 DEF IInv, CheckInv, Reached
  <2>5. FoundInv'
    <3>1. /\ has_found_dyld_in_cache =>
                pc' \in {"scan_start", "write_file", "done", "spin", "fault"}
          /\ pc' \in {"write_file", "done"} => has_found_dyld_in_cache \/ ~ KnowsDyldInCache
      BY <2>1, Zenon DEF IInv, FoundInv
    <3>2. QED
      BY <2>1, <3>1, FoundStays
  <2>6. QED
    BY <1>1, <2>3, <2>4, <2>5 DEF IInv
<1>17. QED
  BY <1>3, <1>4, <1>5, <1>6, <1>7, <1>8, <1>11, <1>12, <1>13, <1>14, <1>15, <1>16 DEF Next

LEMMA Invariance == Spec => []IInv
<1>1. Init => IInv
  BY PatchInit
<1>2. IInv /\ [Next]_vars => IInv'
  BY InvStep
<1>3. QED
  BY <1>1, <1>2, PTL DEF Spec

(* Every variable keeps its type, whatever commands, sections and symbols the
   file has or lacks. *)
THEOREM PatchTyped == Spec => []TypeOK
<1>1. IInv => TypeOK
  BY DEF IInv, PatchInv
<1>2. QED
  BY <1>1, Invariance, PTL

(* What is changed of dyld is indirect branches of the platform check, the test
   for DYLD_IN_CACHE, and at most eight words for each of those branches behind
   __unwind_info: zeros of __TEXT that belong to no section, if it has so many. *)
THEOREM LeavesTheRest == Spec => []OnlyPatched
<1>1. IInv => OnlyPatched
  <2> SUFFICES ASSUME IInv, RegionBehind, NEW k \in DOMAIN words, words[k] # slice.mem[k],
                      k \notin Sites \cup InCacheWords
               PROVE  /\ k \in CodeWords
                      /\ Roomy =>
                            /\ slice.mem[k] = Word("other", 0)
                            /\ macho_find_section_for_ptr(k) = {}
                            /\ \E seg \in macho_get_segment("__TEXT") :
                                  Within(k, seg.fileoff, seg.filesize)
    BY DEF OnlyPatched
  <2>1. /\ TypeOK /\ IsSlice(slice) /\ DOMAIN words = DOMAIN slice.mem
        /\ InCode(k) /\ shc_copied <= Cardinality(CheckBranches)
        /\ _internal_shc_loc \in {NoLoc} \cup get_shc_region
    BY TypedSlice DEF IInv, PatchInv, CodeInv, TypeOK, Accounted
  <2>2. _internal_shc_loc \in get_shc_region /\ _internal_shc_loc \in Nat
    BY <2>1, RegionFound DEF InCode
  <2>3. shc_copied \in Nat /\ Cardinality(CheckBranches) \in Nat /\ k \in Nat
    BY <2>1, BranchFacts DEF TypeOK
  <2>4. _internal_shc_loc <= k /\ k < _internal_shc_loc + 8 * Cardinality(CheckBranches)
    BY <2>1, <2>2, <2>3 DEF InCode
  <2>5. k \in CodeWords
    BY <2>2, <2>4 DEF CodeWords, Within
  <2>6. QED
    BY <2>1, <2>2, <2>4, <2>5, RoomIsFree
<1>2. QED
  BY <1>1, Invariance, PTL

(* A call that was led elsewhere still gets where it went, as a call, and any
   other branch where the first branch of all gets, whatever code was copied
   in between and whether it has room or not. *)
THEOREM BranchesRunTheirCode == Spec => []SitesRunTheirCode
<1>1. IInv => SitesRunTheirCode
  <2> SUFFICES ASSUME IInv, RegionBehind, NEW k \in Sites
               PROVE  /\ words[k].op = "bl" <=> slice.mem[k].op = "blr"
                      /\ \E j \in Led :
                            /\ IF slice.mem[k].op = "br" THEN FirstLed(j) ELSE j = k
                            /\ Runs(CodeFor(platform, slice.mem[j]), words[k].arg)
    BY DEF SitesRunTheirCode
  <2>1. TypeOK /\ k \in Led /\ Led \subseteq CheckBranches /\ CheckBranches \subseteq Nat
    BY BranchFacts DEF IInv, PatchInv
  <2>2. /\ words[k].op = "bl" <=> slice.mem[k].op = "blr"
        /\ IF slice.mem[k].op = "br" THEN words[k].arg = _internal_shc_loc
           ELSE Placed(slice.mem[k], words[k].arg)
        /\ \A h \in Led : FirstLed(h) => Placed(slice.mem[h], _internal_shc_loc)
    BY DEF IInv, CodeInv
  <2>3. \A h \in Led : \A to :
          Placed(slice.mem[h], to) => Runs(CodeFor(platform, slice.mem[h]), to)
    BY DEF Placed, PlacedIn, Runs
  <2>4. CASE slice.mem[k].op = "br"
    <3>1. PICK j \in Led : \A h \in Led : j <= h
      <4>1. Led \in SUBSET Nat /\ Led # {}
        BY <2>1
      <4>2. QED
        BY <4>1, SmallestHit
    <3>2. FirstLed(j)
      BY <3>1 DEF FirstLed
    <3>3. QED
      BY <2>2, <2>3, <2>4, <3>2
  <2>5. CASE slice.mem[k].op # "br"
    BY <2>1, <2>2, <2>3, <2>5
  <2>6. QED
    BY <2>4, <2>5
<1>2. QED
  BY <1>1, Invariance, PTL

(* A dyld is deployed with no indirect branch left up to the symbol behind its
   platform check, if the next symbol of the table is behind it, and otherwise
   with the check as it was; and, if it knows DYLD_IN_CACHE, with a test for it
   that no longer branches. *)
THEOREM DeployedIsPatched == Spec => []DoneMeansPatched
<1>1. IInv => DoneMeansPatched
  <2> SUFFICES ASSUME IInv, pc = "done" PROVE DoneMeansPatched
    BY DEF DoneMeansPatched
  <2>1. TypeOK /\ IsSlice(slice) /\ DOMAIN words = DOMAIN slice.mem /\ pc \in Late
    BY TypedSlice DEF IInv, PatchInv, TypeOK, Late
  <2>2. ASSUME RegionBehind, HasLength, get_shc_region # {}, NEW k \in CheckWords
        PROVE  ~ IsJump(words[k])
    <3>1. PICK f \in macho_find_symbol("forEachSupportedPlatform") :
              \A h \in DOMAIN words : Within(h, f.offset, f.len) => ~ IsJump(words[h])
      BY <2>1, <2>2 DEF IInv, CheckInv
    <3>2. k \in DOMAIN words /\ Within(k, f.offset, f.len)
      BY <2>1, <2>2, LengthCovers
    <3>3. QED
      BY <3>1, <3>2
  <2>3. ASSUME RegionBehind, HasNone \/ get_shc_region = {},
               NEW k \in DOMAIN words \ InCacheWords, words[k] # slice.mem[k]
        PROVE  FALSE
    <3>1. /\ Accounted(k) /\ shc_copied <= Cardinality(CheckBranches)
          /\ shc_copied = 0 <=> Led = {}
          /\ _internal_shc_loc \in {NoLoc} \cup get_shc_region
          /\ _internal_shc_loc = NoLoc => shc_copied = 0
          /\ shc_copied \in Nat
      BY <2>3 DEF IInv, PatchInv, CodeInv, TypeOK
    <3>2. shc_copied = 0
      <4>1. CASE get_shc_region = {}
        BY <3>1, <4>1
      <4>2. CASE HasNone
        <5>1. \A f \in macho_find_symbol("forEachSupportedPlatform") :
                 f.len = 0 /\ f.offset \in Nat
          BY <2>1, <4>2, SymbolFound DEF HasNone
        <5>2. DOMAIN words \subseteq Nat
          BY <2>1, BranchFacts
        <5>3. CheckBranches = {}
          BY <5>1, <5>2 DEF CheckBranches, Branches, Within
        <5>4. QED
          BY <3>1, <5>3 DEF Led
      <4>3. QED
        BY <2>3, <4>1, <4>2
    <3>3. k \notin Sites
      BY <2>1, <3>1, <3>2, BranchFacts
    <3>4. ~ InCode(k)
      <4>1. k \in Nat
        BY <2>1, BranchFacts
      <4>2. _internal_shc_loc + 8 * shc_copied = _internal_shc_loc
        BY <2>1, <3>2 DEF TypeOK, NoLoc
      <4>3. _internal_shc_loc \in Int
        BY <2>1 DEF TypeOK, NoLoc
      <4>4. QED
        BY <4>1, <4>2, <4>3 DEF InCode
    <3>5. QED
      BY <2>3, <3>1, <3>3, <3>4 DEF Accounted
  <2>4. KnowsDyldInCache => \E at \in DOMAIN words : PatchedTest(at)
    BY Zenon DEF IInv, FoundInv
  <2>5. QED
    BY <2>2, <2>3, <2>4 DEF DoneMeansPatched
<1>2. QED
  BY <1>1, Invariance, PTL

-----------------------------------------------------------------------------
(* What FlattenSeq makes of sequences: the joins of the first n. *)
LEMMA UpInduction ==
    ASSUME NEW N \in Nat, NEW Good \in SUBSET (0..N),
           \A k \in 0..N : (\A h \in 0..(k - 1) : h \in Good) => k \in Good
    PROVE  \A k \in 0..N : k \in Good
<1> DEFINE Bad == (0..N) \ Good
<1>1. ASSUME Bad # {} PROVE FALSE
  <2>1. Bad \in SUBSET Nat
    OBVIOUS
  <2>2. PICK k \in Bad : \A h \in Bad : k <= h
    <3> HIDE DEF Bad
    <3>1. QED
      BY <1>1, <2>1, SmallestHit
  <2>3. \A h \in 0..(k - 1) : h \in Good
    BY <2>2
  <2>4. QED
    BY <2>2, <2>3
<1>2. QED
  BY <1>1

JoinOf(seqs, n, f) == IF n = 1 THEN seqs[n] ELSE f[n - 1] \o seqs[n]
LEMMA JoinsExist ==
    ASSUME NEW S, NEW seqs \in Seq(Seq(S))
    PROVE  \E f \in [1..Len(seqs) -> Seq(S)] : \A n \in 1..Len(seqs) : f[n] = JoinOf(seqs, n, f)
<1> DEFINE N == Len(seqs)
           Joins(k, f) == \A n \in 1..k : f[n] = JoinOf(seqs, n, f)
           Good == {k \in 0..N : \E f \in [1..k -> Seq(S)] : Joins(k, f)}
<1>1. N \in Nat /\ \A n \in 1..N : seqs[n] \in Seq(S)
  OBVIOUS
<1>2. ASSUME NEW k \in 0..N, \A h \in 0..(k - 1) : h \in Good
      PROVE  k \in Good
  <2>1. CASE k = 0
    <3> DEFINE none == [n \in 1..0 |-> <<>>]
    <3>1. none \in [1..k -> Seq(S)] /\ Joins(k, none) /\ k \in 0..N
      BY <2>1
    <3> HIDE DEF none, Joins
    <3>2. QED
      BY <3>1
  <2>2. CASE k # 0
    <3>1. k - 1 \in 0..(k - 1) /\ k \in 1..N /\ k \in Nat
      BY <1>1, <2>2
    <3>2. PICK f \in [1..(k - 1) -> Seq(S)] : Joins(k - 1, f)
      BY <1>2, <3>1
    <3> DEFINE more == [n \in 1..k |-> IF n = k THEN JoinOf(seqs, k, f) ELSE f[n]]
    <3>3. JoinOf(seqs, k, f) \in Seq(S)
      <4>1. CASE k = 1
        BY <1>1, <3>1, <4>1 DEF JoinOf
      <4>2. CASE k # 1
        <5>1. k - 1 \in 1..(k - 1)
          BY <3>1, <4>2
        <5>2. f[k - 1] \in Seq(S) /\ seqs[k] \in Seq(S)
          BY <1>1, <3>1, <5>1
        <5>3. f[k - 1] \o seqs[k] \in Seq(S)
          BY <5>2, ConcatProperties
        <5>4. QED
          BY <4>2, <5>3 DEF JoinOf
      <4>3. QED
        BY <4>1, <4>2
    <3>4. ASSUME NEW n \in 1..k PROVE more[n] \in Seq(S)
      <4>1. n = k \/ n \in 1..(k - 1)
        BY <3>1
      <4>2. QED
        BY <3>3, <4>1
    <3>5. more \in [1..k -> Seq(S)]
      BY <3>4
    <3>6. ASSUME NEW n \in 1..k PROVE more[n] = JoinOf(seqs, n, more)
      <4>1. n = 1 \/ (n # 1 /\ n - 1 \in 1..k /\ n - 1 # k /\ more[n - 1] = f[n - 1])
        BY <3>1
      <4>2. JoinOf(seqs, n, more) = JoinOf(seqs, n, f)
        BY <4>1 DEF JoinOf
      <4>3. n = k \/ n \in 1..(k - 1)
        BY <3>1
      <4>4. more[n] = JoinOf(seqs, n, f)
        BY <3>2, <4>3
      <4>5. QED
        BY <4>2, <4>4
    <3>7. Joins(k, more)
      BY <3>6
    <3> HIDE DEF more
    <3>8. QED
      BY <3>5, <3>7
  <2>3. QED
    BY <2>1, <2>2
<1>3. N \in Good
  <2>1. Good \in SUBSET (0..N) /\ N \in 0..N
    BY <1>1
  <2> HIDE DEF Good, N
  <2>2. QED
    BY <1>1, <1>2, <2>1, UpInduction
<1>4. QED
  BY <1>3

LEMMA FlattenJoins ==
    ASSUME NEW S, NEW seqs \in Seq(Seq(S)), Len(seqs) # 0
    PROVE  \E f \in [1..Len(seqs) -> Seq(S)] :
              /\ \A n \in 1..Len(seqs) : f[n] = JoinOf(seqs, n, f)
              /\ FlattenSeq(seqs) = f[Len(seqs)]
<1> DEFINE N == Len(seqs)
           Step(f) == [n \in 1..N |-> IF n = 1 THEN seqs[n] ELSE f[n - 1] \o seqs[n]]
           joins == CHOOSE f : f = Step(f)
<1>1. FlattenSeq(seqs) = joins[N]
  BY DEF FlattenSeq
<1>2. N \in Nat /\ \A n \in 1..N : seqs[n] \in Seq(S)
  OBVIOUS
<1>3. \E f : f = Step(f)
  <2>1. PICK f \in [1..N -> Seq(S)] : \A n \in 1..N : f[n] = JoinOf(seqs, n, f)
    BY JoinsExist
  <2>2. \A n \in 1..N : f[n] = Step(f)[n]
    BY <2>1 DEF JoinOf
  <2>3. f = Step(f)
    BY <2>2
  <2>4. QED
    BY <2>3
<1>4. joins = Step(joins)
  <2> HIDE DEF Step
  <2>1. QED
    BY <1>3
<1>5. \A n \in 1..N : joins[n] = JoinOf(seqs, n, joins)
  <2> HIDE DEF joins
  <2>1. \A n \in 1..N : Step(joins)[n] = JoinOf(seqs, n, joins)
    BY DEF JoinOf
  <2> HIDE DEF Step
  <2>2. QED
    BY <1>4, <2>1
<1>6. joins = [n \in 1..N |-> joins[n]]
  <2> HIDE DEF joins
  <2>1. Step(joins) = [n \in 1..N |-> Step(joins)[n]]
    OBVIOUS
  <2> HIDE DEF Step
  <2>2. QED
    BY <1>4, <2>1
<1> HIDE DEF joins, Step
<1> DEFINE Good == {k \in 0..N : k # 0 => joins[k] \in Seq(S)}
<1>7. ASSUME NEW k \in 0..N, \A h \in 0..(k - 1) : h \in Good
      PROVE  k \in Good
  <2>1. CASE k \in {0, 1}
    BY <1>2, <1>5, <2>1 DEF JoinOf
  <2>2. CASE k \notin {0, 1}
    <3>1. k \in 1..N /\ k - 1 \in 0..(k - 1) /\ k - 1 # 0
      BY <1>2, <2>2
    <3>2. joins[k - 1] \in Seq(S) /\ seqs[k] \in Seq(S)
      BY <1>2, <1>7, <3>1
    <3>3. joins[k] = joins[k - 1] \o seqs[k]
      BY <1>5, <2>2, <3>1 DEF JoinOf
    <3>4. joins[k] \in Seq(S)
      BY <3>2, <3>3, ConcatProperties
    <3>5. QED
      BY <3>4
  <2>3. QED
    BY <2>1, <2>2
<1>8. \A k \in 0..N : k \in Good
  <2>1. Good \in SUBSET (0..N)
    OBVIOUS
  <2> HIDE DEF Good, N
  <2>2. QED
    BY <1>2, <1>7, <2>1, UpInduction
<1>9. \A n \in 1..N : joins[n] \in Seq(S)
  BY <1>8
<1>10. joins \in [1..N -> Seq(S)]
  BY <1>6, <1>9
<1>11. QED
  BY <1>1, <1>5, <1>10

LEMMA JoinLacks ==
    ASSUME NEW S, NEW a \in Seq(S), NEW b \in Seq(S), NEW v,
           \A y \in 1..Len(a) : a[y] # v, \A y \in 1..Len(b) : b[y] # v
    PROVE  \A y \in 1..Len(a \o b) : (a \o b)[y] # v
<1>1. /\ Len(a) \in Nat /\ Len(b) \in Nat /\ Len(a \o b) = Len(a) + Len(b)
      /\ \A x \in 1 .. Len(a) + Len(b) :
            (a \o b)[x] = IF x <= Len(a) THEN a[x] ELSE b[x - Len(a)]
  BY ConcatProperties
<1>2. ASSUME NEW y \in 1..Len(a \o b) PROVE (a \o b)[y] # v
  <2>1. y \in 1..(Len(a) + Len(b)) /\ y \in Nat
    BY <1>1
  <2>2. CASE y <= Len(a)
    <3>1. (a \o b)[y] = a[y] /\ y \in 1..Len(a)
      BY <1>1, <2>1, <2>2
    <3>2. QED
      BY <3>1
  <2>3. CASE ~ (y <= Len(a))
    <3>1. (a \o b)[y] = b[y - Len(a)]
      BY <1>1, <2>1, <2>3
    <3>2. y - Len(a) \in 1..Len(b)
      BY <1>1, <2>1, <2>3
    <3>3. QED
      BY <3>1, <3>2
  <2>4. QED
    BY <2>2, <2>3
<1>3. QED
  BY <1>2

(* What is in none of the sequences is not in their join; what is first in one
   of them, and in none before, stays the first, with what follows it there. *)
LEMMA FlattenLacks ==
    ASSUME NEW S, NEW seqs \in Seq(Seq(S)), NEW v,
           \A n \in 1..Len(seqs) : \A y \in 1..Len(seqs[n]) : seqs[n][y] # v
    PROVE  FlattenSeq(seqs) \in Seq(S)
             /\ \A y \in 1..Len(FlattenSeq(seqs)) : FlattenSeq(seqs)[y] # v
<1> DEFINE N == Len(seqs)
<1>1. N \in Nat /\ \A n \in 1..N : seqs[n] \in Seq(S)
  OBVIOUS
<1>2. CASE N = 0
  <2>1. FlattenSeq(seqs) = seqs /\ seqs = <<>>
    BY <1>2 DEF FlattenSeq
  <2>2. QED
    BY <2>1
<1>3. CASE N # 0
  <2>1. PICK f \in [1..N -> Seq(S)] :
           /\ \A n \in 1..N : f[n] = JoinOf(seqs, n, f)
           /\ FlattenSeq(seqs) = f[N]
    BY <1>3, FlattenJoins
  <2> DEFINE Lacks(s) == \A y \in 1..Len(s) : s[y] # v
             Good == {k \in 0..N : k # 0 => Lacks(f[k])}
  <2>2. ASSUME NEW k \in 0..N, \A h \in 0..(k - 1) : h \in Good
        PROVE  k \in Good
    <3>1. CASE k \in {0, 1}
      <4>1. k = 1 => f[k] = seqs[1] /\ 1 \in 1..N
        <5>1. k = 1 => 1 \in 1..N /\ f[1] = JoinOf(seqs, 1, f)
          BY <2>1
        <5>2. QED
          BY <5>1 DEF JoinOf
      <4>2. k = 1 => Lacks(f[k])
        BY <4>1
      <4> HIDE DEF Lacks
      <4>3. QED
        BY <3>1, <4>2
    <3>2. CASE k \notin {0, 1}
      <4>1. k \in 1..N /\ k - 1 \in 0..(k - 1) /\ k - 1 # 0 /\ k - 1 \in 1..N
        BY <1>1, <3>2
      <4>2. f[k - 1] \in Seq(S) /\ seqs[k] \in Seq(S) /\ Lacks(f[k - 1]) /\ Lacks(seqs[k])
        BY <1>1, <2>1, <2>2, <4>1
      <4>3. f[k] = f[k - 1] \o seqs[k]
        BY <2>1, <3>2, <4>1 DEF JoinOf
      <4>4. Lacks(f[k])
        BY <4>2, <4>3, JoinLacks
      <4> HIDE DEF Lacks
      <4>5. QED
        BY <4>4
    <3>3. QED
      BY <3>1, <3>2
  <2>3. N \in Good
    <3>1. Good \in SUBSET (0..N) /\ N \in 0..N
      BY <1>1
    <3> HIDE DEF Good, N
    <3>2. QED
      BY <1>1, <2>2, <3>1, UpInduction
  <2>4. Lacks(f[N]) /\ f[N] \in Seq(S)
    BY <1>1, <1>3, <2>1, <2>3
  <2>5. QED
    BY <2>1, <2>4
<1>4. QED
  BY <1>2, <1>3

(* s is found in t, and nothing ahead of it there is v. *)
FoundIn(s, t, v) ==
    \E at \in Nat :
        /\ at + Len(s) <= Len(t)
        /\ \A y \in 1..Len(s) : t[at + y] = s[y]
        /\ \A m \in 1..at : t[m] # v

LEMMA FoundBehind ==
    ASSUME NEW S, NEW s, NEW a \in Seq(S), NEW b \in Seq(S), NEW v,
           Len(s) \in Nat, FoundIn(s, a, v)
    PROVE  FoundIn(s, a \o b, v)
<1>1. PICK at \in Nat : /\ at + Len(s) <= Len(a)
                        /\ \A y \in 1..Len(s) : a[at + y] = s[y]
                        /\ \A m \in 1..at : a[m] # v
  BY DEF FoundIn
<1>2. /\ Len(a) \in Nat /\ Len(b) \in Nat /\ Len(a \o b) = Len(a) + Len(b)
      /\ \A x \in 1 .. Len(a) + Len(b) :
            (a \o b)[x] = IF x <= Len(a) THEN a[x] ELSE b[x - Len(a)]
  BY ConcatProperties
<1>3. ASSUME NEW x \in 1..(at + Len(s)) PROVE (a \o b)[x] = a[x]
  BY <1>1, <1>2
<1>4. \A y \in 1..Len(s) : at + y \in 1..(at + Len(s))
  OBVIOUS
<1>5. \A m \in 1..at : m \in 1..(at + Len(s))
  OBVIOUS
<1>6. at + Len(s) <= Len(a \o b)
  BY <1>1, <1>2
<1>7. QED
  BY <1>1, <1>3, <1>4, <1>5, <1>6 DEF FoundIn

LEMMA FoundLast ==
    ASSUME NEW S, NEW a \in Seq(S), NEW b \in Seq(S), NEW v, \A m \in 1..Len(a) : a[m] # v
    PROVE  FoundIn(b, a \o b, v)
<1>1. /\ Len(a) \in Nat /\ Len(b) \in Nat /\ Len(a \o b) = Len(a) + Len(b)
      /\ \A x \in 1 .. Len(a) + Len(b) :
            (a \o b)[x] = IF x <= Len(a) THEN a[x] ELSE b[x - Len(a)]
  BY ConcatProperties
<1>2. \A y \in 1..Len(b) : (a \o b)[Len(a) + y] = b[y]
  BY <1>1
<1>3. \A m \in 1..Len(a) : (a \o b)[m] # v
  BY <1>1
<1>4. QED
  BY <1>1, <1>2, <1>3 DEF FoundIn

LEMMA FlattenHas ==
    ASSUME NEW S, NEW seqs \in Seq(Seq(S)), NEW v, NEW first \in 1..Len(seqs),
           \A n \in 1..(first - 1) : \A y \in 1..Len(seqs[n]) : seqs[n][y] # v
    PROVE  FlattenSeq(seqs) \in Seq(S) /\ FoundIn(seqs[first], FlattenSeq(seqs), v)
<1> DEFINE N == Len(seqs)
           Lacks(s) == \A y \in 1..Len(s) : s[y] # v
<1>1. /\ N \in Nat /\ first \in Nat /\ first \in 1..N
      /\ \A n \in 1..N : seqs[n] \in Seq(S) /\ Len(seqs[n]) \in Nat
  OBVIOUS
<1>2. PICK f \in [1..N -> Seq(S)] :
         /\ \A n \in 1..N : f[n] = JoinOf(seqs, n, f)
         /\ FlattenSeq(seqs) = f[N]
  <2>1. N # 0
    BY <1>1
  <2>2. QED
    BY <2>1, FlattenJoins
<1> DEFINE Good == {k \in 0..N : /\ k \in 1..(first - 1) => Lacks(f[k])
                                 /\ first <= k => FoundIn(seqs[first], f[k], v)}
<1>3. ASSUME NEW k \in 0..N, \A h \in 0..(k - 1) : h \in Good
      PROVE  k \in Good
  <2>1. CASE k = 0
    <3>1. ~ (k \in 1..(first - 1)) /\ ~ (first <= k)
      BY <1>1, <2>1
    <3> HIDE DEF Lacks
    <3>2. QED
      BY <3>1
  <2>2. CASE k = 1
    <3>1. f[1] = seqs[1] /\ 1 \in 1..N /\ f[1] \in Seq(S)
      <4>1. 1 \in 1..N /\ f[1] = JoinOf(seqs, 1, f)
        BY <1>2, <2>2
      <4>2. QED
        BY <1>1, <4>1 DEF JoinOf
    <3>2. 1 \in 1..(first - 1) => Lacks(f[1])
      BY <3>1
    <3>3. first <= 1 => FoundIn(seqs[first], f[1], v)
      <4>1. ASSUME first <= 1 PROVE first = 1
        BY <1>1, <4>1
      <4>2. FoundIn(f[1], f[1], v)
        <5>1. 0 \in Nat /\ 0 + Len(f[1]) <= Len(f[1]) /\ \A m \in 1..0 : FALSE
          BY <3>1
        <5>2. \A y \in 1..Len(f[1]) : f[1][0 + y] = f[1][y]
          OBVIOUS
        <5>3. QED
          BY <5>1, <5>2 DEF FoundIn
      <4>3. QED
        BY <3>1, <4>1, <4>2
    <3> HIDE DEF Lacks
    <3>4. QED
      BY <2>2, <3>2, <3>3
  <2>3. CASE k \notin {0, 1}
    <3>1. k \in Nat /\ k \in 1..N /\ k - 1 \in 0..(k - 1) /\ k - 1 \in 1..N
      BY <1>1, <2>3
    <3>2. f[k - 1] \in Seq(S) /\ seqs[k] \in Seq(S)
      BY <1>1, <1>2, <3>1
    <3>3. f[k] = f[k - 1] \o seqs[k]
      BY <1>2, <2>3, <3>1 DEF JoinOf
    <3>4. k - 1 \in Good
      BY <1>3, <3>1
    <3>5. ASSUME k \in 1..(first - 1) PROVE Lacks(f[k])
      <4>1. k - 1 \in 1..(first - 1)
        BY <1>1, <3>1, <3>5
      <4>2. Lacks(f[k - 1]) /\ Lacks(seqs[k])
        BY <3>4, <3>5, <4>1
      <4>3. QED
        BY <3>2, <3>3, <4>2, JoinLacks
    <3>6. ASSUME first <= k PROVE FoundIn(seqs[first], f[k], v)
      <4>1. CASE first = k
        <5>1. k - 1 \in 1..(first - 1)
          BY <1>1, <3>1, <4>1
        <5>2. \A m \in 1..Len(f[k - 1]) : f[k - 1][m] # v
          BY <3>4, <5>1
        <5>3. QED
          BY <3>2, <3>3, <4>1, <5>2, FoundLast
      <4>2. CASE first # k
        <5>1. first <= k - 1
          BY <1>1, <3>1, <3>6, <4>2
        <5>2. FoundIn(seqs[first], f[k - 1], v) /\ Len(seqs[first]) \in Nat
          BY <1>1, <3>4, <5>1
        <5>3. QED
          BY <3>2, <3>3, <5>2, FoundBehind
      <4>3. QED
        BY <4>1, <4>2
    <3> HIDE DEF Lacks
    <3>7. QED
      BY <3>5, <3>6
  <2>4. QED
    BY <2>1, <2>2, <2>3
<1>4. N \in Good
  <2>1. Good \in SUBSET (0..N) /\ N \in 0..N
    BY <1>1
  <2> HIDE DEF Good, N
  <2>2. QED
    BY <1>1, <1>3, <2>1, UpInduction
<1>5. FoundIn(seqs[first], f[N], v) /\ f[N] \in Seq(S)
  <2>1. first <= N /\ N \in 1..N
    BY <1>1
  <2>2. QED
    BY <1>2, <1>4, <2>1
<1>6. QED
  BY <1>2, <1>5

-----------------------------------------------------------------------------
(* The platform. *)
PlatformSet ==
    pc \notin {"macho_get_magic", "macho_find_arch", "macho_get_platform", "spin", "fault"} =>
        platform = macho_get_platform /\ platform # 0

LEMMA PlatformStays == PlatformSet /\ [Next]_vars => PlatformSet'
<1> SUFFICES ASSUME PlatformSet, [Next]_vars PROVE PlatformSet'
  OBVIOUS
<1>1. slice' = slice => macho_get_platform' = macho_get_platform
  BY DEF macho_get_platform, FirstIn, cmds, IsBuild
<1>2. CASE GetMagic
  BY <1>2 DEF GetMagic, Goto, PlatformSet
<1>3. CASE FindArch
  BY <1>3 DEF FindArch, Goto, spin, PlatformSet
<1>4. CASE GetPlatform
  BY <1>1, <1>4 DEF GetPlatform, Goto, PlatformSet
<1>5. ASSUME slice' = slice, platform' = platform, NEW at, pc = at,
             at \notin {"macho_get_magic", "macho_find_arch", "macho_get_platform", "spin", "fault"}
      PROVE  PlatformSet'
  BY <1>1, <1>5 DEF PlatformSet
<1>6. CASE platform_check_patch
  BY <1>5, <1>6 DEF platform_check_patch, FindFunction
<1>7. CASE ScanPlatformCheck
  BY <1>5, <1>7 DEF ScanPlatformCheck
<1>8. CASE PlatformCheckScanned
  BY <1>5, <1>8 DEF PlatformCheckScanned
<1>9. CASE FindCstring
  BY <1>5, <1>9 DEF FindCstring
<1>10. CASE dyld_in_cache_patch
  BY <1>5, <1>10 DEF dyld_in_cache_patch, FindFunction
<1>11. CASE ScanStart
  BY <1>5, <1>11 DEF ScanStart
<1>12. CASE StartScanned
  BY <1>5, <1>12 DEF StartScanned
<1>13. CASE WriteFile
  BY <1>5, <1>13 DEF WriteFile
<1>14. CASE UNCHANGED vars
  BY <1>1, <1>14 DEF vars, PlatformSet
<1>15. QED
  BY <1>2, <1>3, <1>4, <1>6, <1>7, <1>8, <1>9, <1>10, <1>11, <1>12, <1>13, <1>14 DEF Next

(* jbinit's platform is that of the first LC_BUILD_VERSION of the slice. *)
LEMMA PlatformIsFirst ==
    ASSUME IsSlice(slice), macho_get_platform # 0
    PROVE  macho_get_platform \in 1..5 /\ \E n \in DOMAIN cmds :
              FirstBuild(slice, n) /\ cmds[n].platform = macho_get_platform
<1> DEFINE hits == {n \in DOMAIN cmds : IsBuild(cmds[n])}
           n == FirstOf(hits)
<1>1. cmds \in Seq(Commands) /\ DOMAIN cmds = 1..Len(cmds) /\ Len(cmds) \in Nat
  BY SliceFacts, LenProperties
<1>2. macho_get_platform = IF n = 0 \/ cmds[n].platform > 5 THEN 0 ELSE cmds[n].platform
  BY DEF macho_get_platform, FirstIn, FirstOf
<1>3. hits # {}
  BY <1>2 DEF FirstOf
<1>4. n \in hits /\ \A h \in hits : n <= h
  <2>1. hits \in SUBSET Nat
    BY <1>1
  <2>2. \E m \in hits : \A h \in hits : m <= h
    <3> HIDE DEF hits
    <3>1. QED
      BY <1>3, <2>1, SmallestHit
  <2>3. QED
    BY <1>3, <2>2 DEF FirstOf
<1> HIDE DEF n
<1>5. n \in DOMAIN cmds /\ IsBuild(cmds[n]) /\ \A h \in 1..(n - 1) : ~ IsBuild(cmds[h])
  <2>1. \A h \in 1..(n - 1) : h \in DOMAIN cmds /\ ~ (n <= h)
    BY <1>1, <1>4
  <2>2. QED
    BY <1>4, <2>1
<1>6. FirstBuild(slice, n)
  BY <1>5 DEF FirstBuild, cmds
<1>7. macho_get_platform = cmds[n].platform
  BY <1>2
<1>8. macho_get_platform \in 1..5
  BY PlatformFound
<1>9. QED
  BY <1>5, <1>6, <1>7, <1>8

(* The numbers jbloader reads: those of each slice, and of all of them. *)
NumsOf(sl) == [c \in DOMAIN sl.cmds |-> sl.cmds[c].nums]
AllNums(im) == [n \in DOMAIN im.slices |-> FlattenSeq(NumsOf(im.slices[n]))]

LEMMA NumsAre ==
    ASSUME NEW im \in Images, NEW n \in DOMAIN im.slices
    PROVE  LET sl == im.slices[n]
           IN  /\ NumsOf(sl) \in Seq(Seq(Nat)) /\ Len(NumsOf(sl)) = Len(sl.cmds)
               /\ DOMAIN sl.cmds = 1..Len(sl.cmds) /\ Len(sl.cmds) \in Nat
               /\ \A c \in DOMAIN sl.cmds : NumsOf(sl)[c] = sl.cmds[c].nums
               /\ \A c \in DOMAIN sl.cmds : IsBuild(sl.cmds[c]) =>
                     /\ Len(sl.cmds[c].nums) > 2 /\ sl.cmds[c].nums[1] = 50
                     /\ sl.cmds[c].nums[3] = sl.cmds[c].platform
<1> DEFINE sl == im.slices[n]
<1>1. sl \in Range(im.slices)
  BY DEF Range
<1>2. sl.cmds \in Seq(Commands)
      /\ \A c \in Range(sl.cmds) : c.cmd = "LC_BUILD_VERSION" =>
            Len(c.nums) > 2 /\ c.nums[1] = 50 /\ c.nums[3] = c.platform
  BY <1>1, DyldPatchAssumption
<1> HIDE DEF sl
<1>3. DOMAIN sl.cmds = 1..Len(sl.cmds) /\ Len(sl.cmds) \in Nat
  BY <1>2, LenProperties
<1>4. \A c \in DOMAIN sl.cmds : sl.cmds[c] \in Commands /\ sl.cmds[c] \in Range(sl.cmds)
  BY <1>2, <1>3 DEF Range
<1>5. \A c \in DOMAIN sl.cmds : sl.cmds[c].nums \in Seq(Nat)
  <2>1. \A c \in Commands : c.nums \in Seq(Nat)
    BY DEF Commands, Segments
  <2>2. QED
    BY <1>4, <2>1
<1>6. NumsOf(sl) \in Seq(Seq(Nat)) /\ Len(NumsOf(sl)) = Len(sl.cmds)
  <2>1. NumsOf(sl) = [c \in 1..Len(sl.cmds) |-> sl.cmds[c].nums]
    BY <1>3 DEF NumsOf
  <2>2. NumsOf(sl) \in [1..Len(sl.cmds) -> Seq(Nat)]
    BY <1>3, <1>5, <2>1
  <2>3. QED
    BY <1>3, <2>2
<1>7. \A c \in DOMAIN sl.cmds : NumsOf(sl)[c] = sl.cmds[c].nums
  BY DEF NumsOf
<1>8. \A c \in DOMAIN sl.cmds : IsBuild(sl.cmds[c]) =>
        /\ Len(sl.cmds[c].nums) > 2 /\ sl.cmds[c].nums[1] = 50
        /\ sl.cmds[c].nums[3] = sl.cmds[c].platform
  BY <1>2, <1>4 DEF IsBuild
<1>9. QED
  BY <1>3, <1>6, <1>7, <1>8 DEF sl

LEMMA NumsTyped ==
    ASSUME NEW im \in Images
    PROVE  /\ \A n \in DOMAIN im.slices : FlattenSeq(NumsOf(im.slices[n])) \in Seq(Nat)
           /\ AllNums(im) \in Seq(Seq(Nat)) /\ Len(AllNums(im)) = Len(im.slices)
           /\ DOMAIN im.slices = 1..Len(im.slices) /\ Len(im.slices) \in Nat
           /\ \A n \in DOMAIN im.slices : AllNums(im)[n] = FlattenSeq(NumsOf(im.slices[n]))
<1>1. DOMAIN im.slices = 1..Len(im.slices) /\ Len(im.slices) \in Nat
  BY DyldPatchAssumption, LenProperties
<1>2. ASSUME NEW n \in DOMAIN im.slices
      PROVE  FlattenSeq(NumsOf(im.slices[n])) \in Seq(Nat)
  <2> DEFINE seqs == NumsOf(im.slices[n])
  <2>1. seqs \in Seq(Seq(Nat))
    BY NumsAre
  <2> HIDE DEF seqs
  <2>2. \A c \in 1..Len(seqs) : \A y \in 1..Len(seqs[c]) : seqs[c][y] # -1
    BY <2>1
  <2>3. FlattenSeq(seqs) \in Seq(Nat)
    BY <2>1, <2>2, FlattenLacks
  <2>4. QED
    BY <2>3 DEF seqs
<1>3. \A n \in DOMAIN im.slices : AllNums(im)[n] = FlattenSeq(NumsOf(im.slices[n]))
  BY DEF AllNums
<1>4. AllNums(im) \in [1..Len(im.slices) -> Seq(Nat)]
  BY <1>1, <1>2 DEF AllNums
<1>5. AllNums(im) \in Seq(Seq(Nat)) /\ Len(AllNums(im)) = Len(im.slices)
  BY <1>1, <1>4
<1>6. QED
  BY <1>1, <1>2, <1>3, <1>5

(* jbloader finds the first LC_BUILD_VERSION of the first slice with one. *)
LEMMA FoundFirst ==
    ASSUME NEW im \in Images, NEW n \in DOMAIN im.slices, NEW c \in DOMAIN im.slices[n].cmds,
           FirstBuild(im.slices[n], c),
           \A m \in 1..(n - 1) : \A d \in DOMAIN im.slices[m].cmds : ~ IsBuild(im.slices[m].cmds[d]),
           \A m \in DOMAIN im.slices : \A d \in DOMAIN im.slices[m].cmds :
              ~ IsBuild(im.slices[m].cmds[d]) =>
                 \A x \in DOMAIN im.slices[m].cmds[d].nums : im.slices[m].cmds[d].nums[x] # 50
    PROVE  /\ FlattenSeq(AllNums(im)) \in Seq(Nat)
           /\ FoundIn(im.slices[n].cmds[c].nums, FlattenSeq(AllNums(im)), 50)
<1> DEFINE Nums(m) == FlattenSeq(NumsOf(im.slices[m]))
           build == im.slices[n].cmds[c].nums
           all == FlattenSeq(AllNums(im))
<1>1. /\ DOMAIN im.slices = 1..Len(im.slices) /\ Len(im.slices) \in Nat
      /\ AllNums(im) \in Seq(Seq(Nat)) /\ Len(AllNums(im)) = Len(im.slices)
      /\ \A m \in DOMAIN im.slices : Nums(m) \in Seq(Nat) /\ AllNums(im)[m] = Nums(m)
  BY NumsTyped
<1>2. ASSUME NEW m \in DOMAIN im.slices, NEW d \in DOMAIN im.slices[m].cmds,
             ~ IsBuild(im.slices[m].cmds[d])
      PROVE  \A x \in 1..Len(NumsOf(im.slices[m])[d]) : NumsOf(im.slices[m])[d][x] # 50
  <2> DEFINE s == NumsOf(im.slices[m])[d]
  <2>1. s = im.slices[m].cmds[d].nums /\ s \in Seq(Nat)
    BY NumsAre
  <2>2. \A x \in DOMAIN im.slices[m].cmds[d].nums : im.slices[m].cmds[d].nums[x] # 50
    BY <1>2
  <2> HIDE DEF s
  <2>3. \A x \in DOMAIN s : s[x] # 50
    BY <2>1, <2>2
  <2>4. DOMAIN s = 1..Len(s)
    BY <2>1
  <2>5. QED
    BY <2>3, <2>4 DEF s
<1>3. ASSUME NEW m \in 1..(n - 1)
      PROVE  \A y \in 1..Len(AllNums(im)[m]) : AllNums(im)[m][y] # 50
  <2>1. m \in DOMAIN im.slices
    BY <1>1
  <2>2. /\ NumsOf(im.slices[m]) \in Seq(Seq(Nat))
        /\ Len(NumsOf(im.slices[m])) = Len(im.slices[m].cmds)
        /\ DOMAIN im.slices[m].cmds = 1..Len(im.slices[m].cmds)
    BY <2>1, NumsAre
  <2>3. \A d \in 1..Len(NumsOf(im.slices[m])) :
           \A x \in 1..Len(NumsOf(im.slices[m])[d]) : NumsOf(im.slices[m])[d][x] # 50
    BY <1>2, <2>1, <2>2
  <2> DEFINE seqs == NumsOf(im.slices[m])
  <2>4. /\ seqs \in Seq(Seq(Nat))
        /\ \A d \in 1..Len(seqs) : \A x \in 1..Len(seqs[d]) : seqs[d][x] # 50
    BY <2>2, <2>3
  <2>5. AllNums(im)[m] = FlattenSeq(seqs)
    BY <1>1, <2>1
  <2> HIDE DEF seqs, Nums
  <2>6. \A y \in 1..Len(FlattenSeq(seqs)) : FlattenSeq(seqs)[y] # 50
    BY <2>4, FlattenLacks
  <2>7. QED
    BY <2>5, <2>6
<1>4. FoundIn(build, Nums(n), 50)
  <2> DEFINE seqs == NumsOf(im.slices[n])
  <2>1. /\ seqs \in Seq(Seq(Nat)) /\ Len(seqs) = Len(im.slices[n].cmds)
        /\ DOMAIN im.slices[n].cmds = 1..Len(im.slices[n].cmds)
        /\ Len(im.slices[n].cmds) \in Nat /\ seqs[c] = build
    BY NumsAre
  <2>2. ASSUME NEW d \in 1..(c - 1) PROVE \A y \in 1..Len(seqs[d]) : seqs[d][y] # 50
    <3>1. d \in DOMAIN im.slices[n].cmds /\ ~ IsBuild(im.slices[n].cmds[d])
      BY <2>1 DEF FirstBuild
    <3>2. QED
      BY <1>2, <3>1
  <2>3. c \in 1..Len(seqs)
    BY <2>1
  <2> HIDE DEF seqs, build
  <2>4. FoundIn(seqs[c], FlattenSeq(seqs), 50)
    BY <2>1, <2>2, <2>3, FlattenHas
  <2>5. QED
    BY <2>1, <2>4 DEF seqs
<1>5. all \in Seq(Nat) /\ FoundIn(Nums(n), all, 50)
  <2> DEFINE seqs == AllNums(im)
  <2>1. n \in 1..Len(seqs) /\ seqs \in Seq(Seq(Nat)) /\ seqs[n] = Nums(n)
    BY <1>1
  <2>2. \A m \in 1..(n - 1) : \A y \in 1..Len(seqs[m]) : seqs[m][y] # 50
    BY <1>3
  <2> HIDE DEF seqs, Nums
  <2>3. FlattenSeq(seqs) \in Seq(Nat) /\ FoundIn(seqs[n], FlattenSeq(seqs), 50)
    BY <2>1, <2>2, FlattenHas
  <2>4. QED
    BY <2>1, <2>3 DEF seqs
<1>6. Len(build) \in Nat /\ Len(Nums(n)) \in Nat /\ Len(all) \in Nat
  <2>1. build \in Seq(Nat)
    BY NumsAre
  <2>2. Nums(n) \in Seq(Nat) /\ all \in Seq(Nat)
    BY <1>1, <1>5
  <2> HIDE DEF build, all, Nums
  <2>3. Len(build) \in Nat
    BY <2>1, LenProperties
  <2>4. Len(Nums(n)) \in Nat
    BY <2>2, LenProperties
  <2>5. Len(all) \in Nat
    BY <2>2, LenProperties
  <2>6. QED
    BY <2>3, <2>4, <2>5
<1> DEFINE part == Nums(n)
<1>7. FoundIn(build, part, 50) /\ FoundIn(part, all, 50) /\ Len(part) \in Nat
  BY <1>4, <1>5, <1>6
<1> HIDE DEF build, all, part
<1>8. PICK a \in Nat : /\ a + Len(build) <= Len(part)
                       /\ \A y \in 1..Len(build) : part[a + y] = build[y]
                       /\ \A m \in 1..a : part[m] # 50
  BY <1>7 DEF FoundIn
<1>9. PICK b \in Nat : /\ b + Len(part) <= Len(all)
                       /\ \A y \in 1..Len(part) : all[b + y] = part[y]
                       /\ \A m \in 1..b : all[m] # 50
  BY <1>7 DEF FoundIn
<1>10. FoundIn(build, all, 50)
  <2>1. b + a \in Nat /\ (b + a) + Len(build) <= Len(all)
    BY <1>6, <1>7, <1>8, <1>9
  <2>2. ASSUME NEW y \in 1..Len(build) PROVE all[(b + a) + y] = build[y]
    <3>1. a + y \in 1..Len(part) /\ (b + a) + y = b + (a + y)
      BY <1>6, <1>7, <1>8
    <3>2. all[b + (a + y)] = part[a + y]
      BY <1>9, <3>1
    <3>3. QED
      BY <1>8, <3>1, <3>2
  <2>3. ASSUME NEW m \in 1..(b + a) PROVE all[m] # 50
    <3>1. CASE m <= b
      BY <1>9, <3>1
    <3>2. CASE ~ (m <= b)
      <4>1. m - b \in 1..a /\ m - b \in 1..Len(part) /\ m = b + (m - b)
        BY <1>6, <1>7, <1>8, <3>2
      <4>2. all[b + (m - b)] = part[m - b] /\ part[m - b] # 50
        BY <1>8, <1>9, <4>1
      <4>3. QED
        BY <4>1, <4>2
    <3>3. QED
      BY <3>1, <3>2
  <2>4. QED
    BY <2>1, <2>2, <2>3 DEF FoundIn
<1>11. QED
  BY <1>5, <1>10 DEF build, all

LEMMA ReadsBuild ==
    ASSUME NEW nums \in Seq(Nat), NEW build \in Seq(Nat), FoundIn(build, nums, 50),
           Len(build) > 2, build[1] = 50, build[3] <= 5
    PROVE  LET Is50(x) == x = 50
               k == FirstIn(nums, Is50)
           IN  (IF k = 0 \/ k + 2 > Len(nums) \/ nums[k + 2] > 20 THEN -1 ELSE nums[k + 2])
                  = build[3]
<1> DEFINE hits == {n \in DOMAIN nums : nums[n] = 50}
           k == IF hits = {} THEN 0 ELSE CHOOSE n \in hits : \A h \in hits : n <= h
<1>1. PICK at \in Nat : /\ at + Len(build) <= Len(nums)
                        /\ \A y \in 1..Len(build) : nums[at + y] = build[y]
                        /\ \A m \in 1..at : nums[m] # 50
  BY DEF FoundIn
<1>2. Len(nums) \in Nat /\ DOMAIN nums = 1..Len(nums) /\ Len(build) \in Nat
  OBVIOUS
<1>3. at + 1 \in hits
  <2>1. 1 \in 1..Len(build) /\ at + 1 \in 1..Len(nums)
    BY <1>1, <1>2
  <2>2. QED
    BY <1>1, <1>2, <2>1
<1>4. \A h \in hits : at + 1 <= h
  BY <1>1, <1>2
<1>5. k = at + 1
  <2>1. \A n \in hits : (\A h \in hits : n <= h) => n = at + 1
    <3>1. \A n \in hits : n \in Nat
      BY <1>2
    <3> HIDE DEF hits
    <3>2. QED
      BY <1>3, <1>4, <3>1
  <2> HIDE DEF hits
  <2>2. QED
    BY <1>3, <1>4, <2>1
<1>6. nums[at + 3] = build[3] /\ build[3] \in Nat /\ at + 3 <= Len(nums)
  <2>1. 3 \in 1..Len(build) /\ Len(build) \in Nat
    BY <1>2
  <2>2. nums[at + 3] = build[3] /\ build[3] \in Nat
    <3>1. build[3] \in Nat
      BY <2>1, ElementOfSeq
    <3> HIDE DEF hits, k
    <3>2. nums[at + 3] = build[3]
      BY <1>1, <2>1
    <3>3. QED
      BY <3>1, <3>2
  <2>3. at + 3 <= Len(nums)
    BY <1>1, <1>2
  <2>4. QED
    BY <2>2, <2>3
<1> HIDE DEF k
<1>7. k # 0 /\ ~ (k + 2 > Len(nums)) /\ ~ (nums[k + 2] > 20) /\ nums[k + 2] = build[3]
  <2>1. k # 0 /\ k + 2 = at + 3
    BY <1>5
  <2>2. nums[k + 2] = build[3]
    BY <1>6, <2>1
  <2>3. ~ (k + 2 > Len(nums))
    BY <1>2, <1>6, <2>1
  <2>4. ~ (build[3] > 20)
    BY <1>6
  <2>5. QED
    BY <2>1, <2>2, <2>3, <2>4
<1>8. (IF k = 0 \/ k + 2 > Len(nums) \/ nums[k + 2] > 20 THEN -1 ELSE nums[k + 2]) = build[3]
  BY <1>7
<1>9. QED
  BY <1>8 DEF FirstIn, k

LEMMA BothFindIt ==
    ASSUME TypeOK, macho_get_platform # 0, ~ StrayNumber, OnePlatform
    PROVE  get_dyld_platform = macho_get_platform
<1>1. image \in Images /\ IsSlice(slice)
  BY TypedSlice DEF TypeOK
<1>2. PICK here \in DOMAIN image.slices : slice = image.slices[here]
  BY DEF TypeOK
<1>3. macho_get_platform \in 1..5
  BY <1>1, PlatformIsFirst
<1>4. PICK mine \in DOMAIN slice.cmds :
         FirstBuild(slice, mine) /\ slice.cmds[mine].platform = macho_get_platform
  BY <1>1, PlatformIsFirst DEF cmds
<1> DEFINE Has(n) == \E c \in DOMAIN image.slices[n].cmds : IsBuild(image.slices[n].cmds[c])
<1>5. PICK n \in DOMAIN image.slices : Has(n) /\ \A m \in 1..(n - 1) : ~ Has(m)
  <2> DEFINE with == {n \in DOMAIN image.slices : Has(n)}
  <2>1. DOMAIN image.slices = 1..Len(image.slices) /\ Len(image.slices) \in Nat
    BY <1>1, NumsTyped
  <2>2. Has(here)
    BY <1>2, <1>4 DEF FirstBuild
  <2> HIDE DEF Has
  <2>3. with \in SUBSET Nat /\ with # {}
    BY <1>2, <2>1, <2>2
  <2>4. PICK n \in with : \A m \in with : n <= m
    <3> HIDE DEF with
    <3>1. QED
      BY <2>3, SmallestHit
  <2>5. \A m \in 1..(n - 1) : m \in DOMAIN image.slices /\ ~ (n <= m)
    BY <2>1, <2>4
  <2>6. QED
    BY <2>4, <2>5
<1> DEFINE sl == image.slices[n]
<1>6. PICK c \in DOMAIN sl.cmds : FirstBuild(sl, c)
  <2> DEFINE builds == {c \in DOMAIN sl.cmds : IsBuild(sl.cmds[c])}
  <2>1. DOMAIN sl.cmds = 1..Len(sl.cmds) /\ Len(sl.cmds) \in Nat
    BY <1>1, NumsAre
  <2>2. builds # {}
    BY <1>5
  <2> HIDE DEF sl
  <2>3. builds \in SUBSET Nat
    BY <2>1
  <2>4. PICK c \in builds : \A d \in builds : c <= d
    <3> HIDE DEF builds
    <3>1. QED
      BY <2>2, <2>3, SmallestHit
  <2>5. \A d \in 1..(c - 1) : d \in DOMAIN sl.cmds /\ ~ (c <= d)
    BY <2>1, <2>4
  <2>6. FirstBuild(sl, c)
    BY <2>4, <2>5 DEF FirstBuild
  <2>7. QED
    BY <2>4, <2>6
<1>7. sl.cmds[c].platform = macho_get_platform
  <2>1. sl \in Range(image.slices) /\ slice \in Range(image.slices)
    BY <1>2, <1>5 DEF Range
  <2> HIDE DEF sl
  <2>2. QED
    BY <1>4, <1>6, <2>1 DEF OnePlatform
<1> DEFINE build == sl.cmds[c].nums
           nums == FlattenSeq(AllNums(image))
<1>8. build \in Seq(Nat) /\ Len(build) > 2 /\ build[1] = 50 /\ build[3] = macho_get_platform
  <2>1. IsBuild(sl.cmds[c])
    BY <1>6 DEF FirstBuild
  <2>2. NumsOf(sl) \in Seq(Seq(Nat)) /\ Len(NumsOf(sl)) = Len(sl.cmds)
        /\ DOMAIN sl.cmds = 1..Len(sl.cmds) /\ NumsOf(sl)[c] = build
        /\ Len(build) > 2 /\ build[1] = 50 /\ build[3] = sl.cmds[c].platform
    BY <1>1, <1>6, <2>1, NumsAre
  <2> HIDE DEF sl
  <2>3. c \in 1..Len(NumsOf(sl))
    BY <1>6, <2>2
  <2>4. build \in Seq(Nat)
    BY <2>2, <2>3
  <2>5. QED
    BY <1>7, <2>2, <2>4
<1>9. nums \in Seq(Nat) /\ FoundIn(build, nums, 50)
  <2>1. \A m \in DOMAIN image.slices : \A d \in DOMAIN image.slices[m].cmds :
           ~ IsBuild(image.slices[m].cmds[d]) =>
              \A x \in DOMAIN image.slices[m].cmds[d].nums : image.slices[m].cmds[d].nums[x] # 50
    BY Zenon DEF StrayNumber
  <2>2. \A m \in 1..(n - 1) : \A d \in DOMAIN image.slices[m].cmds :
           ~ IsBuild(image.slices[m].cmds[d])
    BY <1>5
  <2>3. QED
    BY <1>1, <1>5, <1>6, <2>1, <2>2, FoundFirst
<1>10. get_dyld_platform =
          LET Is50(x) == x = 50
              k == FirstIn(nums, Is50)
          IN  IF k = 0 \/ k + 2 > Len(nums) \/ nums[k + 2] > 20 THEN -1 ELSE nums[k + 2]
  BY DEF get_dyld_platform, AllNums, NumsOf
<1>11. build[3] <= 5
  BY <1>3, <1>8
<1> HIDE DEF build, nums, sl
<1>12. QED
  BY <1>8, <1>9, <1>10, <1>11, ReadsBuild

(* jbinit patches for the platform that jbloader reads later, whatever commands
   there are and wherever they lie, except for numbers that look like
   LC_BUILD_VERSION and slices for different platforms (macho.c:
   macho_get_platform, get_dyld_platform.c). *)
THEOREM PlatformsAreTheSame == Spec => []PlatformsAgree
<1>1. Init => PlatformSet
  BY DEF Init, PlatformSet
<1>2. PlatformSet /\ [Next]_vars => PlatformSet'
  BY PlatformStays
<1>3. IInv /\ PlatformSet => PlatformsAgree
  <2> SUFFICES ASSUME IInv, PlatformSet, pc = "done", ~ StrayNumber, OnePlatform
               PROVE  get_dyld_platform = platform
    BY DEF PlatformsAgree
  <2>1. TypeOK /\ platform = macho_get_platform /\ platform # 0
    BY DEF IInv, PatchInv, PlatformSet
  <2>2. QED
    BY <2>1, BothFindIt
<1>4. QED
  BY <1>1, <1>2, <1>3, Invariance, PTL DEF Spec

=============================================================================
