----------------------------- MODULE MCDyldPatch -----------------------------
(* Files made like dyld: __TEXT with the platform check, start, strings and
   __unwind_info, at other addresses than offsets.  A plain slice is varied in
   one or two places: the branches of the platform check, the order of the
   symbols, the strings, the size of __unwind_info, what is missing. *)
EXTENDS DyldPatch

Gap == Word("other", 0)
Slide == 8

Check == 1      \* offsets: three words of the check
Start == 4      \* ten words of start
Strings == 14   \* three strings
Unwind == 17
TextEnd == 80   \* the end of __TEXT, where __DATA begins
End == 99

Start10 ==
    <<Word("mov_x0_x19", 0), Word("bl", 0),
      \* offset 6, address 14, page 12: two pages on and 2 is 22, the first string
      Word("adrp", 2), Word("add", 2),
      Word("bl", 0), Word("cbz_x0", 0),
      \* offset 10, address 18, page 16: one page on and 3 is 23, the second one
      Word("adrp", 1), Word("add", 3),
      Word("bl", 0), Word("cbz_w0", 0)>>

Mem(branches, strings) ==
    [k \in 0..End |->
        IF k \in Check..(Check + 2) THEN branches[k - Check + 1]
        ELSE IF k \in Start..(Start + 9) THEN Start10[k - Start + 1]
        ELSE IF k \in Strings..(Strings + 2) THEN Word("str", strings[k - Strings + 1])
        ELSE IF k \in {Unwind, TextEnd} THEN Word("other", 1)
        ELSE Gap]

Sect(name, offset, size) ==
    [name |-> name, offset |-> offset, addr |-> offset + Slide, size |-> size]
Text(unwindsize) ==
    [cmd |-> "LC_SEGMENT_64", name |-> "__TEXT", fileoff |-> 0, filesize |-> TextEnd,
     vmaddr |-> Slide, vmsize |-> TextEnd, nums |-> <<25, 1>>,
     sects |-> <<Sect("__text", 1, 13), Sect("__cstring", Strings, 3),
                 Sect("__unwind_info", Unwind, unwindsize)>>]
NoUnwind == [Text(2) EXCEPT !.sects = SubSeq(@, 1, 2)]
Data ==
    [cmd |-> "LC_SEGMENT_64", name |-> "__DATA", fileoff |-> TextEnd, filesize |-> 20,
     vmaddr |-> 2 * TextEnd, vmsize |-> 20, nums |-> <<25, 2>>,
     sects |-> <<[name |-> "__data", offset |-> TextEnd, addr |-> 2 * TextEnd, size |-> 20]>>]
Build(plat) == [cmd |-> "LC_BUILD_VERSION", platform |-> plat, nums |-> <<50, 8, plat>>]
Uuid(n) == [cmd |-> "LC_UUID", nums |-> <<27, n, 7>>]
Symtab(syms) == [cmd |-> "LC_SYMTAB", syms |-> syms, nums |-> <<2, 6>>]

Sym(name, offset) == [name |-> name, offset |-> offset]
Fes == Sym("forEachSupportedPlatform", Check)
InOrder == <<Fes, Sym("start", Start), Sym("end", 8)>>
Slice(cmdlist, mem) == [cpu |-> "arm64", cmds |-> cmdlist, mem |-> mem]
Usual == <<Text(2), Data, Build(2), Symtab(InOrder), Uuid(1)>>

Jumps == {Word("br", 1), Word("br", 2), Word("blr", 1), Word("blr", 2), Gap}
Known == <<DYLD_IN_CACHE, Zero, 0>>
Plain == <<Word("blr", 1), Gap, Word("br", 1)>>

Slices ==
    {Slice(Usual, Mem(<<a, b, c>>, Known)) : a, b, c \in Jumps}
      \cup {Slice(Usual, Mem(Plain, s)) :
              s \in {<<0, Zero, DYLD_IN_CACHE>>, <<0, Zero, 0>>,
                     <<DYLD_IN_CACHE, 3, 0>>}}
      \cup {Slice([Usual EXCEPT ![1] = Text(n)], Mem(Plain, Known)) : n \in {30, 31, 40}}
      \cup {Slice([Usual EXCEPT ![3] = Build(p)], Mem(Plain, Known)) : p \in {0, 1, 5, 6}}
      \cup {Slice([Usual EXCEPT ![4] = Symtab(s)], Mem(Plain, Known)) :
              s \in {<<>>, <<Fes>>, <<Fes, Sym("start", Start)>>,
                     <<Sym("start", Start), Fes, Sym("end", 0)>>,
                     <<Fes, Sym("end", 0), Sym("start", Start), Sym("end", 14)>>,
                     <<Fes, Sym("alias", Check), Sym("start", Start), Sym("end", 14)>>,
                     <<Fes, Sym("end", 14), Sym("start", Start), Sym("end", 14)>>}}
      \cup {Slice(c, Mem(Plain, Known)) :
              c \in {<<NoUnwind>> \o Tail(Usual), <<Uuid(1)>> \o Usual, Tail(Usual), <<Data>> \o Usual,
                     SubSeq(Usual, 1, 3),
                     SubSeq(Usual, 1, 2) \o <<Uuid(50)>> \o SubSeq(Usual, 3, 5),
                     Usual \o <<Build(1)>>, SubSeq(Usual, 1, 2) \o SubSeq(Usual, 4, 5)}}

Arm64e(s) == [s EXCEPT !.cpu = "arm64e"]
PlainSlice == Slice(Usual, Mem(Plain, Known))
OtherSlice == Slice([Usual EXCEPT ![3] = Build(1)], Mem(Plain, Known))

Files ==
    [magic : {"macho"}, slices : {<<s>> : s \in Slices}]
      \cup [magic : {"other"}, slices : {<<PlainSlice>>}]
      \cup [magic : {"fat"}, slices : {<<PlainSlice>>, <<Arm64e(PlainSlice)>>,
                                       <<Arm64e(PlainSlice), PlainSlice>>,
                                       <<Arm64e(OtherSlice), PlainSlice>>}]
=============================================================================
