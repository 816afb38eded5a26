----------------------------- MODULE MCJbinitLib -----------------------------
(* The C library of jbinit on short inputs, and its patch of dyld: one call,
   one text for the log, or one dyld at a time. *)
EXTENDS MCDyldPatch, Libc

Strings2 == UNION {[1..n -> {1, 200}] : n \in 0..2}
Memory == {s \o <<NUL>> \o t : s \in Strings2, t \in {<<1, 1, 1>>, <<200, NUL, 5>>}}

Characters(text) == [k \in DOMAIN text |-> [conv |-> "plain", char |-> text[k]]]
Verb(conv, flags, width, prec, size) ==
    [conv |-> conv, flags |-> flags, width |-> width, prec |-> prec, size |-> size]
Argument(n, values) == IF n = Star THEN {<<v>> : v \in values} ELSE {<<>>}

(* "%d:%s%%%-2c%3x": the number with its width, the string with its precision
   given, absent or an argument. *)
Format(conv, fl, w, p, size) ==
    <<Verb(conv, fl, w, Absent, "long")>> \o Characters(<<58>>)
      \o <<Verb("s", {}, Absent, p, "int"), [conv |-> "other", width |-> Absent, prec |-> Absent,
                                            flags |-> {}, char |-> 37],
           Verb("c", {"left"}, 2, Absent, "int"), Verb("x", {}, 3, Absent, size)>>
      \o Characters(<<NewLine>>)
Formatted ==
    UNION {[fn : {"format"}, format : {Format(conv, fl, w, p, size)},
            args : {wide \o <<v>> \o cut \o <<str, 88, x>> :
                      wide \in Argument(w, {-5, 5}), v \in {-32, -1, 0, 31},
                      cut \in Argument(p, {-1, 1}), str \in {<<>>, <<65, 66, 67>>},
                      x \in {6, 46}}] :
             conv \in {"d", "u"}, fl \in {{}, {"zero"}, {"left"}}, w \in {Absent, 4, Star},
             p \in {Absent, 2, Star}, size \in {"char", "long"}}

Called ==
    [fn : {"search"}, hay : UNION {[1..n -> {1, 2}] : n \in 0..6},
     needle : UNION {[1..n -> {1, 2}] : n \in 1..4}]
      \cup [fn : {"compare"}, s1 : Memory, s2 : Memory, n : 0..4]
      \cup {c \in [fn : {"copy"}, dst : 0..5, src : 0..5, n : 0..5,
                   mem : {<<1, 2, 3, 4, 5, NUL>>, <<1, NUL, NUL, NUL, 5, NUL>>, <<1, NUL, 3, 4, 5, NUL>>}] :
              c.dst + c.n <= 6 /\ c.src + c.n <= 6}
      \cup [fn : {"print"}, conv : {"d"}, flags : {{}, {"zero"}, {"zero", "plus"}},
            width : {0, 3, 5}, value : -32..31, size : {"int", "long"}, count : {0, 3, 9}]
      \cup [fn : {"print"}, conv : {"u", "x", "p"}, flags : {{}, {"zero"}}, width : {0, 3, 8},
            value : 0..63, size : {"short", "long"}, count : {0, 3, 9}]
      \cup [fn : {"read"}, base : {10}, digits : UNION {[1..n -> {0, 1, 3, 6, 9}] : n \in 1..3}]
      \cup [fn : {"read"}, base : {16}, digits : UNION {[1..n -> {0, 3, 4, 15}] : n \in 1..3}]
      \cup Formatted

(* Line breaks and letters, and "%.*s" with a NUL character behind it. *)
Lines ==
    {[format |-> Characters(line), args |-> <<>>] :
       line \in UNION {[1..n -> {NewLine, UpperA}] : n \in 1..7}}
      \cup {[format |-> <<Verb("s", {}, Absent, Star, "int"), Verb("c", {}, w, Absent, "int")>>,
             args |-> <<n, <<65, NewLine, 66>>, NUL>>] : n \in -1..3, w \in {Absent, 2}}

Spans == [char |-> 16, short |-> 32, int |-> 64, long |-> 64]

Idle ==
    /\ pc = "spin" /\ image = [magic |-> "macho", slices |-> <<PlainSlice>>]
    /\ slice = PlainSlice /\ words = slice.mem /\ platform = 0 /\ func = NoFunc /\ i = 0
    /\ _internal_shc_loc = NoLoc /\ shc_copied = 0 /\ has_found_dyld_in_cache = FALSE

LibIdle == call = None /\ returned = FALSE /\ todo = <<>> /\ buf = <<>> /\ put = <<>> /\ log = <<>>

OneInit == (Init /\ LibIdle) \/ (Idle /\ LibInit)
OneNext == (Next /\ UNCHANGED libvars) \/ (LibNext /\ UNCHANGED vars)
OneSpec == OneInit /\ [][OneNext]_<<vars, libvars>>
=============================================================================
