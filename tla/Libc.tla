-------------------------------- MODULE Libc --------------------------------
(***************************************************************************)
(* The C library jbinit brings along (jbinit/lib, utils.c): searching,     *)
(* comparing, copying, reading and printing numbers, and the line buffer   *)
(* of its log.  Loops are recursive functions.  An array is a sequence of  *)
(* bytes, a string one that ends with its first NUL, an address an offset  *)
(* from 0 on; a text is a string without its NUL.                          *)
(*                                                                         *)
(* Bounds: words of WordMax instead of 64 bits, the sizes of the buffers,  *)
(* and the two lengths from which memmem changes its algorithm.            *)
(***************************************************************************)
EXTENDS Integers, SequencesExt

CONSTANTS
    Calls,        \* calls of the functions, records with a field fn
    Texts,        \* what is logged, records of a format and its args
    WordMax,      \* ULLONG_MAX
    IntSpan,      \* how many values a char, a short, an int and a long have
    NtoaSize,     \* PRINTF_NTOA_BUFFER_SIZE
    LogSize,      \* of the line buffer of _putchar
    SkipNeedle, SkipHaystack

Chars == 0..255
NUL == 0
NewLine == 10
Blank == 32
Plus == 43
Minus == 45
Digit0 == 48
UpperA == 65
UpperX == 88
LowerA == 97
LowerB == 98
LowerX == 120

ASSUME LibcAssumption ==
    /\ IntSpan \in [{"char", "short", "int", "long"} -> 2..(WordMax + 1)]
    /\ \A size \in DOMAIN IntSpan : (WordMax + 1) % IntSpan[size] = 0
    /\ WordMax \in Nat /\ NtoaSize \in Nat \ {0, 1} /\ LogSize \in Nat \ {0}
    /\ SkipNeedle \in Nat \ {0} /\ SkipHaystack \in Nat

(* What the functions are called with: texts without a NUL; memory in which a
   string ends, as many bytes of it as are compared; memory that ends with a
   NUL and has room for what is copied; the digits of a number in a base; a
   number with the flags and the width that jbinit gives it. *)
ASSUME CallsAssumption ==
    \A c \in Calls :
        /\ c.fn = "search" =>
             c.hay \in Seq(Chars \ {NUL}) /\ c.needle \in Seq(Chars \ {NUL})
        /\ c.fn = "compare" =>
             /\ c.s1 \in Seq(Chars) /\ \E k \in DOMAIN c.s1 : c.s1[k] = NUL
             /\ c.s2 \in Seq(Chars) /\ \E k \in DOMAIN c.s2 : c.s2[k] = NUL
             /\ c.n \in Nat /\ c.n <= Len(c.s1) /\ c.n <= Len(c.s2)
        /\ c.fn = "copy" =>
             /\ c.mem \in Seq(Chars) \ {<<>>} /\ Last(c.mem) = NUL
             /\ c.dst \in Nat /\ c.src \in Nat /\ c.n \in Nat
             /\ c.dst + c.n <= Len(c.mem) /\ c.src + c.n <= Len(c.mem)
        /\ c.fn = "read" =>
             c.base \in 2..36 /\ c.digits \in Seq(0..c.base - 1) /\ c.digits # <<>>
        /\ c.fn = "print" =>
             /\ c.conv \in {"d", "u", "x", "p"} /\ c.flags \subseteq {"zero", "plus"}
             /\ c.size \in DOMAIN IntSpan /\ c.count \in Nat
             /\ c.width \in 0..(IF c.conv = "p" /\ NtoaSize > 16 THEN 16 ELSE NtoaSize)
             /\ c.value \in IF c.conv = "p" THEN 0..WordMax ELSE Int

NULL == -1

-----------------------------------------------------------------------------
(* memmem for short inputs: how many bytes of the needle an attempt at the nth
   byte matches; at a mismatch the index goes back to the next byte. *)
Matched(hay, needle, n) ==
    LET from[k \in 1..(Len(needle) + 1)] ==
            IF k <= Len(needle) /\ n + k - 1 <= Len(hay) /\ hay[n + k - 1] = needle[k]
            THEN from[k + 1] ELSE k - 1
    IN  from[1]
(* slip: it goes on behind the mismatch *)
NaiveNoReturn(hay, needle) ==
    LET scan[n \in 1..(Len(hay) + 1)] ==
            LET j == Matched(hay, needle, n)
            IN  IF j = Len(needle) THEN n - 1
                ELSE IF n - 1 + j = Len(hay) THEN NULL ELSE scan[n + j + 1]
    IN  scan[1]
Naive(hay, needle) ==
    LET scan[n \in 1..(Len(hay) + 1)] ==
            LET j == Matched(hay, needle, n)
            IN  IF j = Len(needle) THEN n - 1
                ELSE IF n - 1 + j = Len(hay) THEN NULL ELSE scan[n + 1]
    IN  scan[1]

(* How far to go on from a byte below the end of the needle: to its last place
   in the needle before the end, else the whole length. *)
bad_char_skip(needle, c) ==
    LET last == Len(needle) - 1
        places == {scan \in 0..(last - 1) : needle[scan + 1] = c}
    IN  IF places = {} THEN Len(needle)
        ELSE last - CHOOSE scan \in places : \A p \in places : p <= scan

boyermoore_horspool_memmem(hay, needle) ==
    LET from[at \in 0..(Len(hay) + Len(needle))] ==
            IF at + Len(needle) > Len(hay) THEN NULL
            ELSE IF SubSeq(hay, at + 1, at + Len(needle)) = needle THEN at
            ELSE from[at + bad_char_skip(needle, hay[at + Len(needle)])]
    IN  from[0]

memmem(hay, needle) ==
    IF needle = <<>> THEN 0
    ELSE IF Len(needle) > Len(hay) THEN NULL
    ELSE IF Len(needle) >= SkipNeedle /\ Len(hay) >= SkipHaystack
      THEN boyermoore_horspool_memmem(hay, needle)
    ELSE Naive(hay, needle)

(* The NUL of the shorter string ends a comparison. *)
strlen(s) == CHOOSE n \in 0..(Len(s) - 1) : s[n + 1] = NUL /\ \A m \in 1..n : s[m] # NUL

(* An attempt stops at a byte of sub, and has found all of it if that is its
   NUL. *)
FoundAt(s, sub, n) ==
    LET stop[b \in 1..Len(sub)] ==
            IF sub[b] # NUL /\ s[n + b - 1] = sub[b] THEN stop[b + 1] ELSE b
    IN  sub[stop[1]] = NUL
strstr(s, sub) ==
    LET from[n \in 1..Len(s)] ==
            IF s[n] = NUL THEN NULL
            ELSE IF FoundAt(s, sub, n) THEN n - 1 ELSE from[n + 1]
    IN  IF sub[1] = NUL THEN 0 ELSE from[1]
-----------------------------------------------------------------------------
(* strcmp compares characters that are signed, strncmp unsigned ones. *)
Signed(c) == IF c > 127 THEN c - 256 ELSE c

strcmp(s1, s2) ==
    LET from[n \in 1..(strlen(s1) + 1)] ==
            IF s1[n] = s2[n] /\ s1[n] # NUL THEN from[n + 1]
            ELSE Signed(s1[n]) - Signed(s2[n])
    IN  from[1]

(* slip: the NUL does not end it *)
strncmpPastNul(s1, s2, n) ==
    LET from[k \in 1..(n + 1)] ==
            IF k > n \/ k > Len(s1) \/ k > Len(s2) THEN 0
            ELSE IF s1[k] # s2[k] THEN s1[k] - s2[k]
            ELSE from[k + 1]
    IN  from[1]
strncmp(s1, s2, n) ==
    LET from[k \in 1..(n + 1)] ==
            IF k > n THEN 0
            ELSE IF s1[k] # s2[k] THEN s1[k] - s2[k]
            ELSE IF s1[k] = NUL THEN 0 ELSE from[k + 1]
    IN  from[1]

(* n is unsigned, so n < 0 never holds: what is compared last is the first
   byte that differs, or the byte behind n equal ones. *)
memcmp(b1, b2, n) ==
    LET from[k \in 1..(n + 1)] ==
            IF k <= n /\ b1[k] = b2[k] THEN from[k + 1] ELSE b1[k] - b2[k]
    IN  from[1]
-----------------------------------------------------------------------------
(* memcpy, which memmove calls: backwards if the destination is behind. *)
(* slip: always forwards *)
CopyOrderForward(dst, src, n) == [k \in 1..n |-> k - 1]
CopyOrder(dst, src, n) == [k \in 1..n |-> IF dst > src THEN n - k ELSE k - 1]

memcpy(mem, dst, src, n) ==
    LET after[k \in 0..n] ==
            IF k = 0 THEN mem
            ELSE LET pos == CopyOrder(dst, src, n)[k]
                 IN  [after[k - 1] EXCEPT ![dst + pos + 1] = after[k - 1][src + pos + 1]]
    IN  after[n]

memset(mem, dst, c, n) ==
    [k \in DOMAIN mem |-> IF dst < k /\ k <= dst + n THEN c % 256 ELSE mem[k]]

(* strcat appends the characters of src but not the NUL. *)
strcat(mem, src) ==
    LET end == strlen(mem)
    IN  [k \in DOMAIN mem |-> IF end < k /\ k <= end + strlen(src) THEN src[k - end] ELSE mem[k]]
-----------------------------------------------------------------------------
(* printf: what is left of a number behind its last k digits, and these digits,
   the last one first, until nothing is left or they fill the buffer. *)
DigitChar(d, flags) ==
    IF d < 10 THEN Digit0 + d ELSE (IF "upper" \in flags THEN UpperA ELSE LowerA) + d - 10

Remaining(value, base) ==
    LET left[k \in 0..NtoaSize] == IF k = 0 THEN value ELSE left[k - 1] \div base
    IN  left
Digits(value, base, flags) ==
    LET left == Remaining(value, base)
        len == CHOOSE n \in 1..NtoaSize :
                   (left[n] = 0 \/ n = NtoaSize) /\ \A m \in 1..(n - 1) : left[m] # 0
    IN  IF "precision" \in flags /\ value = 0 THEN <<>>
        ELSE [k \in 1..len |-> DigitChar(left[k - 1] % base, flags)]

(* Any word is printed with room to spare, for its sign. *)
ASSUME NtoaAssumption == Remaining(WordMax, 10)[NtoaSize - 1] = 0

Copies(c, n) == [k \in 1..n |-> c]
AtMost(a, b) == IF a < b THEN a ELSE b
PadTo(text, c, len) ==
    text \o Copies(c, IF Len(text) < AtMost(len, NtoaSize)
                      THEN AtMost(len, NtoaSize) - Len(text) ELSE 0)
(* A character that is there to be put, if there is room. *)
Fits(text, char) == IF Len(text) < NtoaSize THEN text \o char ELSE text

(* _out_rev: padded with blanks, before or behind. *)
out_rev(text, width, flags) ==
    LET blanks == Copies(Blank, IF Len(text) < width THEN width - Len(text) ELSE 0)
    IN  (IF flags \cap {"left", "zero"} = {} THEN blanks ELSE <<>>)
          \o Reverse(text) \o (IF "left" \in flags THEN blanks ELSE <<>>)

SignWidth(negative, width, flags) ==
    IF /\ "left" \notin flags /\ "zero" \in flags /\ width > 0
       /\ negative \/ flags \cap {"plus", "space"} # {}
    THEN width - 1 ELSE width

(* _ntoa_format: zeros, then the prefix of the base, for which zeros make room
   (digits do as well, if they are as many), then the sign. *)
ntoa_format(digits, negative, base, prec, width, flags) ==
    LET wide == SignWidth(negative, width, flags)
        zeros == IF "left" \in flags THEN digits
                 ELSE PadTo(PadTo(digits, Digit0, prec), Digit0,
                            IF "zero" \in flags THEN wide ELSE 0)
        drops == "precision" \notin flags /\ zeros # <<>> /\ Len(zeros) \in {prec, wide}
        fewer == SubSeq(zeros, 1, Len(zeros) - (IF ~ drops THEN 0
                                                ELSE IF base = 16 /\ Len(zeros) > 1 THEN 2 ELSE 1))
        letter == CASE base = 16 -> <<IF "upper" \in flags THEN UpperX ELSE LowerX>>
                    [] base = 2 -> <<LowerB>>
                    [] OTHER -> <<>>
        prefixed == IF "hash" \in flags THEN Fits(Fits(fewer, letter), <<Digit0>>) ELSE zeros
        sign == IF negative THEN <<Minus>>
                ELSE IF "plus" \in flags THEN <<Plus>>
                ELSE IF "space" \in flags THEN <<Blank>> ELSE <<>>
    IN  out_rev(Fits(prefixed, sign), wide, flags)

ntoa_long(value, negative, base, prec, width, flags) ==
    ntoa_format(Digits(value, base, flags), negative, base, prec, width,
                IF value = 0 THEN flags \ {"hash"} ELSE flags)

(* One integer of _vsnprintf: how much of it is looked at, and which flags
   count for which letter. *)
Base(conv) == CASE conv \in {"x", "X", "p"} -> 16 [] conv = "o" -> 8 [] conv = "b" -> 2
                [] OTHER -> 10
Narrow(conv, size, value) ==
    LET n == value % IntSpan[size]
    IN  IF conv \in {"d", "i"} /\ n >= IntSpan[size] \div 2 THEN n - IntSpan[size] ELSE n

Conversion(conv, given, prec, width, size, value) ==
    LET kept == given \
                  ((IF Base(conv) = 10 THEN {"hash"} ELSE {})
                     \cup (IF conv \notin {"d", "i"} THEN {"plus", "space"} ELSE {})
                     \cup (IF "precision" \in given THEN {"zero"} ELSE {}))
        upper == IF conv = "X" THEN {"upper"} ELSE {}
        n == Narrow(conv, size, value)
    IN  ntoa_long(IF n < 0 THEN -n ELSE n, n < 0, Base(conv), prec, width, kept \cup upper)

(* %p: all sixteen digits of a pointer, whatever width was given. *)
Pointer(given, prec, value) ==
    ntoa_long(value, FALSE, 16, prec, 16, given \cup {"zero", "upper"})

(* %c and %s: as many blanks as the width is longer, before or behind. *)
Padded(text, width, flags) ==
    LET blanks == Copies(Blank, IF Len(text) < width THEN width - Len(text) ELSE 0)
    IN  IF "left" \in flags THEN text \o blanks ELSE blanks \o text

(* A precision of 0 does not limit how far the string is looked at, only how
   much of it is shown. *)
_strnlen_s(s, maxsize) == AtMost(Len(s), maxsize)
OfString(s, prec, width, flags) ==
    LET l == _strnlen_s(s, IF prec # 0 THEN prec ELSE Len(s))
    IN  Padded(SubSeq(s, 1, IF "precision" \in flags THEN AtMost(l, prec) ELSE l), width, flags)

(* _atoi, which reads a width or a precision: up to the first character that is
   no digit, in an int that wraps around. *)
_atoi(s) ==
    LET end == CHOOSE n \in 1..Len(s) : s[n] \notin 48..57 /\ \A m \in 1..(n - 1) : s[m] \in 48..57
        i[n \in 1..end] ==
            IF n = 1 THEN 0 ELSE (i[n - 1] * 10 + (s[n - 1] - Digit0)) % IntSpan["int"]
    IN  [value |-> i[end], end |-> end - 1]

(* A format is a sequence of characters, directives, and letters behind a "%"
   that name no conversion, "%" among them.  A width or precision that is a Star
   is an argument before the value; a negative width is the flag "-", a negative
   precision 0. *)
Star == -1
Absent == -2

(* How many arguments a directive takes, and the first k of a format. *)
ArgumentsOf(d) ==
    IF d.conv = "plain" THEN 0
    ELSE (IF d.width = Star THEN 1 ELSE 0) + (IF d.prec = Star THEN 1 ELSE 0)
           + (IF d.conv = "other" THEN 0 ELSE 1)
Taken(format, k) ==
    LET taken[n \in 0..Len(format)] ==
            IF n = 0 THEN 0 ELSE taken[n - 1] + ArgumentsOf(format[n])
    IN  taken[k]

(* What the compiler checks of a format: there are as many arguments as are
   taken, a width or precision that is one is an int, and the value, which is
   taken last, is of its conversion.  A number has no precision, and is no wider
   than the buffer. *)
IsSequence(s) == Len(s) \in Nat /\ s = [k \in 1..Len(s) |-> s[k]]
WellGiven(d, args, first, last) ==
    /\ d.conv \in {"plain", "other"} => d.char \in Chars
    /\ d.conv # "plain" =>
         /\ d.conv \in {"other", "c", "s", "d", "u", "x", "p"}
         /\ d.flags \subseteq {"zero", "left", "plus"}
         /\ {d.width, d.prec} \subseteq Nat \cup {Star, Absent}
         /\ d.width = Star => args[first + 1] \in Int
         /\ d.prec = Star => args[first + IF d.width = Star THEN 2 ELSE 1] \in Int
    /\ d.conv = "c" => args[last] \in Chars
    /\ d.conv = "s" => args[last] \in Seq(Chars \ {NUL})
    /\ d.conv \in {"d", "u", "x", "p"} =>
         /\ args[last] \in (IF d.conv = "p" THEN 0..WordMax ELSE Int) /\ d.size \in DOMAIN IntSpan
         /\ d.prec = Absent
         /\ d.width = Star => args[first + 1] \in -NtoaSize..NtoaSize
         /\ d.width <= NtoaSize
ASSUME FormatsAssumption ==
    \A c \in Calls : c.fn = "format" =>
        /\ IsSequence(c.format) /\ IsSequence(c.args)
        /\ Taken(c.format, Len(c.format)) <= Len(c.args)
        /\ \A k \in DOMAIN c.format :
              WellGiven(c.format[k], c.args, Taken(c.format, k - 1), Taken(c.format, k))

StarAt(n, args) == IF n = Star THEN Head(args) ELSE n
BehindStar(n, args) == IF n = Star THEN Tail(args) ELSE args

(* "%%", or a letter that is nothing: it is shown and takes no argument. *)
OtherLetter(d) == <<d.char>>

Directive(d, args) ==
    LET w == StarAt(d.width, args)
        rest == BehindStar(d.width, args)
        p == StarAt(d.prec, rest)
        values == BehindStar(d.prec, rest)
        flags == d.flags \cup (IF d.width = Star /\ w < 0 THEN {"left"} ELSE {})
                         \cup (IF d.prec # Absent THEN {"precision"} ELSE {})
        width == IF d.width = Absent THEN 0 ELSE IF w < 0 THEN -w ELSE w
        prec == IF p < 0 THEN 0 ELSE p
        Shown(text) == [text |-> text, args |-> Tail(values)]
    IN  CASE d.conv = "other" -> [text |-> OtherLetter(d), args |-> values]
          [] d.conv = "p" -> Shown(Pointer(flags, prec, Head(values)))
          [] d.conv = "c" -> Shown(Padded(<<Head(values)>>, width, flags))
          [] d.conv = "s" -> Shown(OfString(Head(values), prec, width, flags))
          [] OTHER -> Shown(Conversion(d.conv, flags, prec, width, d.size, Head(values)))

(* The text of the first k of a format, and the arguments that are left. *)
Item(at, d) ==
    IF d.conv = "plain" THEN [at EXCEPT !.text = Append(@, d.char)]
    ELSE LET done == Directive(d, at.args)
         IN  [text |-> at.text \o done.text, args |-> done.args]
Items(format, args) ==
    LET at[k \in 0..Len(format)] ==
            IF k = 0 THEN [text |-> <<>>, args |-> args] ELSE Item(at[k - 1], format[k])
    IN  at
_vsnprintf(format, args) == Items(format, args)[Len(format)]

(* LOG: to _putchar goes everything but NULs. *)
Prefix == <<106, 98, 105, 110, 105, 116, 58, 32>>   \* "jbinit: "

IsShown(c) == c # NUL

p1_log(format, args) ==
    Prefix \o SelectSeq(_vsnprintf(format, args).text, IsShown)

(* What snprintf leaves of a text in a buffer of that size: it is cut and
   ended; nothing is written into a buffer of size 0. *)
InBuffer(text, room) == SubSeq(text, 1, AtMost(Len(text), room))
snprintf(text, count) ==
    IF count = 0 THEN <<>> ELSE Append(InBuffer(text, count - 1), NUL)
-----------------------------------------------------------------------------
isspace(c) == c \in {9, 10, 11, 12, 13, 32}
isdigit(c) == c \in 48..57
isupper(c) == c \in 65..90 \/ c \in 192..221
isalpha(c) == c \in 65..90 \/ c \in 97..122

(* Its value as a digit; one no base has if it is none. *)
DigitOf(c) ==
    IF isdigit(c) THEN c - Digit0
    ELSE IF isalpha(c) THEN c - (IF isupper(c) THEN UpperA - 10 ELSE LowerA - 10)
    ELSE 36

(* slip: the limit of the last digit is not looked at *)
TooBigNoLimit(acc, d, base) == acc > WordMax \div base
TooBig(acc, d, base) ==
    acc > WordMax \div base \/ (acc = WordMax \div base /\ d > WordMax % base)

(* acc and any of strtoull after the digits from first on, and where they end:
   a number that is too big is the largest, whatever digits follow. *)
Take(at, d, base) ==
    IF at.any < 0 THEN at
    ELSE IF TooBig(at.acc, d, base) THEN [acc |-> WordMax, any |-> -1]
    ELSE [acc |-> (at.acc * base + d) % (WordMax + 1), any |-> 1]
Accumulate(s, first, base) ==
    LET end == CHOOSE n \in first..Len(s) :
                   DigitOf(s[n]) >= base /\ \A m \in first..(n - 1) : DigitOf(s[m]) < base
        at[n \in first..end] ==
            IF n = first THEN [acc |-> 0, any |-> 0]
            ELSE Take(at[n - 1], DigitOf(s[n - 1]), base)
    IN  [acc |-> at[end].acc, any |-> at[end].any, end |-> end]

strtoull(s, base) ==
    LET first == CHOOSE n \in 1..Len(s) : ~ isspace(s[n]) /\ \A m \in 1..(n - 1) : isspace(s[m])
        digits == IF s[first] \in {Plus, Minus} THEN first + 1 ELSE first
        hex == base \in {0, 16} /\ s[digits] = Digit0 /\ s[digits + 1] \in {LowerX, UpperX}
        read == Accumulate(s, IF hex THEN digits + 2 ELSE digits,
                           IF hex THEN 16
                           ELSE IF base # 0 THEN base
                           ELSE IF s[digits] = Digit0 THEN 8 ELSE 10)
    IN  IF base < 0 \/ base = 1 \/ base > 36 THEN [value |-> 0, end |-> 0]
        ELSE [value |-> IF s[first] = Minus /\ read.any > 0
                        THEN (WordMax + 1 - read.acc) % (WordMax + 1) ELSE read.acc,
              end |-> IF read.any = 0 THEN 0 ELSE read.end - 1]
-----------------------------------------------------------------------------
VARIABLES
    call,      \* the call that is made, if any
    returned,
    todo,      \* what the log is still given
    buf,       \* the line buffer
    put,       \* what the log was given
    log        \* what was written

libvars == <<call, returned, todo, buf, put, log>>
None == [fn |-> "none"]

LibInit ==
    /\ \/ call \in Calls /\ todo = <<>>
       \/ call = None /\ \E text \in Texts : todo = p1_log(text.format, text.args)
    /\ returned = FALSE
    /\ buf = <<>> /\ put = <<>> /\ log = <<>>
Return ==
    /\ call # None /\ ~ returned
    /\ returned' = TRUE
    /\ UNCHANGED <<call, todo, buf, put, log>>

(* _putchar: a line, or a full buffer, is written. *)
(* slip: the buffer counts as full one byte too late *)
FullLate(line) == Len(line) = LogSize + 1
Full(line) == Len(line) = LogSize

putchar ==
    /\ todo # <<>>
    /\ LET c == Head(todo)
           line == Append(buf, c)
       IN  /\ todo' = Tail(todo) /\ put' = Append(put, c)
           /\ IF c = NewLine \/ Full(line)
                THEN log' = log \o line /\ buf' = <<>>
                ELSE buf' = line /\ UNCHANGED log
    /\ UNCHANGED <<call, returned>>

LibNext == Return \/ putchar

LibSpec == LibInit /\ [][LibNext]_libvars
-----------------------------------------------------------------------------
(* memmem and strstr return the first place of the needle, whichever algorithm
   memmem takes, and NULL only if there is none. *)
PlacesIn(text, sub) == {p \in 0..(Len(text) - Len(sub)) : SubSeq(text, p + 1, p + Len(sub)) = sub}
FirstPlace(text, sub, at) ==
    LET places == PlacesIn(text, sub)
    IN  IF places = {} THEN at = NULL ELSE at \in places /\ \A p \in places : at <= p
SearchFindsFirst ==
    returned /\ call.fn = "search" =>
        /\ FirstPlace(call.hay, call.needle, memmem(call.hay, call.needle))
        /\ FirstPlace(call.hay, call.needle,
                      strstr(Append(call.hay, NUL), Append(call.needle, NUL)))

(* strcmp and strncmp agree on whether strings, or their first n characters,
   are the same, whatever lies behind the NUL; and memcmp does for memory that
   differs, though not for memory that is the same. *)
TextOf(s) == SubSeq(s, 1, strlen(s))
FirstN(text, n) == SubSeq(text, 1, AtMost(n, Len(text)))
ComparesStrings ==
    returned /\ call.fn = "compare" =>
        LET a == TextOf(call.s1)  b == TextOf(call.s2)
        IN  /\ strcmp(call.s1, call.s2) = 0 <=> a = b
            /\ strncmp(call.s1, call.s2, call.n) = 0 <=> FirstN(a, call.n) = FirstN(b, call.n)
            /\ (\E k \in 1..call.n : call.s1[k] # call.s2[k]) =>
                  memcmp(call.s1, call.s2, call.n) # 0

(* A copy holds what the source held when it began, also where they overlap,
   and nothing else changes; strcat gives a string only where the byte behind
   it was NUL already. *)
CopiesExactly ==
    returned /\ call.fn = "copy" =>
        /\ memcpy(call.mem, call.dst, call.src, call.n) =
             [k \in DOMAIN call.mem |->
                 IF call.dst < k /\ k <= call.dst + call.n
                 THEN call.mem[k - call.dst + call.src] ELSE call.mem[k]]
        /\ LET both == TextOf(call.mem) \o <<7, 8>>
           IN  Len(both) < Len(call.mem) =>
                 LET res == strcat(call.mem, <<7, 8, NUL>>)
                 IN  TextOf(res) = both <=> call.mem[Len(both) + 1] = NUL

(* strtoull reads the number its digits say, or the largest there is if that
   does not fit, however many digits are left then; where a width is read, in
   an int, the number wraps around. *)
ValueOf(digits, base) ==
    LET exact[k \in 0..Len(digits)] ==
            IF k = 0 THEN 0 ELSE exact[k - 1] * base + digits[k]
    IN  exact[Len(digits)]
ReadsExactly ==
    returned /\ call.fn = "read" =>
         LET v == ValueOf(call.digits, call.base)
             text == [k \in DOMAIN call.digits |-> DigitChar(call.digits[k], {})]
         IN  /\ strtoull(Append(text, NUL), call.base).value = IF v > WordMax THEN WordMax ELSE v
             /\ call.base = 10 => _atoi(Append(text, NUL)) =
                  [value |-> v % IntSpan["int"], end |-> Len(text)]

(* A printed number is its argument, modulo the type of the argument, if
   strtoull reads it. *)
ReadsBack(text, conv, size, value) ==
    LET read == strtoull(Append(text, NUL), Base(conv)).value
    IN  IF conv = "p" THEN read = value
        ELSE (read - value) % IntSpan[size] = 0 /\ (conv # "d" => read < IntSpan[size])

(* What the conversions jbinit uses print is padded to the width, with zeros
   behind the sign or blanks before it; strtoull reads the number back from it,
   all of it; and snprintf leaves a string that fits its buffer. *)
PrintsExactly ==
    returned /\ call.fn = "print" =>
         LET text == IF call.conv = "p" THEN Pointer(call.flags, 0, call.value)
                     ELSE Conversion(call.conv, call.flags, 0, call.width, call.size, call.value)
         IN  /\ ReadsBack(text, call.conv, call.size, call.value)
             /\ strtoull(Append(text, NUL), Base(call.conv)).end = Len(text)
             /\ Len(text) >= call.width
             /\ "zero" \in call.flags => \A k \in DOMAIN text : text[k] # Blank
             /\ Len(text) < call.count => TextOf(snprintf(text, call.count)) = text

(* In a longer format every directive shows its own argument, however many were
   taken before it: a number is read back from its piece of the text; a string,
   up to its precision, is at one end of its piece, and blanks are the rest. *)
ShowsItsArgument(format, args, k) ==
    LET d == format[k]
        at == Items(format, args)
        piece == SubSeq(at[Len(format)].text, Len(at[k - 1].text) + 1, Len(at[k].text))
        arg == args[Taken(format, k)]
        prec == IF d.prec = Star THEN args[Taken(format, k) - 1] ELSE d.prec
        shown == IF d.conv = "c" THEN <<arg>>
                 ELSE IF d.prec = Absent THEN arg
                 ELSE SubSeq(arg, 1, AtMost(Len(arg), prec))
    IN  IF d.conv \in {"plain", "other"} THEN piece = <<d.char>>
        ELSE IF d.conv \in {"c", "s"}
          THEN \E m \in {0, Len(piece) - Len(shown)} :
                  /\ SubSeq(piece, m + 1, m + Len(shown)) = shown
                  /\ \A j \in DOMAIN piece : j \in (m + 1)..(m + Len(shown)) \/ piece[j] = Blank
        ELSE ReadsBack(piece, d.conv, d.size, arg)
FormatsInOrder ==
    returned /\ call.fn = "format" =>
         \A k \in DOMAIN call.format : ShowsItsArgument(call.format, call.args, k)

(* Numbers are printed and read exactly, alone and in a format. *)
NumbersReadBack == ReadsExactly /\ PrintsExactly /\ FormatsInOrder

(* The log is what was put into it, in order and without a gap; only the end
   of a line is still in the buffer, which never overflows. *)
LogInOrder ==
    /\ put = log \o buf
    /\ Len(buf) < LogSize
    /\ \A k \in DOMAIN buf : buf[k] # NewLine
=============================================================================
