----------------------------- MODULE OptionWords -----------------------------
(***************************************************************************)
(* The two words of options in the ramdisk as the helper changes them: 32  *)
(* bits each, a word being the set of the numbers of its set bits.  revert *)
(* and safemode add and subtract an option (+=, -=) where kerninfo.h has   *)
(* checkrain_set_option, so a bit that is already as asked for carries     *)
(* into, or borrows from, the options above it.                            *)
(***************************************************************************)
EXTENDS Integers

Bits == 0..31

(* kerninfo.flags *)
safemode == 0
bind_mount == 1
overlay == 2
force_revert == 7

(* paleinfo.flags *)
rootful == 0
setup_rootful == 2
clean_fakefs == 10

checkrain_options_enabled(flags, opt) == flags \cap opt # {}

(* flags + (1 << b): the run of ones from b on becomes zeros, the zero above
   it a one, unless that is bit 32. *)
Plus(flags, b) ==
    LET top == CHOOSE n \in b..32 : n \notin flags /\ b..(n - 1) \subseteq flags
    IN  (flags \ b..(top - 1)) \cup ({top} \cap Bits)

(* flags - (1 << b): the run of zeros from b on becomes ones. *)
Minus(flags, b) ==
    LET top == CHOOSE n \in b..32 :
                   (n \in flags \/ n = 32) /\ b..(n - 1) \cap flags = {}
    IN  (flags \ {top}) \cup b..(top - 1)
=============================================================================
