---------------------------- MODULE MCBootstrap -----------------------------
(* Instances of Bootstrap: an archive in order with every type of entry and
   with files of no, half a, one and one and a half blocks; one with a file
   before its directories and a name twice; one without dpkg; and, for a
   device that lists skipped files, one with a .DS_Store in the middle. *)
EXTENDS Bootstrap

Var == <<".", "var">>
DpkgFile == Jb \o <<"dpkg">>    \* usr/bin is left out
File(d, name, size) == [name |-> d \o <<name>>, type |-> "file", size |-> size, to |-> None]
Dir(p, size) == [name |-> p, type |-> "dir", size |-> size, to |-> None]
Other(d, name, type, to) == [name |-> d \o <<name>>, type |-> type, size |-> 0, to |-> to]

Whole1 == << Dir(Here, 0), Dir(Var, 3), Dir(Jb, 0), File(Jb, "dpkg", 3),
             Other(Jb, "fifo", "other", None), Other(Jb, "s", "sym", None),
             Other(Jb, "h", "hard", DpkgFile), File(Jb, "x", 2) >>
Unordered == << File(Jb, "dpkg", 1), Dir(Var, 0), File(Jb, "x", 0),
                File(Var, "jb", 4), File(Jb, "x", 3) >>
NoDpkg == << Dir(Here, 0), Dir(Var, 0), Dir(Jb, 0), File(Jb, "x", 4) >>
WithStore == << Dir(Here, 0), Dir(Var, 0), Dir(Jb, 0), File(Jb, "dpkg", 2),
                File(Jb, ".DS_Store", 2), File(Jb, "x", 2) >>

SmallArchives == {Whole1, Unordered, NoDpkg, WithStore}
StoreArchives == {WithStore}
Fresh == {Here}
SystemRoot == {Here, Var}
BothPlaces == {Fresh, SystemRoot}
FreshOnly == {Fresh}
=============================================================================
