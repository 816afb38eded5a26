---------------------------- MODULE MCSpawnHooks ----------------------------
(* Jobs with no, one and two variables that mention DYLD_INSERT_LIBRARIES
   among others, and one preference file of each kind. *)
EXTENDS SpawnHooks

Home == [name |-> "plain", libs |-> <<>>]
Ins == [name |-> "insert", libs |-> <<Foreign>>]
Like == [name |-> "like", libs |-> <<Foreign>>]

Words == {{}, {rootful}, {rootful, clean_fakefs}}
Envs == {<<>>, <<Home>>, <<Ins>>, <<Like>>, <<Home, Ins, Home>>, <<Ins, Like>>, <<Like, Ins>>}
Added == {<<>>, <<Home>>}

Library == <<"private", "var", "mobile", "Library", "Preferences">>
Files ==
    {Library \o <<"app.plist">>, Library \o <<"com.apple.x.plist">>,
     <<"var", "jb">> \o Library \o <<"app.plist">>,
     <<"private", "var", "mobile", "Containers", "app.plist">>,
     <<"var", "jbold", "app.plist">>, <<"private", "var", "root", "app.plist">>}
Longer == {<<"jbold", "jb">>}
Apple == {"com.apple.x.plist"}
=============================================================================
