----------------------------- MODULE SpawnHooks -----------------------------
(***************************************************************************)
(* How rootless mode gets a hook into cfprefsd, and what the hook does:    *)
(* payload.dylib in launchd adds itself to the environment of the xpcproxy *)
(* that starts cfprefsd, there it adds rootlesshooks.dylib to that of      *)
(* cfprefsd, and rootlesshooks.dylib moves the preferences of apps below   *)
(* /var/jb.  A daemon that ends is started again.                          *)
(*                                                                         *)
(* An environment is a sequence of variables; only those whose text has    *)
(* DYLD_INSERT_LIBRARIES in it matter one by one.  A path is a sequence of *)
(* names.                                                                  *)
(***************************************************************************)
EXTENDS OptionWords, SequencesExt

CONSTANTS
    Options,      \* the words paleinfo.flags may hold
    JobEnvs,      \* what launchd may have for the job of cfprefsd
    ProxyVars,    \* what xpcproxy may put before or behind it
    Paths,        \* preference files CoreFoundation asks for
    LongerNames,  \* pairs of a name and a shorter one it begins with
    AppleNames,   \* the names of the preferences of the system
    MaxPath       \* MAXPATHLEN, in names

Payload == "/cores/payload.dylib"
(* slip: the name under which the dylib is built, not deployed *)
RootlesshooksBuilt == "/cores/rootlesshooks.dylib"
Rootlesshooks == "/cores/binpack/usr/lib/rootlesshooks.dylib"
Foreign == "foreign"
Deployed == {Payload, "/cores/binpack/usr/lib/rootlesshooks.dylib", Foreign}

(* "insert" is DYLD_INSERT_LIBRARIES, "like" a variable that has it inside its
   text, "plain" any other. *)
Variables == [name : {"insert", "like", "plain"}, libs : Seq(Deployed)]

ASSUME HooksAssumption ==
    /\ Options \subseteq SUBSET Bits
    /\ JobEnvs \subseteq Seq(Variables)   \* and name no library of the jailbreak
    /\ \A e \in JobEnvs : \A i \in DOMAIN e : e[i].libs \in Seq({Foreign})
    /\ ProxyVars \subseteq Seq(Variables)
    /\ \A e \in ProxyVars : \A i \in DOMAIN e : e[i].name = "plain"
    /\ Paths \subseteq Seq(STRING) \ {<<>>} /\ MaxPath \in Nat /\ MaxPath > 2

Services == {"cfprefsd", "other"}

VARIABLES
    do_pspawn_hook,  \* set by the constructor
    findable,   \* CoreFoundation has the function to hook
    job,        \* the environment of the job
    stage,      \* how far the start of the service has come
    service,
    env,        \* the environment of the newest process
    ahead,      \* what xpcproxy put before that of the job
    hooked,     \* rootlesshooks.dylib hooked the running cfprefsd
    answered    \* every <<path asked for, path answered>> since boot

boot == <<do_pspawn_hook, findable, job>>
vars == <<boot, stage, service, env, ahead, hooked, answered>>

Init ==
    /\ \E flags \in Options :
           do_pspawn_hook = ~ checkrain_options_enabled(flags, {rootful})
    /\ findable \in BOOLEAN
    /\ job \in JobEnvs
    /\ stage = "none" /\ service = "other" /\ env = <<>> /\ ahead = <<>>
    /\ hooked = FALSE /\ answered = {}
-----------------------------------------------------------------------------
Mentions(v) == v.name \in {"insert", "like"}
FirstOf(e, Test(_)) ==
    LET hits == {i \in DOMAIN e : Test(e[i])}
    IN  IF hits = {} THEN Len(e) + 1 ELSE CHOOSE i \in hits : \A h \in hits : i <= h

(* slip: the variable that is there is replaced *)
WithLibAlone(e, lib) ==
    Append(SubSeq(e, 1, FirstOf(e, Mentions) - 1), [name |-> "insert", libs |-> <<lib>>])

(* newenvp: from the first variable that mentions DYLD_INSERT_LIBRARIES on the
   index that is read stands still, so it gets the library and every variable
   behind it is left out; with no such variable there is a new one at the end. *)
WithLib(e, lib) ==
    LET k == FirstOf(e, Mentions)
    IN  Append(SubSeq(e, 1, k - 1),
               IF k <= Len(e) THEN [e[k] EXCEPT !.libs = Append(@, lib)]
               ELSE [name |-> "insert", libs |-> <<lib>>])

(* What dyld inserts: the first variable of that very name. *)
IsInsert(v) == v.name = "insert"
Loads(e, lib) ==
    LET k == FirstOf(e, IsInsert)
    IN  k <= Len(e) /\ \E i \in DOMAIN e[k].libs : e[k].libs[i] = lib

(* hook_posix_spawnp: the library the process adds, or none.  In pid 1 the
   label in argv[1] tells; elsewhere the path, the parent and the program. *)
InLaunchd(label) ==
    IF do_pspawn_hook /\ label = "cfprefsd" THEN {Payload} ELSE {}
InXpcproxy(path) ==
    IF Loads(env, Payload) /\ path = "cfprefsd" THEN {Rootlesshooks} ELSE {}

(* slip: without memory the service is started as it is *)
SpawnAnyway(to, e, libs) ==
    /\ stage' = to
    /\ \/ \E lib \in libs : env' = WithLib(e, lib)
       \/ env' = e

(* posix_spawnp, or ENOMEM from either malloc of the hook; the program may also
   fail to start, and launchd starts the service again later. *)
Spawn(to, e, libs) ==
    \/ stage' = to /\ env' = (IF libs = {} THEN e ELSE WithLib(e, CHOOSE l \in libs : TRUE))
    \/ stage' = "none" /\ env' = <<>>

LaunchdSpawns ==
    /\ stage = "none"
    /\ \E s \in Services :
         /\ service' = s
         /\ Spawn("xpcproxy", IF s = "cfprefsd" THEN job ELSE <<>>, InLaunchd(s))
    /\ ahead' = <<>>
    /\ UNCHANGED <<boot, hooked, answered>>

XpcproxySpawns ==
    /\ stage = "xpcproxy"
    /\ \E front, behind \in ProxyVars :
         /\ ahead' = front
         /\ Spawn("exec", front \o env \o behind, InXpcproxy(service))
    /\ UNCHANGED <<boot, service, hooked, answered>>

(* The constructor of rootlesshooks.dylib. *)
cfprefsdInit ==
    /\ stage = "exec" /\ stage' = "running"
    /\ hooked' = (Loads(env, Rootlesshooks) /\ findable)
    /\ UNCHANGED <<boot, service, env, ahead, answered>>
-----------------------------------------------------------------------------
(* strncmp with the length of the root: its last name may go on. *)
Begins(name, short) == name = short \/ <<name, short>> \in LongerNames
Below(path, root) ==
    /\ Len(path) >= Len(root)
    /\ \A i \in 1..(Len(root) - 1) : path[i] = root[i]
    /\ Begins(path[Len(root)], Last(root))

(* slip: /var/jb forgotten *)
KeptDirsNoJb == {<<"private", "var", "mobile", "Containers">>, <<"var", "db">>}
KeptDirs ==
    {<<"private", "var", "mobile", "Containers">>, <<"var", "db">>, <<"var", "jb">>}

preferencePlistNeedsRedirection(path) ==
    /\ \A root \in KeptDirs : ~ Below(path, root)
    /\ Last(path) \notin AppleNames

(* slip: only the name of the file is kept *)
InJbFlat(path) == <<"var", "jb", Last(path)>>
(* snprintf cuts what is too long. *)
InJb(path) ==
    LET moved == <<"var", "jb">> \o path
    IN  SubSeq(moved, 1, IF Len(moved) < MaxPath THEN Len(moved) ELSE MaxPath)

(* new_CFPrefsGetPathForTriplet, where the original finds a path. *)
GetPathForTriplet ==
    /\ stage = "running" /\ service = "cfprefsd"
    /\ \E path \in Paths :
         answered' = answered \cup
            {<<path, IF hooked /\ preferencePlistNeedsRedirection(path) THEN InJb(path)
                     ELSE path>>}
    /\ UNCHANGED <<boot, stage, service, env, ahead, hooked>>

(* The service ends or crashes. *)
Exits ==
    /\ stage = "running" /\ stage' = "none"
    /\ env' = <<>> /\ ahead' = <<>> /\ hooked' = FALSE
    /\ UNCHANGED <<boot, service, answered>>

Next == LaunchdSpawns \/ XpcproxySpawns \/ cfprefsdInit \/ GetPathForTriplet \/ Exits

Spec == Init /\ [][Next]_vars
-----------------------------------------------------------------------------
(* Only libraries that are deployed are inserted. *)
TypeOK ==
    /\ do_pspawn_hook \in BOOLEAN /\ findable \in BOOLEAN /\ job \in JobEnvs
    /\ stage \in {"none", "xpcproxy", "exec", "running"}
    /\ service \in Services
    /\ env \in Seq(Variables) /\ ahead \in ProxyVars \cup {<<>>}
    /\ hooked \in BOOLEAN
    /\ answered \subseteq Paths \X Seq((UNION {Range(p) : p \in Paths}) \cup {"var", "jb"})

(* A service that runs has rootlesshooks.dylib in it if and only if it is
   cfprefsd under a rootless jailbreak, however often starting it failed
   before, whatever libraries its job inserts and whatever xpcproxy adds to the
   environment; only a variable that has the name inside its text can hide it. *)
Hidden == \E i \in DOMAIN job :
              job[i].name = "like" /\ i = FirstOf(job, Mentions)
HookedIffRootless ==
    stage \in {"exec", "running"} =>
        (Loads(env, Rootlesshooks) <=> do_pspawn_hook /\ service = "cfprefsd" /\ ~ Hidden)

(* What the two hooks leave of the environment of cfprefsd: every variable
   ahead of the one they extend, in order, then that one with the libraries of
   the job in front, payload.dylib and rootlesshooks.dylib behind them. *)
EnvKept ==
    stage \in {"exec", "running"} /\ Loads(env, Rootlesshooks) =>
        LET k == FirstOf(job, Mentions)
            old == IF k <= Len(job) THEN job[k].libs ELSE <<>>
        IN  env = ahead \o SubSeq(job, 1, k - 1) \o
                    <<[name |-> "insert", libs |-> old \o <<Payload, Rootlesshooks>>]>>

(* Through any number of restarts of cfprefsd an app finds its preferences in
   the same file, and two preferences are in one file only if one of them was
   asked for below /var/jb, or the path is as long as a path can be. *)
OneFilePerPreference ==
    \A a, b \in answered :
        /\ a[1] = b[1] => a[2] = b[2]
        /\ a[2] = b[2] => \/ a[1] = b[1] \/ Len(a[2]) = MaxPath
                          \/ \E p \in {a[1], b[1]} : Below(p, <<"var", "jb">>)

(* No file moves out of, or deeper into, the jailbreak: what is answered stays
   where it is when it is asked for again. *)
SettledAtOnce ==
    \A a \in answered : Len(a[2]) < MaxPath =>
        a[2] = a[1] \/ ~ preferencePlistNeedsRedirection(a[2])
=============================================================================
