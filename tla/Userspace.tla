------------------------------ MODULE Userspace ------------------------------
(***************************************************************************)
(* From launchd's start to a running user space, and again at every reboot *)
(* of user space until the power goes: the constructor and the interposed  *)
(* xpc_dictionary_get_value of payload.dylib in pid 1, jbloader -s in      *)
(* place of sysstatuscheck, the job in.palera.jbloader (jbloader -j) with  *)
(* its two threads, and helper and p1ctl, which change the words of        *)
(* options all of them read.  Each reads the words on its own, once, at    *)
(* its start.                                                              *)
(*                                                                         *)
(* Bounds: between two power ons at most MaxCommands commands of helper    *)
(* and p1ctl change the words or reboot user space.                        *)
(***************************************************************************)
EXTENDS OptionWords, FiniteSets

CONSTANTS
    Tools,       \* processes of helper and p1ctl that may run at once
    HostK, HostP,     \* the words a host may boot with
    NewK, NewP,       \* the words p1ctl may be asked to write
    Modes,       \* what atoi makes of the arguments of helper --safemode
    Platforms,   \* "ios" and others
    MaxCommands

Words == SUBSET Bits

ASSUME UserspaceAssumption ==
    /\ HostK \cup HostP \cup NewK \cup NewP \subseteq Words
    /\ Modes \subseteq Int
    /\ MaxCommands \in Nat
    /\ Platforms # {}

VARIABLES
    words,     \* [k, p]: kerninfo.flags and paleinfo.flags in the ramdisk
    host,      \* the words as the host gave them
    serial,    \* each word as some of the commands, in turn, would make it
    odd,       \* helper --safemode changed the mode to what it was
    platform,  \* dyld_platform
    ld,        \* what launchd is doing
    ureboot,   \* XPC_USERSPACE_REBOOTED is set
    commands,  \* commands of helper and p1ctl since power on
    rcd,       \* jbloader -s: whether the rc.d scripts are run
    sysk,      \* jbloader -s: the words it read
    sb,        \* SpringBoard has a port
    jb, jbk,   \* jbloader -j: what its main thread is doing, the words it read
    thread,    \* its threads prep_jb_launch and enable_ssh, and the main one
    kid,       \* the child each waits for, and the one nobody waits for
    daemons,   \* whether the daemons of the jailbreak are loaded
    wiped,     \* prep_jb_launch had Zebra's data removed
    hostkey,   \* /private/var/dropbear_rsa_host_key is there
    missed,    \* SpringBoard started between the look and the registration
    raced,     \* the words changed between the reads of -s and of -j
    tool,      \* each process of helper or p1ctl
    reverting  \* helper -R rebooted user space of a rootful jailbreak

launchdvars == <<ld, ureboot, rcd, sysk>>
options == <<words, host, serial, odd, platform>>
work == <<thread, kid, daemons, wiped, hostkey, missed>>
jobvars == <<jb, jbk, work>>
commanding == <<raced, tool, commands, reverting>>
vars == <<options, launchdvars, sb, jobvars, commanding>>

Unread == [k |-> {}, p |-> {}]
Both == [k : Words, p : Words]

Verdicts == {"none", "yes", "no"}
Threads == {"prep", "ssh"}
Runners == Threads \cup {"main"}
Kids == Runners \cup {"async"}
ThreadNone == [at |-> "idle", left |-> 0, pid |-> "none"]
Idle == [cmd |-> "none", arg |-> 0, at |-> "idle", read |-> Unread, fresh |-> FALSE]
-----------------------------------------------------------------------------
(* The arguments payload.dylib gives launchd for its two programs, and what
   jbloader makes of them. *)
(* slip: the variable is never looked at *)
UserspaceFlagNever(u) == {}
UserspaceFlag(u) == IF u THEN {"-u"} ELSE {}
TaskArgs(u) == {"-s"} \cup UserspaceFlag(u)
JobArgs(u) == {"-j"} \cup UserspaceFlag(u)

userspace_rebooted(args) == "-u" \in args
Mode(args) ==
    IF "-s" \in args THEN "sysstatuscheck"
    ELSE IF "-j" \in args THEN "bakera1nd"
    ELSE IF "-f" \in args THEN "early" ELSE "usage"

(* get_kerninfo, then get_paleinfo, each on a descriptor of its own.  That a
   block is missing or damaged is left out: jbinit has read both on this boot. *)
get_kerninfo == words.k
get_paleinfo == words.p
init_info == [k |-> get_kerninfo, p |-> get_paleinfo]

(* A process of launchd begins: nothing of the last session runs. *)
NoJob ==
    /\ jb' = "none" /\ jbk' = Unread /\ daemons' = "none" /\ missed' = FALSE
    /\ thread' = [t \in Runners |-> ThreadNone]
    /\ kid' = [c \in Kids |-> "none"]
    /\ wiped' = FALSE
FreshSession ==
    /\ ld' = "ctor" /\ rcd' = "none" /\ sysk' = Unread /\ sb' = FALSE
    /\ raced' = FALSE
    /\ tool' = [t \in Tools |-> Idle]
    /\ NoJob

Boots(k, p) ==
    /\ words' = [k |-> k, p |-> p] /\ host' = words'
    /\ serial' = [k |-> {k}, p |-> {p}] /\ odd' = FALSE
    /\ ureboot' = FALSE /\ commands' = 0 /\ reverting' = FALSE

Init ==
    /\ \E k \in HostK, p \in HostP : words = [k |-> k, p |-> p]
    /\ host = words
    /\ serial = [k |-> {words.k}, p |-> {words.p}] /\ odd = FALSE
    /\ ureboot = FALSE /\ commands = 0 /\ reverting = FALSE
    /\ platform \in Platforms
    /\ ld = "ctor" /\ rcd = "none" /\ sysk = Unread /\ sb = FALSE /\ raced = FALSE
    /\ tool = [t \in Tools |-> Idle]
    /\ jb = "none" /\ jbk = Unread /\ daemons = "none" /\ missed = FALSE
    /\ thread = [t \in Runners |-> ThreadNone]
    /\ kid = [c \in Kids |-> "none"]
    /\ wiped = FALSE
    /\ hostkey \in BOOLEAN

(* The device is off; the host boots it with words of its own. *)
PowerOn ==
    /\ ld = "off"
    /\ \E k \in HostK, p \in HostP : Boots(k, p)
    /\ FreshSession
    /\ UNCHANGED <<platform, hostkey>>

UserspaceReboots ==
    /\ ld = "rebooting"
    /\ FreshSession
    /\ ureboot' = TRUE
    /\ UNCHANGED <<options, commands, hostkey, reverting>>
-----------------------------------------------------------------------------
(* pid 1 *)
LdGo(from, to) == ld = from /\ ld' = to

(* get_flags_from_p1ctl looks at no result: the flags, none, or four bytes
   from elsewhere. *)
Constructor ==
    /\ \E pflags \in {words.p, {}, {setup_rootful}} :
         LdGo("ctor", IF setup_rootful \in pflags THEN "off" ELSE "task")
    /\ UNCHANGED <<options, ureboot, rcd, sysk, sb, jobvars, commanding>>

(* jbloader -s: init_info, then whether to run the scripts in rc.d. *)
TaskReads ==
    /\ LdGo("task", "apps")
    /\ Mode(TaskArgs(ureboot)) = "sysstatuscheck"
    /\ sysk' = init_info
    /\ UNCHANGED <<options, ureboot, rcd, sb, jobvars, commanding>>

(* slip: force_revert forgotten *)
RunsRcDOnRevert(read, args) ==
    /\ ~ checkrain_options_enabled(read.k, {safemode})
    /\ \/ ~ checkrain_options_enabled(read.p, {clean_fakefs})
       \/ userspace_rebooted(args)

RunsRcD(read, args) ==
    /\ ~ checkrain_options_enabled(read.k, {safemode, force_revert})
    /\ \/ ~ checkrain_options_enabled(read.p, {clean_fakefs})
       \/ userspace_rebooted(args)

(* enable_non_default_system_apps, remount and move_rootless_if_required touch
   nothing of this module; then load_etc_rc_d and the real sysstatuscheck. *)
jbloader_sysstatuscheck ==
    /\ LdGo("apps", "exec")
    /\ rcd' = IF RunsRcD(sysk, TaskArgs(ureboot)) THEN "yes" ELSE "no"
    /\ UNCHANGED <<options, ureboot, sysk, sb, jobvars, commanding>>

(* execv works or jbloader spins; then launchd loads LaunchDaemons, the job
   in.palera.jbloader among them. *)
ExecRealTask ==
    /\ \/ LdGo("exec", "up") /\ jb' = "start"
       \/ LdGo("exec", "spin") /\ UNCHANGED jb
    /\ sysk' = Unread
    /\ UNCHANGED <<options, ureboot, rcd, sb, jbk, work, commanding>>

(* SpringBoard starts, posting its notification, and may die (before the job
   waits for it that is as if it had not started yet). *)
SpringBoardStarts ==
    /\ ld = "up" /\ ~ sb /\ platform = "ios"
    /\ sb' = TRUE
    /\ jb' = IF jb = "wait" THEN "alert" ELSE jb
    /\ missed' = (missed \/ jb = "register")
    /\ UNCHANGED <<options, launchdvars, jbk, thread, kid, daemons, wiped, hostkey,
                   commanding>>

SpringBoardDies ==
    /\ ld = "up" /\ sb /\ jb = "wait"
    /\ sb' = FALSE
    /\ UNCHANGED <<options, launchdvars, jobvars, commanding>>
-----------------------------------------------------------------------------
(* run: posix_spawn may fail and leave pid 0; waitpid(0) waits for any child
   of the group, and returns at once when there is none (ECHILD). *)
Spawn(t, works) ==
    /\ kid[t] = "none"
    /\ kid' = [kid EXCEPT ![t] = IF works THEN "running" ELSE "none"]

(* slip: waitpid(-1) *)
WaitedAny(t) ==
    \/ \E c \in Kids : kid[c] = "exited" /\ kid' = [kid EXCEPT ![c] = "none"]
    \/ (\A c \in Kids : kid[c] = "none") /\ UNCHANGED kid

Waited(t) ==
    \/ thread[t].pid = "own" /\ kid[t] # "running" /\ kid' = [kid EXCEPT ![t] = "none"]
    \/ thread[t].pid = "zero" /\ \E c \in Kids :
            kid[c] = "exited" /\ kid' = [kid EXCEPT ![c] = "none"]
    \/ thread[t].pid = "zero" /\ (\A c \in Kids : kid[c] = "none") /\ UNCHANGED kid

ChildExits(c) ==
    /\ kid[c] = "running"
    /\ kid' = [kid EXCEPT ![c] = "exited"]
    /\ \/ UNCHANGED hostkey
       \/ c = "ssh" /\ hostkey' = TRUE
    /\ UNCHANGED <<options, launchdvars, sb, jb, jbk, thread, daemons, wiped, missed,
                   commanding>>

ThreadGo(t, from, to) ==
    thread[t].at = from /\ thread' = [thread EXCEPT ![t].at = to]

(* How many commands jailbreak_obliterator runs: rm and uicache, on a rootless
   jailbreak find as well or, without a hash, none; the unregistrations that
   may come first are left out. *)
Commands(p) == IF rootful \in p THEN {2} ELSE {0, 3}

(* prep_jb_launch: what it decides with, and what it does.  The obliterator
   has the first of its commands remove Zebra's data as well. *)
CleansOnBoot(read, args) ==
    /\ checkrain_options_enabled(read.p, {clean_fakefs})
    /\ ~ userspace_rebooted(args)

prep_jb_launch ==
    /\ thread["prep"].at = "begin"
    /\ \/ /\ checkrain_options_enabled(jbk.k, {force_revert})
          /\ \E n \in Commands(jbk.p) :
                /\ thread' = [thread EXCEPT !["prep"].at = "run", !["prep"].left = n]
                /\ wiped' = (n > 0)
          /\ daemons' = "no"
       \/ /\ ~ checkrain_options_enabled(jbk.k, {force_revert})
          /\ CleansOnBoot(jbk, JobArgs(ureboot))
          /\ thread' = [thread EXCEPT !["prep"].at = "run", !["prep"].left = 1]
          /\ daemons' = "no" /\ wiped' = TRUE
       \/ /\ ~ checkrain_options_enabled(jbk.k, {force_revert})
          /\ ~ CleansOnBoot(jbk, JobArgs(ureboot))
          /\ ThreadGo("prep", "begin", "done")
          /\ daemons' = IF safemode \in jbk.k THEN "no" ELSE "yes"
          /\ UNCHANGED wiped
    /\ UNCHANGED <<options, launchdvars, sb, jb, jbk, kid, hostkey, missed, commanding>>

(* slip: one command more than there are *)
RunCommandAgain(t) ==
    /\ thread[t].at = "run" /\ kid[t] = "none"
    /\ thread' = [thread EXCEPT ![t].at = "wait", ![t].left = @ - 1, ![t].pid = "zero"]
    /\ UNCHANGED <<options, launchdvars, sb, jb, jbk, kid, daemons, wiped, hostkey, missed,
                   commanding>>

(* run, by each thread: prep_jb_launch its commands in turn, enable_ssh
   dropbearkey when there is no key, the main one uicache. *)
RunCommand(t) ==
    /\ thread[t].at = "run" /\ thread[t].left > 0
    /\ \E works \in BOOLEAN :
         /\ Spawn(t, works)
         /\ thread' = [thread EXCEPT ![t].at = "wait", ![t].left = @ - 1,
                                     ![t].pid = IF works THEN "own" ELSE "zero"]
    /\ UNCHANGED <<options, launchdvars, sb, jb, jbk, daemons, wiped, hostkey, missed,
                   commanding>>

CommandWaited(t) ==
    /\ thread[t].at = "wait"
    /\ thread' = [thread EXCEPT ![t].at = "run", ![t].pid = "none"]
    /\ Waited(t)
    /\ UNCHANGED <<options, launchdvars, sb, jb, jbk, daemons, wiped, hostkey, missed,
                   commanding>>

prep_returns ==
    /\ ThreadGo("prep", "run", "done") /\ thread["prep"].left = 0
    /\ UNCHANGED <<options, launchdvars, sb, jb, jbk, kid, daemons, wiped, hostkey, missed,
                   commanding>>

enable_ssh ==
    /\ thread["ssh"].at = "begin"
    /\ thread' = [thread EXCEPT !["ssh"].at = "run",
                                !["ssh"].left = IF hostkey THEN 0 ELSE 1]
    /\ UNCHANGED <<options, launchdvars, sb, jb, jbk, kid, daemons, wiped, hostkey, missed,
                   commanding>>

LoadDropbear ==
    /\ ThreadGo("ssh", "run", "done") /\ thread["ssh"].left = 0
    /\ UNCHANGED <<options, launchdvars, sb, jb, jbk, kid, daemons, wiped, hostkey, missed,
                   commanding>>
-----------------------------------------------------------------------------
(* The main thread of jbloader -j. *)
JbGo(from, to) == jb = from /\ jb' = to

ReadsOptions ==
    /\ JbGo("start", "joining")
    /\ Mode(JobArgs(ureboot)) = "bakera1nd"
    /\ jbk' = init_info
    /\ thread' = [t \in Runners |->
                    IF t \in Threads THEN [ThreadNone EXCEPT !.at = "begin"] ELSE ThreadNone]
    /\ UNCHANGED <<options, launchdvars, sb, kid, daemons, wiped, hostkey, missed,
                   commanding>>

(* pthread_join of both; off iOS, or without SpringBoardServices, no wait. *)
Joined ==
    /\ \A t \in Threads : thread[t].at = "done"
    /\ \/ JbGo("joining", "look") /\ platform = "ios"
       \/ JbGo("joining", "alert")
    /\ UNCHANGED <<options, launchdvars, sb, jbk, work, commanding>>

(* slip: no look before the wait *)
LooksNever ==
    /\ JbGo("look", "register")
    /\ UNCHANGED <<options, launchdvars, sb, jbk, work, commanding>>

LooksForSpringBoard ==
    /\ IF sb THEN JbGo("look", "alert") ELSE JbGo("look", "register")
    /\ UNCHANGED <<options, launchdvars, sb, jbk, work, commanding>>

(* The observer is added and the run loop entered; sb_launched stops it (see
   SpringBoardStarts). *)
RegistersAndWaits ==
    /\ JbGo("register", "wait")
    /\ UNCHANGED <<options, launchdvars, sb, jbk, work, commanding>>

(* The alert of safe mode waits for nobody. *)
safemode_alert ==
    /\ JbGo("alert", "uicache")
    /\ checkrain_options_enabled(jbk.k, {safemode})
    /\ UNCHANGED <<options, launchdvars, sb, jbk, work, commanding>>
NoAlert ==
    /\ JbGo("alert", "uicache")
    /\ ~ checkrain_options_enabled(jbk.k, {safemode})
    /\ UNCHANGED <<options, launchdvars, sb, jbk, work, commanding>>

uicache_loader ==
    /\ JbGo("uicache", "loader")
    /\ thread' = [thread EXCEPT !["main"].at = "run",
                                !["main"].left = IF platform = "ios" THEN 1 ELSE 0]
    /\ UNCHANGED <<options, launchdvars, sb, jbk, kid, daemons, wiped, hostkey, missed,
                   commanding>>

ShowsApps == platform = "ios" /\ ~ checkrain_options_enabled(jbk.k, {force_revert})

(* run_async: nobody waits for what it starts, if it starts. *)
StartsAsync == kid' = [kid EXCEPT !["async"] = "running"]

(* prep_jb_ui, a thread that is joined: uicache_apps runs uicache, if it is
   there. *)
prep_jb_ui ==
    /\ JbGo("loader", "goodbye")
    /\ ThreadGo("main", "run", "done") /\ thread["main"].left = 0
    /\ \/ UNCHANGED kid
       \/ ShowsApps /\ StartsAsync
    /\ UNCHANGED <<options, launchdvars, sb, jbk, daemons, wiped, hostkey, missed,
                   commanding>>

(* The job is not one that leaves its process group alone: with the main
   thread goes what it started, ready or not. *)
Goodbye ==
    /\ JbGo("goodbye", "done")
    /\ kid' = [kid EXCEPT !["async"] = "none"]
    /\ jbk' = Unread
    /\ UNCHANGED <<options, launchdvars, sb, thread, daemons, wiped, hostkey, missed,
                   commanding>>
-----------------------------------------------------------------------------
(* helper and p1ctl.  A command reads the block of its word, changes one field
   and writes the whole block back. *)
HelperCommands == {"safemode", "revert"}
WordOf(cmd) == IF cmd \in {"revert", "set_p"} THEN "p" ELSE "k"

ToolGo(t, from, to) == tool[t].at = from /\ tool' = [tool EXCEPT ![t].at = to]

(* What runs beside the threads of jbloader -j neither reads nor changes what
   they do: the commands that begin meanwhile are left out. *)
CanRun(t) ==
    /\ ld = "up" /\ tool[t] = Idle
    /\ commands < MaxCommands /\ commands' = commands + 1
    /\ \/ jb = "start" /\ sb
       \/ jb \in {"wait", "done"}

(* slip: the mode is not compared *)
AfterReadAlways(cmd, arg, read) == "write"

(* What is there to do: nothing when the mode, 0 or 1, is the int asked for,
   only the reboot when clean_fakefs is set. *)
AfterRead(cmd, arg, read) ==
    CASE cmd = "safemode" ->
            IF arg = (IF safemode \in read.k THEN 1 ELSE 0) THEN "idle" ELSE "write"
      [] cmd = "revert" -> IF clean_fakefs \in read.p THEN "reboot" ELSE "write"

(* revert_install: the rootless branch is the obliterator (RootlessJb); an
   error of get_paleinfo makes check_rootful true there as well. *)
HelperReads(t, cmd, arg) ==
    /\ CanRun(t)
    /\ AfterRead(cmd, arg, init_info) # "idle"
    /\ tool' = [tool EXCEPT ![t] =
            [cmd |-> cmd, arg |-> arg, at |-> AfterRead(cmd, arg, init_info),
             read |-> init_info, fresh |-> TRUE]]
    /\ UNCHANGED <<options, launchdvars, sb, jobvars, raced, reverting>>

(* init_info, then a number from the command line. *)
P1ctlReads(t, cmd) ==
    /\ CanRun(t)
    /\ tool' = [tool EXCEPT ![t] =
            [cmd |-> cmd, arg |-> 0, at |-> "write", read |-> init_info, fresh |-> TRUE]]
    /\ UNCHANGED <<options, launchdvars, sb, jobvars, raced, reverting>>

Changed(cmd, arg, read, new) ==
    CASE cmd = "safemode" ->
            IF arg # 0 THEN Plus(read.k, safemode) ELSE Minus(read.k, safemode)
      [] cmd = "revert" -> Plus(read.p, clean_fakefs)
      [] OTHER          -> new

(* slip: both blocks written back *)
WriteBackBoth(t, new) ==
    [tool[t].read EXCEPT ![WordOf(tool[t].cmd)] =
        Changed(tool[t].cmd, tool[t].arg, tool[t].read, new)]
WriteBack(t, new) ==
    [words EXCEPT ![WordOf(tool[t].cmd)] =
        Changed(tool[t].cmd, tool[t].arg, tool[t].read, new)]

(* What a command is there to make of its word, and when helper is not: an
   argument such as 2 is neither mode, so safemode is added once more. *)
Meant(cmd, arg, new, word) ==
    CASE cmd = "safemode" -> IF arg # 0 THEN word \cup {safemode} ELSE word \ {safemode}
      [] cmd = "revert" -> word \cup {clean_fakefs}
      [] OTHER          -> new
Odd(t) ==
    tool[t].cmd = "safemode" /\ tool[t].arg \notin {0, 1} /\ safemode \in tool[t].read.k

(* A helper that could not open the ramdisk does not notice (it tests ret) and
   goes on; p1ctl ends. *)
AfterWrite(cmd) == IF cmd \in HelperCommands THEN "reboot" ELSE "idle"

ToolWrites(t, new) ==
    LET cmd == tool[t].cmd
        w == WordOf(cmd)
    IN  /\ tool[t].at = "write"
        /\ cmd = "set_k" => new \in NewK
        /\ cmd = "set_p" => new \in NewP
        /\ words' = WriteBack(t, new)
        /\ serial' = [serial EXCEPT ![w] =
                @ \cup {Meant(cmd, tool[t].arg, new, x) : x \in @}]
        /\ odd' = (odd \/ Odd(t))
        /\ raced' = (raced \/ jb = "start")
        /\ tool' = [o \in Tools |->
                IF o = t THEN IF AfterWrite(cmd) = "idle" THEN Idle
                              ELSE [tool[t] EXCEPT !.at = "reboot", !.read = Unread]
                ELSE IF WordOf(tool[o].cmd) = w THEN [tool[o] EXCEPT !.fresh = FALSE]
                ELSE tool[o]]
        /\ UNCHANGED <<host, platform, launchdvars, sb, jobvars, commands, reverting>>

CannotOpen(t) ==
    /\ tool[t].at = "write"
    /\ tool' = [tool EXCEPT ![t] = IF AfterWrite(tool[t].cmd) = "idle" THEN Idle
                                   ELSE [@ EXCEPT !.at = "reboot", !.read = Unread]]
    /\ UNCHANGED <<options, launchdvars, sb, jobvars, raced, commands, reverting>>

(* userspace_reboot: launchctl may be missing or fail. *)
userspace_reboot(t) ==
    /\ tool[t].at = "reboot"
    /\ tool' = [tool EXCEPT ![t] = Idle]
    /\ \/ UNCHANGED <<ld, reverting>>
       \/ /\ LdGo("up", "rebooting")
          /\ reverting' = (reverting \/ (tool[t].cmd = "revert" /\ rootful \in words.p))
    /\ UNCHANGED <<options, ureboot, rcd, sysk, sb, jobvars, raced, commands>>
-----------------------------------------------------------------------------
Launchd ==
    \/ PowerOn \/ UserspaceReboots
    \/ Constructor \/ TaskReads \/ jbloader_sysstatuscheck \/ ExecRealTask

Prep == prep_jb_launch \/ RunCommand("prep") \/ CommandWaited("prep") \/ prep_returns
Ssh == enable_ssh \/ RunCommand("ssh") \/ CommandWaited("ssh") \/ LoadDropbear
Main ==
    \/ ReadsOptions \/ Joined \/ LooksForSpringBoard \/ RegistersAndWaits
    \/ safemode_alert \/ NoAlert \/ uicache_loader
    \/ RunCommand("main") \/ CommandWaited("main") \/ prep_jb_ui \/ Goodbye

Tool(t) ==
    \/ \E mode \in Modes : HelperReads(t, "safemode", mode)
    \/ HelperReads(t, "revert", 0)
    \/ \E cmd \in {"set_k", "set_p"} : P1ctlReads(t, cmd)
    \/ \E new \in NewK \cup NewP : ToolWrites(t, new)
    \/ CannotOpen(t) \/ userspace_reboot(t)

Next ==
    \/ Launchd \/ SpringBoardStarts \/ SpringBoardDies
    \/ Prep \/ Ssh \/ Main \/ \E c \in Kids : ChildExits(c)
    \/ \E t \in Tools : Tool(t)

Spec == Init /\ [][Next]_vars

(* The threads of jbloader run, its children end, and launchd keeps
   SpringBoard alive. *)
FairSpec ==
    /\ Spec
    /\ WF_vars(Prep) /\ WF_vars(Ssh) /\ WF_vars(Main) /\ WF_vars(SpringBoardStarts)
    /\ \A c \in Runners : WF_vars(ChildExits(c))
-----------------------------------------------------------------------------
ThreadStates ==
    [at : {"idle", "begin", "run", "wait", "done"}, left : 0..3,
     pid : {"none", "own", "zero"}]
ToolStates ==
    [cmd : {"none", "set_k", "set_p"} \cup HelperCommands,
     arg : Modes \cup {0}, at : {"idle", "write", "reboot"}, read : Both, fresh : BOOLEAN]

TypeOK ==
    /\ words \in Both /\ host \in Both
    /\ serial \in [k : SUBSET Words, p : SUBSET Words] /\ odd \in BOOLEAN
    /\ platform \in Platforms
    /\ ld \in {"ctor", "task", "apps", "exec", "up", "spin", "rebooting", "off"}
    /\ ureboot \in BOOLEAN /\ commands \in 0..MaxCommands
    /\ rcd \in Verdicts /\ daemons \in Verdicts
    /\ sysk \in Both /\ jbk \in Both
    /\ sb \in BOOLEAN
    /\ jb \in {"none", "start", "joining", "look", "register", "wait", "alert",
              "uicache", "loader", "goodbye", "done"}
    /\ thread \in [Runners -> ThreadStates]
    /\ kid \in [Kids -> {"none", "running", "exited"}]
    /\ {wiped, hostkey, missed, raced, reverting} \subseteq BOOLEAN
    /\ tool \in [Tools -> ToolStates]

(* However commands overlap, each word is as some of those that wrote it, run
   one after the other in the order of their writes, would have made it, the
   others not at all: a stale block loses the changes of others (p1ctl and
   helper write all of what they read), and no more; adding and subtracting
   never carries or borrows.  Except that helper --safemode 2, in safe mode,
   adds the bit it has found: that leaves safe mode and sets bind_mount. *)
SerialWords == words.p \in serial.p /\ (odd \/ words.k \in serial.k)

(* jbloader -s runs the scripts in rc.d and jbloader -j loads the daemons on
   the same boots, although each decides by itself, from words it reads by
   itself: tweaks never run half, unless the words change between the reads. *)
SameVerdict ==
    ~ raced /\ rcd # "none" /\ daemons # "none" => rcd = daemons

(* prep_jb_launch has data removed only if it was asked to: after a cold boot
   by the host, and after a reboot of user space only by force_revert, which
   the host or p1ctl has set since the power on, never by clean_fakefs, whoever
   set it (or by what an odd argument of helper carried into). *)
WipedOnlyIfAsked ==
    wiped /\ ~ raced =>
        IF ureboot THEN odd \/ \E k \in serial.k : force_revert \in k
        ELSE force_revert \in host.k \/ clean_fakefs \in host.p

(* A thread goes on only when its own command has ended (dropbear is loaded
   after its key is generated, rm before find before uicache), although a
   failed posix_spawn of one thread makes it wait for, and reap, the child of
   the other; and when both are joined no child is left. *)
CommandsInTurn ==
    /\ \A t \in Runners : thread[t].at \in {"run", "done"} => kid[t] # "running"
    /\ jb \notin {"none", "start", "joining"} => \A t \in Threads : kid[t] = "none"
    /\ jb = "done" => \A c \in Kids : kid[c] = "none"

(* A helper whose block nobody wrote since it was read changes the option it
   is for, as asked, and nothing else of either word, or nothing at all. *)
FreshWriteIsMeant ==
    [][\A t \in Tools :
         tool[t].at = "write" /\ tool[t].fresh /\ tool'[t].at = "reboot" /\ ~ Odd(t) =>
            words' \in {words, [words EXCEPT ![WordOf(tool[t].cmd)] =
                            Meant(tool[t].cmd, tool[t].arg, {}, @)]}]_vars

(* jbloader -j ends in every session, except when SpringBoard started just
   after it was looked for and before the observer was added, or user space
   goes down first: no spawn that fails and no wait for the wrong child stops
   it, and it never waits for a SpringBoard that it saw. *)
JobEnds == jb = "start" ~> (jb = "done" \/ missed \/ ld # "up")

(* "revert palera1n install" (helper.c 23): once the user space that helper -R
   rebooted is up, something of the jailbreak was removed. *)
RevertReverts == reverting /\ ureboot /\ jb = "done" /\ ~ raced => wiped
=============================================================================
