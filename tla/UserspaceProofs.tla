-------------------------- MODULE UserspaceProofs ---------------------------
(***************************************************************************)
(* Proofs about Userspace, for any number of processes of helper and p1ctl *)
(* and of commands they run, and whatever words a host and p1ctl give.     *)
(* IInv is inductive; the properties follow from it.                       *)
(***************************************************************************)
EXTENDS Userspace, TLAPS

(* What has been read was some serial outcome; an option is added only to words
   without it and taken only from words with it, but by an odd argument; a block
   nobody wrote since is that of the ramdisk. *)
ToolInv ==
    \A t \in Tools :
        /\ tool[t].at = "write" =>
             /\ tool[t].read.p \in serial.p
             /\ odd \/ tool[t].read.k \in serial.k
             /\ tool[t].cmd = "safemode" =>
                  tool[t].arg # IF safemode \in tool[t].read.k THEN 1 ELSE 0
             /\ tool[t].cmd = "revert" => clean_fakefs \notin tool[t].read.p
             /\ tool[t].cmd # "none"
             /\ tool[t].fresh /\ WordOf(tool[t].cmd) = "k" => tool[t].read.k = words.k
             /\ tool[t].fresh /\ WordOf(tool[t].cmd) = "p" => tool[t].read.p = words.p
        /\ tool[t].at # "idle" => jb # "none"

(* The verdict of jbloader -s on words, in this session. *)
Verdict(read) == IF RunsRcD(read, TaskArgs(ureboot)) THEN "yes" ELSE "no"

(* Until jbloader -j has read them the words change only when raced says so;
   from there on it decides with what it read. *)
WordsInv ==
    /\ jb # "none" <=> ld \in {"up", "rebooting"}
    /\ ld = "apps" => sysk = words
    /\ ld = "exec" \/ (jb = "start" /\ ~ raced) => rcd = Verdict(words)
    /\ jb \in {"none", "start"} => daemons = "none" /\ ~ wiped
    /\ jb \in {"none", "start"} /\ ~ raced /\ ~ ureboot => words = host
    /\ jb = "joining" /\ ~ raced =>
         /\ rcd = Verdict(jbk)
         /\ ~ ureboot => jbk = host
    /\ jb = "joining" => odd \/ jbk.k \in serial.k

(* Where the threads are when the main one is where it is, and which children
   there can be. *)
ThreadInv ==
    /\ \A t \in Threads :
         /\ jb \in {"none", "start"} => thread[t].at = "idle"
         /\ jb = "joining" => thread[t].at # "idle"
         /\ jb \notin {"none", "start", "joining"} => thread[t].at = "done"
    /\ CASE jb = "loader" -> thread["main"].at \in {"run", "wait"}
         [] jb \in {"goodbye", "done"} -> thread["main"].at = "done"
         [] OTHER -> thread["main"].at = "idle"
    /\ \A t \in Runners :
         /\ thread[t].at # "wait" => kid[t] = "none"
         /\ thread[t].at = "wait" => thread[t].pid # "none"
         /\ thread[t].pid = "zero" => kid[t] = "none"
    /\ kid["async"] # "none" => jb = "goodbye"

IInv ==
    /\ TypeOK /\ ToolInv /\ WordsInv /\ ThreadInv
    /\ SerialWords /\ SameVerdict /\ WipedOnlyIfAsked

(* The commands of helper that change a word. *)
IsHelper(cmd, arg) == (cmd = "safemode" /\ arg \in Modes) \/ (cmd = "revert" /\ arg = 0)

(* Nothing is lost between the ramdisk and the program that reads it. *)
LEMMA InfoRead == ASSUME words \in Both PROVE init_info = words
BY DEF init_info, get_kerninfo, get_paleinfo, Both

(* The bit that is added is not there, so nothing carries. *)
LEMMA PlusSets ==
    ASSUME NEW flags \in Words, NEW b \in Bits, b \notin flags
    PROVE  Plus(flags, b) = flags \cup {b}
<1> DEFINE top == CHOOSE n \in b..32 : n \notin flags /\ b..(n - 1) \subseteq flags
<1>1. b \in b..32 /\ b \notin flags /\ b..(b - 1) \subseteq flags
  BY DEF Bits
<1>2. top \in b..32 /\ b..(top - 1) \subseteq flags
  BY <1>1
<1>3. top = b
  <2>1. CASE top > b
    BY <1>2, <2>1 DEF Bits
  <2>2. QED
    BY <1>2, <2>1 DEF Bits
<1>4. Plus(flags, b) = (flags \ b..(top - 1)) \cup ({top} \cap Bits)
  BY DEF Plus
<1>5. b..(b - 1) = {}
  BY DEF Bits
<1>6. QED
  BY <1>3, <1>4, <1>5

(* The bit that is taken away is there, so nothing borrows. *)
LEMMA MinusClears ==
    ASSUME NEW flags \in Words, NEW b \in Bits, b \in flags
    PROVE  Minus(flags, b) = flags \ {b}
<1> DEFINE top == CHOOSE n \in b..32 :
                      (n \in flags \/ n = 32) /\ b..(n - 1) \cap flags = {}
<1>1. b \in b..32 /\ b \in flags /\ b..(b - 1) \cap flags = {}
  BY DEF Bits
<1>2. top \in b..32 /\ b..(top - 1) \cap flags = {}
  BY <1>1
<1>3. top = b
  <2>1. CASE top > b
    BY <1>2, <2>1 DEF Bits
  <2>2. QED
    BY <1>2, <2>1 DEF Bits
<1>4. Minus(flags, b) = (flags \ {top}) \cup b..(top - 1)
  BY DEF Minus
<1>5. b..(b - 1) = {}
  BY DEF Bits
<1>6. QED
  BY <1>3, <1>4, <1>5

(* What a command writes is what it is meant to make of what it read. *)
LEMMA WrittenWords ==
    ASSUME IInv, NEW t \in Tools, tool[t].at = "write", NEW new \in NewK \cup NewP,
           NEW w, w = WordOf(tool[t].cmd)
    PROVE  LET written == Changed(tool[t].cmd, tool[t].arg, tool[t].read, new)
           IN  /\ written \in Words
               /\ ~ Odd(t) =>
                    written = Meant(tool[t].cmd, tool[t].arg, new, tool[t].read[w])
<1> USE DEF HelperCommands, WordOf, Changed, Meant
<1>1. /\ tool[t].read.k \in Words /\ tool[t].read.p \in Words
      /\ tool[t].cmd \in {"safemode", "revert", "set_k", "set_p"}
  BY DEF IInv, TypeOK, ToolInv, ToolStates, Both
<1>2. safemode \in Bits /\ clean_fakefs \in Bits /\ new \in Words
  BY UserspaceAssumption DEF safemode, clean_fakefs, Bits
<1>3. CASE tool[t].cmd = "safemode" /\ tool[t].arg # 0
  <2>1. Plus(tool[t].read.k, safemode) \in Words
    BY <1>1 DEF Plus, Words
  <2>2. ASSUME ~ Odd(t)
        PROVE  Plus(tool[t].read.k, safemode) = tool[t].read.k \cup {safemode}
    <3>1. safemode \notin tool[t].read.k
      BY <1>3, <2>2 DEF Odd, IInv, ToolInv
    <3>2. QED
      BY <1>1, <1>2, <3>1, PlusSets
  <2>3. QED
    BY <1>3, <2>1, <2>2
<1>4. CASE tool[t].cmd = "safemode" /\ tool[t].arg = 0
  <2>1. safemode \in tool[t].read.k
    BY <1>4 DEF IInv, ToolInv
  <2>2. Minus(tool[t].read.k, safemode) = tool[t].read.k \ {safemode}
    BY <1>1, <1>2, <2>1, MinusClears
  <2>3. QED
    BY <1>1, <1>4, <2>2 DEF Words
<1>5. CASE tool[t].cmd = "revert"
  <2>1. Plus(tool[t].read.p, clean_fakefs) = tool[t].read.p \cup {clean_fakefs}
    BY <1>1, <1>2, <1>5, PlusSets DEF IInv, ToolInv
  <2>2. QED
    BY <1>1, <1>2, <1>5, <2>1 DEF Words
<1>6. CASE tool[t].cmd \in {"set_k", "set_p"}
  BY <1>1, <1>2, <1>6
<1>7. QED
  BY <1>1, <1>3, <1>4, <1>5, <1>6

(* And what it makes of any words is words again. *)
LEMMA MeantWords ==
    ASSUME NEW cmd, NEW arg, NEW new \in Words, NEW word \in Words
    PROVE  Meant(cmd, arg, new, word) \in Words
<1>1. safemode \in Bits /\ clean_fakefs \in Bits
  BY DEF safemode, clean_fakefs, Bits
<1>2. QED
  BY <1>1 DEF Meant, Words

(* What a write could have made of its word is added to what others could. *)
LEMMA SerialGrows ==
    ASSUME IInv, NEW t \in Tools, NEW new, ToolWrites(t, new)
    PROVE  serial.k \subseteq serial'.k /\ serial.p \subseteq serial'.p /\ (odd => odd')
<1> DEFINE w == WordOf(tool[t].cmd)
           more == {Meant(tool[t].cmd, tool[t].arg, new, x) : x \in serial[w]}
<1>1. serial' = [serial EXCEPT ![w] = serial[w] \cup more] /\ odd' = (odd \/ Odd(t))
  BY DEF ToolWrites
<1>2. w \in {"k", "p"} /\ serial \in [k : SUBSET Words, p : SUBSET Words]
  BY DEF WordOf, IInv, TypeOK
<1> HIDE DEF w, more
<1>3. QED
  BY <1>1, <1>2

LEMMA IdleStates ==
    /\ Unread \in Both /\ Idle \in ToolStates /\ ThreadNone \in ThreadStates
    /\ Idle.at = "idle" /\ ThreadNone.at = "idle" /\ ThreadNone.pid = "none"
BY DEF Unread, Both, Words, Idle, ToolStates, ThreadNone, ThreadStates

LEMMA InitIInv == Init => IInv
<1> SUFFICES ASSUME Init PROVE IInv
  OBVIOUS
<1>1. TypeOK
  <2>1. PICK k \in HostK, p \in HostP : words = [k |-> k, p |-> p]
    BY DEF Init
  <2>2. words \in Both /\ host \in Both /\ serial \in [k : SUBSET Words, p : SUBSET Words]
    BY <2>1, UserspaceAssumption DEF Init, Both
  <2>3. QED
    <3>1. commands \in 0..MaxCommands
      BY UserspaceAssumption DEF Init
    <3>2. /\ thread \in [Runners -> ThreadStates] /\ tool \in [Tools -> ToolStates]
          /\ sysk \in Both /\ jbk \in Both
      BY IdleStates DEF Init
    <3>3. kid \in [Kids -> {"none", "running", "exited"}]
      BY DEF Init
    <3>4. QED
      BY <2>2, <3>1, <3>2, <3>3 DEF Init, TypeOK, Verdicts
<1>2. ToolInv /\ SerialWords
  BY DEF Init, ToolInv, Idle, SerialWords
<1>3. WordsInv /\ SameVerdict /\ WipedOnlyIfAsked
  BY DEF Init, WordsInv, SameVerdict, WipedOnlyIfAsked
<1>4. ThreadInv
  BY DEF Init, ThreadInv, ThreadNone, Runners, Threads, Kids
<1>5. QED
  BY <1>1, <1>2, <1>3, <1>4 DEF IInv

(* Every variable keeps its type. *)
LEMMA TypeStep ==
    IInv /\ [Next]_vars => TypeOK'
<1> SUFFICES ASSUME IInv, [Next]_vars PROVE TypeOK'
  OBVIOUS
<1> USE DEF options, launchdvars, jobvars, work, commanding
<1>0. TypeOK /\ thread \in [Runners -> ThreadStates] /\ tool \in [Tools -> ToolStates]
  BY DEF IInv, TypeOK
<1>r. init_info = words
  BY InfoRead DEF IInv, TypeOK
<1>1. CASE PowerOn
  <2>1. PICK k \in HostK, p \in HostP : Boots(k, p)
    BY <1>1 DEF PowerOn
  <2>2. words' \in Both /\ host' \in Both /\ serial' \in [k : SUBSET Words, p : SUBSET Words]
    BY <2>1, UserspaceAssumption DEF Boots, Both
  <2>3. QED
    <3>1. commands' \in 0..MaxCommands
      BY <2>1, UserspaceAssumption DEF Boots
    <3>2. /\ thread' \in [Runners -> ThreadStates] /\ tool' \in [Tools -> ToolStates]
          /\ sysk' \in Both /\ jbk' \in Both
      BY <1>1, IdleStates DEF PowerOn, FreshSession, NoJob
    <3>3. QED
      BY <1>0, <1>1, <2>1, <2>2, <3>1, <3>2
      DEF TypeOK, PowerOn, Boots, FreshSession, NoJob, Verdicts
<1>2. CASE UserspaceReboots
  BY <1>2, UserspaceAssumption, IdleStates
  DEF UserspaceReboots, FreshSession, NoJob, Verdicts, IInv, TypeOK
<1>3. CASE Constructor
  BY <1>3 DEF Constructor, LdGo, IInv, TypeOK
<1>4. CASE TaskReads
  BY <1>r, <1>4 DEF TaskReads, LdGo, IInv, TypeOK
<1>5. CASE jbloader_sysstatuscheck
  BY <1>5 DEF jbloader_sysstatuscheck, LdGo, Verdicts, IInv, TypeOK
<1>6. CASE ExecRealTask
  BY <1>6, IdleStates DEF ExecRealTask, LdGo, IInv, TypeOK
<1>7. CASE SpringBoardStarts
  BY <1>7 DEF SpringBoardStarts, IInv, TypeOK
<1>8. CASE SpringBoardDies
  BY <1>8 DEF SpringBoardDies, IInv, TypeOK
<1>9. CASE prep_jb_launch
  <2>1. thread' \in [Runners -> ThreadStates]
    <3>1. "prep" \in Runners /\ Commands(jbk.p) \subseteq 0..3 /\ 1 \in 0..3
      BY DEF Runners, Threads, Commands
    <3>2. QED
      BY <1>0, <1>9, <3>1 DEF prep_jb_launch, ThreadGo, ThreadStates
  <2>2. daemons' \in Verdicts /\ wiped' \in BOOLEAN
    <3>1. daemons' \in Verdicts
      BY <1>9 DEF prep_jb_launch, Verdicts
    <3>2. wiped \in BOOLEAN
      BY <1>0 DEF TypeOK
    <3>3. \A n \in {0, 2, 3} : (n > 0) \in BOOLEAN
      OBVIOUS
    <3>4. Commands(jbk.p) \subseteq {0, 2, 3}
      BY DEF Commands
    <3>5. wiped' = wiped \/ wiped' = TRUE \/ \E n \in Commands(jbk.p) : wiped' = (n > 0)
      BY <1>9 DEF prep_jb_launch
    <3>6. QED
      BY <3>1, <3>2, <3>3, <3>4, <3>5, Zenon
  <2>3. UNCHANGED <<options, launchdvars, sb, jb, jbk, kid, hostkey, missed, commanding>>
    BY <1>9 DEF prep_jb_launch
  <2>4. QED
    BY <1>0, <2>1, <2>2, <2>3 DEF TypeOK
<1>10. CASE prep_returns
  <2>1. thread' \in [Runners -> ThreadStates]
    BY <1>0, <1>10 DEF prep_returns, ThreadGo, Runners, Threads, ThreadStates
  <2>2. QED
    BY <1>0, <1>10, <2>1 DEF TypeOK, prep_returns
<1>11. CASE enable_ssh
  <2>1. thread' \in [Runners -> ThreadStates]
    <3> DEFINE n == IF hostkey THEN 0 ELSE 1
    <3>1. n \in 0..3
      OBVIOUS
    <3>2. thread' = [thread EXCEPT !["ssh"].at = "run", !["ssh"].left = n]
      BY <1>11 DEF enable_ssh
    <3> HIDE DEF n
    <3>3. [thread["ssh"] EXCEPT !.at = "run", !.left = n] \in ThreadStates
      BY <1>0, <3>1 DEF Runners, Threads, ThreadStates
    <3>4. thread' =
            [thread EXCEPT !["ssh"] = [thread["ssh"] EXCEPT !.at = "run", !.left = n]]
      BY <3>2
    <3>5. QED
      BY <1>0, <3>3, <3>4 DEF Runners, Threads
  <2>2. QED
    BY <1>0, <1>11, <2>1 DEF TypeOK, enable_ssh
<1>12. CASE LoadDropbear
  <2>1. thread' \in [Runners -> ThreadStates]
    BY <1>0, <1>12 DEF LoadDropbear, ThreadGo, Runners, Threads, ThreadStates
  <2>2. QED
    BY <1>0, <1>12, <2>1 DEF TypeOK, LoadDropbear
<1>13. CASE ReadsOptions
  <2>1. thread' \in [Runners -> ThreadStates]
    BY <1>r, <1>0, <1>13, IdleStates DEF ReadsOptions, ThreadStates
  <2>2. QED
    BY <1>r, <1>0, <1>13, <2>1 DEF TypeOK, ReadsOptions, JbGo
<1>14. CASE Joined
  BY <1>14 DEF Joined, JbGo, IInv, TypeOK
<1>15. CASE LooksForSpringBoard
  BY <1>15 DEF LooksForSpringBoard, JbGo, IInv, TypeOK
<1>16. CASE RegistersAndWaits
  BY <1>16 DEF RegistersAndWaits, JbGo, IInv, TypeOK
<1>17. CASE safemode_alert
  BY <1>17 DEF safemode_alert, JbGo, IInv, TypeOK
<1>18. CASE NoAlert
  BY <1>18 DEF NoAlert, JbGo, IInv, TypeOK
<1>19. CASE uicache_loader
  <2>1. thread' \in [Runners -> ThreadStates]
    <3> DEFINE n == IF platform = "ios" THEN 1 ELSE 0
    <3>1. n \in 0..3
      OBVIOUS
    <3>2. thread' = [thread EXCEPT !["main"].at = "run", !["main"].left = n]
      BY <1>19 DEF uicache_loader
    <3> HIDE DEF n
    <3>3. [thread["main"] EXCEPT !.at = "run", !.left = n] \in ThreadStates
      BY <1>0, <3>1 DEF Runners, Threads, ThreadStates
    <3>4. thread' =
            [thread EXCEPT !["main"] = [thread["main"] EXCEPT !.at = "run", !.left = n]]
      BY <3>2
    <3>5. QED
      BY <1>0, <3>3, <3>4 DEF Runners, Threads
  <2>2. QED
    BY <1>0, <1>19, <2>1 DEF TypeOK, uicache_loader, JbGo
<1>20. CASE prep_jb_ui
  <2>1. thread' \in [Runners -> ThreadStates]
    BY <1>0, <1>20 DEF prep_jb_ui, ThreadGo, Runners, ThreadStates
  <2>2. QED
    BY <1>0, <1>20, <2>1 DEF TypeOK, prep_jb_ui, JbGo, StartsAsync
<1>21. CASE Goodbye
  BY <1>21, IdleStates DEF Goodbye, JbGo, Kids, IInv, TypeOK
<1>22. ASSUME NEW t \in Runners, RunCommand(t) PROVE TypeOK'
  <2>1. thread' \in [Runners -> ThreadStates]
    BY <1>0, <1>22 DEF RunCommand, ThreadStates
  <2>2. QED
    BY <1>0, <1>22, <2>1 DEF TypeOK, RunCommand, Spawn, Kids
<1>23. ASSUME NEW t \in Runners, CommandWaited(t) PROVE TypeOK'
  <2>1. thread' \in [Runners -> ThreadStates]
    BY <1>0, <1>23 DEF CommandWaited, ThreadStates
  <2>2. QED
    BY <1>0, <1>23, <2>1 DEF TypeOK, CommandWaited, Waited, Kids
<1>24. ASSUME NEW c \in Kids, ChildExits(c) PROVE TypeOK'
  BY <1>24 DEF ChildExits, IInv, TypeOK
<1>25. ASSUME NEW t \in Tools, NEW cmd, NEW arg, IsHelper(cmd, arg),
              HelperReads(t, cmd, arg)
      PROVE  TypeOK'
  BY <1>r, <1>25, UserspaceAssumption
  DEF HelperReads, IsHelper, CanRun, AfterRead, HelperCommands, ToolStates, IInv, TypeOK
<1>26. ASSUME NEW t \in Tools, NEW cmd \in {"set_k", "set_p"}, P1ctlReads(t, cmd)
      PROVE  TypeOK'
  BY <1>r, <1>26, UserspaceAssumption
  DEF P1ctlReads, CanRun, HelperCommands, ToolStates, IInv, TypeOK
<1>27. ASSUME NEW t \in Tools, NEW new \in NewK \cup NewP, ToolWrites(t, new)
      PROVE  TypeOK'
  <2> DEFINE w == WordOf(tool[t].cmd)
             written == Changed(tool[t].cmd, tool[t].arg, tool[t].read, new)
             Mean(x) == Meant(tool[t].cmd, tool[t].arg, new, x)
  <2>1. /\ written \in Words /\ w \in {"k", "p"}
        /\ \A x \in Words : Mean(x) \in Words
    BY <1>27, WrittenWords, MeantWords, UserspaceAssumption DEF ToolWrites, WordOf
  <2>2. words' = [words EXCEPT ![w] = written]
        /\ serial' = [serial EXCEPT ![w] = serial[w] \cup {Mean(x) : x \in serial[w]}]
    BY <1>27 DEF ToolWrites, WriteBack
  <2>3. words \in Both /\ serial \in [k : SUBSET Words, p : SUBSET Words]
    BY <1>0 DEF TypeOK
  <2>4. words' \in Both /\ serial' \in [k : SUBSET Words, p : SUBSET Words]
    <3> HIDE DEF w, written, Mean
    <3>1. serial[w] \cup {Mean(x) : x \in serial[w]} \in SUBSET Words
      BY <2>1, <2>3
    <3>2. QED
      BY <2>1, <2>2, <2>3, <3>1 DEF Both
  <2>5. odd' \in BOOLEAN
    BY <1>0, <1>27 DEF ToolWrites, TypeOK, Odd
  <2>6. tool' \in [Tools -> ToolStates]
    BY <1>0, <1>27, IdleStates DEF ToolWrites, AfterWrite, ToolStates
  <2>7. QED
    BY <1>0, <1>27, <2>4, <2>5, <2>6 DEF TypeOK, ToolWrites
<1>28. ASSUME NEW t \in Tools, CannotOpen(t) PROVE TypeOK'
  <2>1. [tool[t] EXCEPT !.at = "reboot", !.read = Unread] \in ToolStates
    BY <1>0, IdleStates DEF ToolStates
  <2>2. tool' \in [Tools -> ToolStates]
    BY <1>0, <1>28, <2>1, IdleStates DEF CannotOpen
  <2>3. QED
    BY <1>0, <1>28, <2>2 DEF CannotOpen, TypeOK
<1>29. ASSUME NEW t \in Tools, userspace_reboot(t) PROVE TypeOK'
  BY <1>29, IdleStates DEF userspace_reboot, LdGo, IInv, TypeOK
<1>30. CASE UNCHANGED vars
  BY <1>30 DEF vars, IInv, TypeOK
<1>31. QED
  BY <1>1, <1>2, <1>3, <1>4, <1>5, <1>6, <1>7, <1>8, <1>9, <1>10, <1>11,
      <1>12, <1>13, <1>14, <1>15, <1>16, <1>17, <1>18, <1>19, <1>20, <1>21,
      <1>22, <1>23, <1>24, <1>25, <1>26, <1>27, <1>28, <1>29, <1>30 DEF Next,
      Launchd, Prep, Ssh, Main, Tool, Runners, Threads, IsHelper
(* A block that is going to be written, and what the ramdisk holds, are what some
   commands in turn make of the host's words. *)
LEMMA ToolStep ==
    IInv /\ [Next]_vars => (ToolInv /\ SerialWords)'
<1> SUFFICES ASSUME IInv, [Next]_vars PROVE (ToolInv /\ SerialWords)'
  OBVIOUS
<1> USE DEF options, launchdvars, jobvars, work, commanding
<1>0. /\ tool \in [Tools -> ToolStates] /\ words \in Both
      /\ serial \in [k : SUBSET Words, p : SUBSET Words] /\ odd \in BOOLEAN
      /\ ToolInv /\ SerialWords
  BY DEF IInv, TypeOK
<1>r. init_info = words
  BY InfoRead DEF IInv, TypeOK
<1>1. CASE PowerOn
  BY <1>0, <1>1, IdleStates
  DEF PowerOn, Boots, FreshSession, ToolInv, SerialWords
<1>2. CASE UserspaceReboots
  BY <1>0, <1>2, IdleStates
  DEF UserspaceReboots, FreshSession, ToolInv, SerialWords
<1>3. ASSUME NEW t \in Runners, RunCommand(t) PROVE (ToolInv /\ SerialWords)'
  BY <1>0, <1>3 DEF RunCommand, ToolInv, SerialWords
<1>4. ASSUME NEW t \in Runners, CommandWaited(t)
      PROVE  (ToolInv /\ SerialWords)'
  BY <1>0, <1>4 DEF CommandWaited, ToolInv, SerialWords
<1>5. ASSUME NEW c \in Kids, ChildExits(c) PROVE (ToolInv /\ SerialWords)'
  BY <1>0, <1>5 DEF ChildExits, ToolInv, SerialWords
<1>6. ASSUME NEW t \in Tools, NEW cmd, NEW arg, IsHelper(cmd, arg),
              HelperReads(t, cmd, arg)
      PROVE  (ToolInv /\ SerialWords)'
  BY <1>r, <1>0, <1>6
  DEF HelperReads, IsHelper, CanRun, AfterRead, HelperCommands, ToolInv, SerialWords,
     ToolStates, Both
<1>7. ASSUME NEW t \in Tools, NEW cmd \in {"set_k", "set_p"}, P1ctlReads(t, cmd)
      PROVE  (ToolInv /\ SerialWords)'
  BY <1>r, <1>0, <1>7 DEF P1ctlReads, CanRun, ToolInv, SerialWords, ToolStates, Both
<1>8. ASSUME NEW t \in Tools, NEW new \in NewK \cup NewP, ToolWrites(t, new)
      PROVE  (ToolInv /\ SerialWords)'
  <2> DEFINE w == WordOf(tool[t].cmd)
             written == Changed(tool[t].cmd, tool[t].arg, tool[t].read, new)
             Mean(x) == Meant(tool[t].cmd, tool[t].arg, new, x)
  <2>1. /\ w \in {"k", "p"}
        /\ ~ Odd(t) => written = Mean(tool[t].read[w])
    BY <1>8, WrittenWords DEF ToolWrites, WordOf
  <2>2. /\ words' = [words EXCEPT ![w] = written]
        /\ serial' = [serial EXCEPT ![w] = serial[w] \cup {Mean(x) : x \in serial[w]}]
        /\ odd' = (odd \/ Odd(t))
    BY <1>8 DEF ToolWrites, WriteBack
  <2>a. /\ tool[t].read.p \in serial.p
        /\ odd \/ tool[t].read.k \in serial.k
        /\ w = "p" => ~ Odd(t)
    BY <1>0, <1>8 DEF ToolWrites, ToolInv, Odd, WordOf
  <2> HIDE DEF w, written, Mean
  <2>b. serial.k \subseteq serial'.k /\ serial.p \subseteq serial'.p /\ (odd => odd')
    BY <1>8, SerialGrows
  <2>3. /\ serial.k \subseteq serial'.k /\ serial.p \subseteq serial'.p
        /\ odd => odd'
        /\ words'.p \in serial'.p
        /\ odd' \/ words'.k \in serial'.k
    <3>1. CASE w = "k"
      BY <1>0, <2>1, <2>2, <2>a, <2>b, <3>1 DEF Both, SerialWords
    <3>2. CASE w = "p"
      BY <1>0, <2>1, <2>2, <2>a, <2>b, <3>2 DEF Both, SerialWords
    <3>3. QED
      BY <2>1, <3>1, <3>2
  <2>4. ASSUME NEW o \in Tools, o # t, tool'[o].at = "write" PROVE
          /\ tool'[o].fresh => WordOf(tool[o].cmd) # w
          /\ tool'[o].cmd = tool[o].cmd /\ tool'[o].read = tool[o].read
          /\ tool'[o].arg = tool[o].arg
          /\ tool[o].at = "write" /\ (tool'[o].fresh => tool[o].fresh)
    BY <1>0, <1>8, <2>4 DEF ToolWrites, ToolStates, w
  <2>5. tool'[t].at # "write" /\ jb # "none" /\ jb' = jb
    BY <1>0, <1>8, IdleStates DEF ToolWrites, ToolStates, AfterWrite, ToolInv
  <2>6. \A o \in Tools : WordOf(tool[o].cmd) # w /\ WordOf(tool[o].cmd) = "k" =>
                               words'.k = words.k
    BY <1>0, <2>1, <2>2 DEF Both
  <2>7. \A o \in Tools : WordOf(tool[o].cmd) # w /\ WordOf(tool[o].cmd) = "p" =>
                               words'.p = words.p
    BY <1>0, <2>1, <2>2 DEF Both
  <2>8. QED
    BY <1>0, <2>3, <2>4, <2>5, <2>6, <2>7 DEF ToolInv, SerialWords
<1>9. ASSUME NEW t \in Tools, CannotOpen(t) PROVE (ToolInv /\ SerialWords)'
  BY <1>0, <1>9, IdleStates
  DEF CannotOpen, AfterWrite, ToolInv, SerialWords, ToolStates
<1>10. ASSUME NEW t \in Tools, userspace_reboot(t)
      PROVE  (ToolInv /\ SerialWords)'
  BY <1>0, <1>10, IdleStates DEF userspace_reboot, ToolInv, SerialWords
<1>11. CASE Constructor \/ TaskReads \/ jbloader_sysstatuscheck \/ ExecRealTask \/
           SpringBoardStarts \/ SpringBoardDies \/ prep_jb_launch \/ prep_returns
           \/ enable_ssh \/ LoadDropbear \/ ReadsOptions \/ Joined \/
           LooksForSpringBoard \/ RegistersAndWaits \/ safemode_alert \/ NoAlert \/
           uicache_loader \/ prep_jb_ui \/ Goodbye
  BY <1>0, <1>11
  DEF Constructor, LdGo, TaskReads, jbloader_sysstatuscheck, ExecRealTask,
      SpringBoardStarts, SpringBoardDies, prep_jb_launch, ThreadGo,
      prep_returns, enable_ssh, LoadDropbear, ReadsOptions, JbGo, Joined,
      LooksForSpringBoard, RegistersAndWaits, safemode_alert, NoAlert,
      uicache_loader, prep_jb_ui, StartsAsync, ShowsApps, Goodbye, ToolInv,
      SerialWords
<1>12. CASE UNCHANGED vars
  BY <1>0, <1>12 DEF vars, ToolInv, SerialWords
<1>13. QED
  BY <1>1, <1>2, <1>3, <1>4, <1>5, <1>6, <1>7, <1>8, <1>9, <1>10, <1>11,
      <1>12 DEF Next, Launchd, Prep, Ssh, Main, Tool, Runners, Threads, IsHelper
(* jbloader -s and jbloader -j decide with the same words. *)
LEMMA WordsStep ==
    IInv /\ [Next]_vars => (WordsInv /\ SameVerdict /\ WipedOnlyIfAsked)'
<1> SUFFICES ASSUME IInv, [Next]_vars
      PROVE  (WordsInv /\ SameVerdict /\ WipedOnlyIfAsked)'
  OBVIOUS
<1> USE DEF options, launchdvars, jobvars, work, commanding
<1>0. WordsInv /\ SameVerdict /\ WipedOnlyIfAsked
  BY DEF IInv
<1>r. init_info = words
  BY InfoRead DEF IInv, TypeOK
<1>1. CASE PowerOn
  BY <1>0, <1>1 DEF PowerOn, Boots, FreshSession, NoJob, WordsInv, SameVerdict,
     WipedOnlyIfAsked, Verdict
<1>2. CASE UserspaceReboots
  BY <1>0, <1>2 DEF UserspaceReboots, FreshSession, NoJob, WordsInv, SameVerdict,
     WipedOnlyIfAsked, Verdict
<1>3. CASE Constructor
  BY <1>0, <1>3
  DEF Constructor, LdGo, WordsInv, SameVerdict, WipedOnlyIfAsked, Verdict
<1>4. CASE TaskReads
  BY <1>r, <1>0, <1>4
  DEF TaskReads, LdGo, WordsInv, SameVerdict, WipedOnlyIfAsked, Verdict
<1>5. CASE jbloader_sysstatuscheck
  BY <1>0, <1>5
  DEF jbloader_sysstatuscheck, LdGo, WordsInv, SameVerdict, WipedOnlyIfAsked,
     Verdict
<1>6. CASE ExecRealTask
  BY <1>0, <1>6
  DEF ExecRealTask, LdGo, WordsInv, SameVerdict, WipedOnlyIfAsked, Verdict
<1>7. CASE SpringBoardStarts
  BY <1>0, <1>7
  DEF SpringBoardStarts, WordsInv, SameVerdict, WipedOnlyIfAsked, Verdict
<1>8. CASE prep_jb_launch
  <2>1. jb = "joining"
    BY <1>8 DEF prep_jb_launch, IInv, ThreadInv, Threads
  <2>2. wiped' => wiped \/ force_revert \in jbk.k \/ (clean_fakefs \in jbk.p /\ ~ ureboot)
    BY <1>8 DEF prep_jb_launch, CleansOnBoot, JobArgs, UserspaceFlag,
       userspace_rebooted, checkrain_options_enabled
  <2>3. daemons' = Verdict(jbk)
    BY <1>8
    DEF prep_jb_launch, CleansOnBoot, JobArgs, UserspaceFlag, Verdict, RunsRcD,
       TaskArgs, userspace_rebooted, checkrain_options_enabled
  <2>4. QED
    BY <1>0, <1>8, <2>1, <2>2, <2>3
    DEF prep_jb_launch, WordsInv, SameVerdict, WipedOnlyIfAsked, Verdict
<1>9. CASE ReadsOptions
  BY <1>r, <1>0, <1>9
  DEF ReadsOptions, JbGo, IInv, SerialWords, WordsInv, SameVerdict, WipedOnlyIfAsked, Verdict
<1>10. CASE Joined
  BY <1>0, <1>10
  DEF Joined, JbGo, WordsInv, SameVerdict, WipedOnlyIfAsked, Verdict
<1>11. CASE Goodbye
  BY <1>0, <1>11
  DEF Goodbye, JbGo, WordsInv, SameVerdict, WipedOnlyIfAsked, Verdict
<1>12. ASSUME NEW t \in Runners, RunCommand(t)
      PROVE  (WordsInv /\ SameVerdict /\ WipedOnlyIfAsked)'
  BY <1>0, <1>12
  DEF RunCommand, Spawn, WordsInv, SameVerdict, WipedOnlyIfAsked, Verdict
<1>13. ASSUME NEW t \in Runners, CommandWaited(t)
      PROVE  (WordsInv /\ SameVerdict /\ WipedOnlyIfAsked)'
  BY <1>0, <1>13
  DEF CommandWaited, Waited, WordsInv, SameVerdict, WipedOnlyIfAsked, Verdict
<1>14. ASSUME NEW c \in Kids, ChildExits(c)
      PROVE  (WordsInv /\ SameVerdict /\ WipedOnlyIfAsked)'
  BY <1>0, <1>14
  DEF ChildExits, WordsInv, SameVerdict, WipedOnlyIfAsked, Verdict
<1>15. ASSUME NEW t \in Tools, NEW cmd, NEW arg, IsHelper(cmd, arg),
              HelperReads(t, cmd, arg)
      PROVE  (WordsInv /\ SameVerdict /\ WipedOnlyIfAsked)'
  BY <1>r, <1>0, <1>15
  DEF HelperReads, IsHelper, CanRun, WordsInv, SameVerdict, WipedOnlyIfAsked, Verdict
<1>16. ASSUME NEW t \in Tools, NEW cmd \in {"set_k", "set_p"}, P1ctlReads(t, cmd)
      PROVE  (WordsInv /\ SameVerdict /\ WipedOnlyIfAsked)'
  BY <1>r, <1>0, <1>16
  DEF P1ctlReads, CanRun, WordsInv, SameVerdict, WipedOnlyIfAsked, Verdict
<1>17. ASSUME NEW t \in Tools, NEW new \in NewK \cup NewP, ToolWrites(t, new)
      PROVE  (WordsInv /\ SameVerdict /\ WipedOnlyIfAsked)'
  <2>1. jb # "none"
    BY <1>17 DEF ToolWrites, IInv, ToolInv
  <2>2. serial.k \subseteq serial'.k /\ (odd => odd')
    BY <1>17, SerialGrows
  <2>3. QED
    BY <1>0, <1>17, <2>1, <2>2
    DEF ToolWrites, WordsInv, SameVerdict, WipedOnlyIfAsked, Verdict
<1>18. ASSUME NEW t \in Tools, CannotOpen(t)
      PROVE  (WordsInv /\ SameVerdict /\ WipedOnlyIfAsked)'
  BY <1>0, <1>18
  DEF CannotOpen, WordsInv, SameVerdict, WipedOnlyIfAsked, Verdict
<1>19. ASSUME NEW t \in Tools, userspace_reboot(t)
      PROVE  (WordsInv /\ SameVerdict /\ WipedOnlyIfAsked)'
  BY <1>0, <1>19
  DEF userspace_reboot, LdGo, WordsInv, SameVerdict, WipedOnlyIfAsked,
     Verdict
<1>20. CASE SpringBoardDies \/ prep_returns \/ enable_ssh \/ LoadDropbear \/
           LooksForSpringBoard \/ RegistersAndWaits \/ safemode_alert \/ NoAlert \/
           uicache_loader \/ prep_jb_ui
  BY <1>0, <1>20
  DEF SpringBoardDies, prep_returns, ThreadGo, enable_ssh, LoadDropbear,
      LooksForSpringBoard, JbGo, RegistersAndWaits, safemode_alert, NoAlert,
      uicache_loader, prep_jb_ui, StartsAsync, ShowsApps, WordsInv,
      SameVerdict, WipedOnlyIfAsked, Verdict
<1>21. CASE UNCHANGED vars
  BY <1>0, <1>21 DEF vars, WordsInv, SameVerdict, WipedOnlyIfAsked, Verdict
<1>22. QED
  BY <1>1, <1>2, <1>3, <1>4, <1>5, <1>6, <1>7, <1>8, <1>9, <1>10, <1>11,
      <1>12, <1>13, <1>14, <1>15, <1>16, <1>17, <1>18, <1>19, <1>20, <1>21 DEF
      Next, Launchd, Prep, Ssh, Main, Tool, Runners, Threads, IsHelper
(* The threads wait for their own children. *)
LEMMA ThreadStep ==
    IInv /\ [Next]_vars => ThreadInv'
<1> SUFFICES ASSUME IInv, [Next]_vars PROVE ThreadInv'
  OBVIOUS
<1> USE DEF options, launchdvars, jobvars, work, commanding
<1>0. /\ ThreadInv /\ TypeOK
      /\ thread \in [Runners -> ThreadStates] /\ tool \in [Tools -> ToolStates]
      /\ kid \in [Kids -> {"none", "running", "exited"}]
  BY DEF IInv, TypeOK
<1>1. CASE PowerOn
  BY <1>0, <1>1, IdleStates
  DEF PowerOn, Boots, FreshSession, NoJob, ThreadInv, ThreadStates, Runners,
     Threads, Kids
<1>2. CASE UserspaceReboots
  BY <1>0, <1>2, IdleStates
  DEF UserspaceReboots, FreshSession, NoJob, ThreadInv, ThreadStates, Runners,
     Threads, Kids
<1>3. CASE ExecRealTask
  BY <1>0, <1>3
  DEF ExecRealTask, LdGo, IInv, WordsInv, ThreadInv, ThreadStates, Runners,
     Threads, Kids
<1>4. CASE prep_jb_launch
  BY <1>0, <1>4
  DEF prep_jb_launch, ThreadGo, ThreadInv, ThreadStates, Runners, Threads, Kids
<1>5. CASE prep_returns
  BY <1>0, <1>5
  DEF prep_returns, ThreadGo, ThreadInv, ThreadStates, Runners, Threads, Kids
<1>6. CASE enable_ssh
  BY <1>0, <1>6 DEF enable_ssh, ThreadInv, ThreadStates, Runners, Threads, Kids
<1>7. CASE LoadDropbear
  BY <1>0, <1>7
  DEF LoadDropbear, ThreadGo, ThreadInv, ThreadStates, Runners, Threads, Kids
<1>8. CASE ReadsOptions
  BY <1>0, <1>8, IdleStates
  DEF ReadsOptions, JbGo, ThreadInv, ThreadStates, Runners, Threads, Kids
<1>9. CASE Joined
  BY <1>0, <1>9 DEF Joined, JbGo, ThreadInv, ThreadStates, Runners, Threads, Kids
<1>10. CASE LooksForSpringBoard
  BY <1>0, <1>10
  DEF LooksForSpringBoard, JbGo, ThreadInv, ThreadStates, Runners, Threads, Kids
<1>11. CASE RegistersAndWaits
  BY <1>0, <1>11
  DEF RegistersAndWaits, JbGo, ThreadInv, ThreadStates, Runners, Threads, Kids
<1>12. CASE safemode_alert
  BY <1>0, <1>12
  DEF safemode_alert, JbGo, ThreadInv, ThreadStates, Runners, Threads, Kids
<1>13. CASE NoAlert
  BY <1>0, <1>13 DEF NoAlert, JbGo, ThreadInv, ThreadStates, Runners, Threads, Kids
<1>14. CASE uicache_loader
  BY <1>0, <1>14
  DEF uicache_loader, JbGo, ThreadInv, ThreadStates, Runners, Threads, Kids
<1>15. CASE prep_jb_ui
  BY <1>0, <1>15 DEF prep_jb_ui, JbGo, ThreadGo, StartsAsync, ShowsApps, ThreadInv,
     ThreadStates, Runners, Threads, Kids
<1>16. CASE Goodbye
  BY <1>0, <1>16 DEF Goodbye, JbGo, ThreadInv, ThreadStates, Runners, Threads, Kids
<1>17. ASSUME NEW t \in Runners, RunCommand(t) PROVE ThreadInv'
  BY <1>0, <1>17
  DEF RunCommand, Spawn, ThreadInv, ThreadStates, Runners, Threads, Kids
<1>18. ASSUME NEW t \in Runners, CommandWaited(t) PROVE ThreadInv'
  BY <1>0, <1>18
  DEF CommandWaited, Waited, ThreadInv, ThreadStates, Runners, Threads, Kids
<1>19. ASSUME NEW c \in Kids, ChildExits(c) PROVE ThreadInv'
  BY <1>0, <1>19 DEF ChildExits, ThreadInv, ThreadStates, Runners, Threads, Kids
<1>20. ASSUME NEW t \in Tools, NEW cmd, NEW arg, IsHelper(cmd, arg),
              HelperReads(t, cmd, arg)
      PROVE  ThreadInv'
  BY <1>0, <1>20
  DEF HelperReads, IsHelper, CanRun, ThreadInv, ThreadStates, Runners, Threads, Kids
<1>21. ASSUME NEW t \in Tools, NEW cmd \in {"set_k", "set_p"}, P1ctlReads(t, cmd)
      PROVE  ThreadInv'
  BY <1>0, <1>21
  DEF P1ctlReads, CanRun, ThreadInv, ThreadStates, Runners, Threads, Kids
<1>22. ASSUME NEW t \in Tools, NEW new \in NewK \cup NewP, ToolWrites(t, new)
      PROVE  ThreadInv'
  BY <1>0, <1>22 DEF ToolWrites, ThreadInv, ThreadStates, Runners, Threads, Kids
<1>23. ASSUME NEW t \in Tools, CannotOpen(t) PROVE ThreadInv'
  BY <1>0, <1>23 DEF CannotOpen, ThreadInv, ThreadStates, Runners, Threads, Kids
<1>24. ASSUME NEW t \in Tools, userspace_reboot(t) PROVE ThreadInv'
  BY <1>0, <1>24
  DEF userspace_reboot, LdGo, ThreadInv, ThreadStates, Runners, Threads, Kids
<1>25. CASE SpringBoardDies \/ Constructor \/ TaskReads \/ jbloader_sysstatuscheck
           \/ SpringBoardStarts
  BY <1>0, <1>25
  DEF SpringBoardDies, Constructor, LdGo, TaskReads, jbloader_sysstatuscheck,
      SpringBoardStarts, ThreadInv
<1>26. CASE UNCHANGED vars
  BY <1>0, <1>26 DEF vars, ThreadInv
<1>27. QED
  BY <1>1, <1>2, <1>3, <1>4, <1>5, <1>6, <1>7, <1>8, <1>9, <1>10, <1>11,
      <1>12, <1>13, <1>14, <1>15, <1>16, <1>17, <1>18, <1>19, <1>20, <1>21,
      <1>22, <1>23, <1>24, <1>25, <1>26 DEF Next, Launchd, Prep, Ssh, Main,
      Tool, Runners, Threads, IsHelper
(* A step that ends the writing of a helper whose block is fresh. *)
LEMMA FreshStep ==
    ASSUME IInv, [Next]_vars, NEW t \in Tools,
           tool[t].at = "write", tool[t].fresh, tool'[t].at = "reboot", ~ Odd(t)
    PROVE  words' \in {words, [words EXCEPT ![WordOf(tool[t].cmd)] =
                           Meant(tool[t].cmd, tool[t].arg, {}, @)]}
<1>0. /\ tool \in [Tools -> ToolStates] /\ words \in Both /\ ToolInv
      /\ TypeOK
  BY DEF IInv, TypeOK
<1>1. ASSUME NEW new \in NewK \cup NewP, ToolWrites(t, new)
      PROVE  words' = [words EXCEPT ![WordOf(tool[t].cmd)] =
                           Meant(tool[t].cmd, tool[t].arg, {}, @)]
  <2> DEFINE w == WordOf(tool[t].cmd)
             written == Changed(tool[t].cmd, tool[t].arg, tool[t].read, new)
  <2>1. tool[t].cmd \in HelperCommands
    BY <1>0, <1>1, IdleStates DEF ToolWrites, AfterWrite, ToolStates
  <2>2. written = Meant(tool[t].cmd, tool[t].arg, new, tool[t].read[w])
    BY WrittenWords
  <2>3. Meant(tool[t].cmd, tool[t].arg, new, tool[t].read[w])
          = Meant(tool[t].cmd, tool[t].arg, {}, tool[t].read[w])
    BY <2>1 DEF Meant, HelperCommands
  <2>4. words' = [words EXCEPT ![w] = written]
    BY <1>1 DEF ToolWrites, WriteBack
  <2>5. tool[t].read[w] = words[w]
    BY <1>0 DEF WordOf, ToolInv
  <2> HIDE DEF w, written
  <2>6. QED
    BY <2>2, <2>3, <2>4, <2>5 DEF w
<1>2. ASSUME NEW o \in Tools, NEW new \in NewK \cup NewP, ToolWrites(o, new)
      PROVE  o = t
  BY <1>0, <1>2 DEF ToolWrites, ToolStates
<1>3. CASE \A o \in Tools, new \in NewK \cup NewP : ~ ToolWrites(o, new)
  <2>1. CASE PowerOn \/ UserspaceReboots
    BY <1>0, <2>1, IdleStates DEF PowerOn, UserspaceReboots, FreshSession
  <2>2. CASE words' = words
    BY <2>2
  <2>3. PowerOn \/ UserspaceReboots \/ words' = words
    BY <1>3 DEF Next, Launchd, Prep, Ssh, Main, Tool, vars, options, Constructor,
       TaskReads, jbloader_sysstatuscheck, ExecRealTask, SpringBoardStarts,
       SpringBoardDies, prep_jb_launch, prep_returns, enable_ssh, LoadDropbear,
       ReadsOptions, Joined, LooksForSpringBoard, RegistersAndWaits, safemode_alert,
       NoAlert, uicache_loader, prep_jb_ui, Goodbye, RunCommand, CommandWaited,
       ChildExits, HelperReads, P1ctlReads, CannotOpen, userspace_reboot
  <2>4. QED
    BY <2>1, <2>2, <2>3
<1>4. QED
  BY <1>1, <1>2, <1>3

(* IInv holds in every state of every behaviour. *)
LEMMA Invariance == Spec => []IInv
<1>1. IInv /\ [Next]_vars => IInv'
  BY TypeStep, ToolStep, WordsStep, ThreadStep DEF IInv
<1>2. QED
  BY InitIInv, <1>1, PTL DEF Spec

(* Every variable keeps its type, whatever words and commands there are. *)
THEOREM TypeCorrect == Spec => []TypeOK
<1>1. IInv => TypeOK
  BY DEF IInv
<1>2. QED
  BY Invariance, <1>1, PTL

(* helper adds and takes options arithmetically, and its blocks may be stale:
   still each word is what some of the commands, in turn, make of the host's. *)
THEOREM WordsAreSerial == Spec => []SerialWords
<1>1. IInv => SerialWords
  BY DEF IInv
<1>2. QED
  BY Invariance, <1>1, PTL

(* The two programs that read the words on their own come to the same verdict
   about tweaks in every session in which the words stay as they are. *)
THEOREM VerdictsAgree == Spec => []SameVerdict
<1>1. IInv => SameVerdict
  BY DEF IInv
<1>2. QED
  BY Invariance, <1>1, PTL

(* What prep_jb_launch removes the host or, by force_revert, p1ctl asked for. *)
THEOREM WipesAsAsked == Spec => []WipedOnlyIfAsked
<1>1. IInv => WipedOnlyIfAsked
  BY DEF IInv
<1>2. QED
  BY Invariance, <1>1, PTL

(* The threads of jbloader -j run their commands one after the other, and
   leave no child behind, although they reap each other's. *)
THEOREM CommandsWaited == Spec => []CommandsInTurn
<1>1. IInv => CommandsInTurn
  <2> SUFFICES ASSUME IInv PROVE CommandsInTurn
    OBVIOUS
  <2>1. /\ ThreadInv
        /\ thread \in [Runners -> ThreadStates]
        /\ kid \in [Kids -> {"none", "running", "exited"}]
    BY DEF IInv, TypeOK
  <2>2. QED
    BY <2>1 DEF CommandsInTurn, ThreadInv, Runners, Threads, Kids
<1>2. QED
  BY Invariance, <1>1, PTL

(* A write on a block that is still the ramdisk's changes one option, as asked. *)
THEOREM FreshWrites == Spec => FreshWriteIsMeant
<1>1. IInv /\ [Next]_vars =>
        [\A t \in Tools :
           tool[t].at = "write" /\ tool[t].fresh /\ tool'[t].at = "reboot" /\ ~ Odd(t) =>
              words' \in {words, [words EXCEPT ![WordOf(tool[t].cmd)] =
                              Meant(tool[t].cmd, tool[t].arg, {}, @)]}]_vars
  BY FreshStep
<1>2. QED
  BY Invariance, <1>1, PTL DEF Spec, FreshWriteIsMeant
=============================================================================
