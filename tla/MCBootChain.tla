----------------------------- MODULE MCBootChain -----------------------------
(* Instances of BootChain: a device on iOS 15 with the fakefs name the host
   uses, a second free name APFS may give instead, and the data volume, and a
   device on iOS 16. *)
EXTENDS BootChain

Devs15 == {"disk0s1s1", "disk0s1s2", "disk0s1s8", "disk0s1s9"}
Foreign15 == {"disk0s1s2"}

(* Every combination of the rootful options, for the fakefs and for volumes
   named by mistake, and a rootless boot.  Without wdt=-1 only where jbinit
   looks at it, and without bind mounts (the host always asks for them) only
   on the fakefs. *)
AllRequests ==
    {r \in [info : SUBSET InfoOptions, pinfo : SUBSET (PinfoOptions \ {"rootless_livefs"}),
            hostdev : {"disk0s1s8", "disk0s1s2", "disk0s1s1"}, wdt : BOOLEAN] :
        /\ "rootful" \in r.pinfo
        /\ r.wdt \/ "setup_rootful" \in r.pinfo
        /\ "bind_mount" \in r.info \/ r.hostdev = "disk0s1s8"}
      \cup [info : {{"bind_mount"}}, pinfo : {{}, {"rootless_livefs"}},
            hostdev : {"disk0s1s8"}, wdt : {TRUE}]

(* Setting up a fakefs again over whatever is there. *)
RepairRequests ==
    {[info |-> {"bind_mount", "force_revert"}, pinfo |-> p,
      hostdev |-> "disk0s1s8", wdt |-> TRUE] :
        p \in {{"rootful", "setup_rootful"},
               {"rootful", "setup_rootful", "setup_partial_root"}}}

(* A device on iOS 16, and a host that may also name the fakefs as on iOS 15. *)
Devs16 == {"disk1s1", "disk1s8", "disk0s1s8"}
Disk0Devs16 == {"disk0s1s8"}

(* Boots of every kind: from the fakefs, cleaning it, setting it up, reverting
   it, and rootless; of a fakefs that may be there and of one that never is. *)
BootRequests16 ==
    [info : {{"bind_mount"}, {"bind_mount", "force_revert"}},
     pinfo : {{}, {"rootful"}, {"rootful", "clean_fakefs"}, {"rootful", "setup_rootful"},
              {"rootful", "setup_rootful", "setup_partial_root"}},
     hostdev : {"disk1s8", "disk0s1s8"}, wdt : {TRUE}]
=============================================================================
