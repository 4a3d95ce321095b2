------------------------------ MODULE LunarLoader ------------------------------
(***************************************************************************)
(* The life of the scheduler as a whole: the service manager starts the    *)
(* loader, the loader reads the topology, loads and attaches the           *)
(* scheduler and polls for its end, the kernel runs it, ejects it and      *)
(* reports why, and is asked again after a cpu hotplug.  Hotplug, stop     *)
(* requests, failures and a killed loader come at any time.                *)
(***************************************************************************)
EXTENDS LunarTopology, LunarCompat

CONSTANTS
  Machines,          \* the machines to start on, see Init
  StartLimitBurst,   \* of lunar.service
  MaxHotplug         \* bound on the number of hotplug events

\* A machine boots with some of its cpus, and some may go off and on.  Its kernel
\* has each function in one variant at least; where the low half of a value is
\* all it shows, the build is trusted for the high one.
ASSUME LoaderAssumption ==
  /\ StartLimitBurst \in Nat \ {0} /\ MaxHotplug \in Nat
  /\ \A m \in Machines :
       /\ m.boots \subseteq m.cpus /\ m.hotplug \subseteq m.cpus /\ m.cpus # {}
       /\ Max(m.cpus) \in Nat /\ m.cpus \subseteq 0 .. Max(m.cpus)
       /\ \A n \in DOMAIN m.os.val : m.os.val[n] \in Nat
       /\ m.os.kind = "truncated" =>
            \A n \in DOMAIN m.os.val \cap DOMAIN AbiVals :
              m.os.val[n] \div U32 = AbiVals[n] \div U32
       /\ \A variants \in {{"dsq_move_to_local_v2", "dsq_move_to_local_v1", "consume"},
                           {"dsq_insert_v2", "dsq_insert_v1", "dispatch"},
                           {"cpu_curr", "cpu_rq"}} :
            variants \cap m.os.kfuncs # {}

VARIABLES
  machine, online,   \* what the machine is, the cpus that are online
  leaving, coming,   \* the cpu that is on its way off or on, a set
  hotplug_seq,       \* the kernel's count of hotplug events
  kernel,            \* where the kernel is with the scheduler
  ecode,             \* why it ejected it
  uei,               \* user_exit_info of the loader's skeleton
  attached,          \* whether the kernel's scheduler is the living loader's
  pc,                \* where the loader is; "gone": there is no process
  stop,              \* the loader's flag
  skel,              \* the skeleton: enum values, hotplug_seq and the topology
  result,            \* of run_once
  unit, starts,      \* lunar.service: its state and how often it was started
  early,             \* history: hotplug_seq was read while a cpu was leaving
  fault              \* history: something went wrong that is not a hotplug

vars == <<machine, online, leaving, coming, hotplug_seq, kernel, ecode, uei, attached, pc, stop,
          skel, result, unit, starts, early, fault>>

world == <<machine, online, leaving, coming, hotplug_seq>>
kern  == <<kernel, ecode, attached>>
serv  == <<unit, starts>>

NoTopology == [nr_cpu_ids |-> 0, nr_llcs |-> 0, cpu_online |-> <<>>, cpu_to_llc |-> <<>>]

NoSkel == [enums |-> [n \in EnumNames |-> 0], hotplug_seq |-> 0, online |-> <<>>,
           possible |-> {}, dirs |-> <<>>, topology |-> NoTopology]

NoExit == [kind |-> FALSE, exit_code |-> "none"]

Init ==
  /\ machine \in Machines
  /\ online = machine.boots /\ leaving = {} /\ coming = {}
  /\ hotplug_seq = 1          \* the cpus brought up at boot have been counted
  /\ kernel = "default" /\ ecode = "none" /\ attached = FALSE
  /\ uei = NoExit
  /\ pc = "open" /\ stop = FALSE /\ skel = NoSkel /\ result = "none"
  /\ unit = "active" /\ starts = 1
  /\ early = FALSE /\ fault = FALSE

-----------------------------------------------------------------------------
(* run_once                                                                *)

Goto(l) == pc' = l

Fault == fault' = TRUE

\* run_once returns r after it has destroyed the skeleton.
Return(r) == result' = r /\ Goto("destroy")

\* Variant: the topology first, then the number of hotplug events.
OpenOrder_SeqLast == <<"online", "possible", "cpus", "hotplug_seq", "setup">>

\* What is read, in this order.
OpenOrder == <<"hotplug_seq", "online", "possible", "cpus", "setup">>

\* lunar_bpf__open and SCX_ENUM_INIT.
Open ==
  /\ pc = "open"
  /\ uei' = NoExit
  /\ skel' = [NoSkel EXCEPT !.enums = SCX_ENUM_INIT(machine.os)]
  /\ \/ Goto(OpenOrder[1]) /\ result' = "none" /\ UNCHANGED fault
     \/ Goto("main") /\ result' = "Failed" /\ Fault
  /\ UNCHANGED <<world, kern, stop, serv, early>>

After(l) == OpenOrder[(CHOOSE i \in DOMAIN OpenOrder : OpenOrder[i] = l) + 1]

scx_hotplug_seq ==
  /\ pc = "hotplug_seq"
  /\ skel' = [skel EXCEPT !.hotplug_seq = hotplug_seq]
  /\ early' = (leaving # {})
  /\ Goto(After(pc))
  /\ UNCHANGED <<world, kern, uei, stop, result, serv, fault>>

\* read_topology, file by file: the online cpus, without which it fails,
ReadOnline ==
  /\ pc = "online"
  /\ \/ /\ skel' = [skel EXCEPT !.online = parse_cpulist(CpuList(online))]
        /\ Goto(After(pc))
        /\ UNCHANGED <<result, fault>>
     \/ Return("Failed") /\ Fault /\ UNCHANGED skel
  /\ UNCHANGED <<world, kern, uei, stop, serv, early>>

\* the possible cpus, which may be unreadable,
ReadPossible ==
  /\ pc = "possible"
  /\ \E p \in {{}, {parse_cpulist(CpuList(machine.cpus))}} :
       skel' = [skel EXCEPT !.possible = p]
  /\ Goto(After(pc))
  /\ UNCHANGED <<world, kern, uei, stop, result, serv, early, fault>>

\* and the directory of each cpu that was online.  That of a cpu which is on its
\* way, and what the others say of it, may be there or not.
ReadCpu ==
  LET todo == ToSet(skel.online) \ DOMAIN skel.dirs IN
  /\ pc = "cpus"
  /\ \/ /\ todo # {}
        /\ \E gone \in SUBSET (leaving \cup coming) :
             LET c == Min(todo) IN
             skel' = [skel EXCEPT !.dirs = [d \in DOMAIN @ \cup {c} |->
                        IF d = c THEN CpuDir(machine, online \ gone, c) ELSE @[d]]]
        /\ UNCHANGED pc
     \/ /\ todo = {}
        /\ Goto(After(pc))
        /\ UNCHANGED skel
  /\ UNCHANGED <<world, kern, uei, stop, result, serv, early, fault>>

setup_lunar_topology ==
  LET topo == read_topology(skel.online, skel.possible, skel.dirs) IN
  /\ pc = "setup"
  /\ \/ /\ fits_rodata(topo)
        /\ skel' = [skel EXCEPT !.online = <<>>, !.possible = {}, !.dirs = <<>>, !.topology = topo]
        /\ Goto("load")
        /\ UNCHANGED <<result, fault>>
     \/ /\ ~ fits_rodata(topo)
        /\ Return("Failed") /\ Fault
        /\ UNCHANGED skel
  /\ UNCHANGED <<world, kern, uei, stop, serv, early>>

\* lunar_bpf__load, which may fail.
Load ==
  /\ pc = "load"
  /\ \/ Goto("attach") /\ UNCHANGED <<result, fault>>
     \/ Return("Failed") /\ Fault
  /\ UNCHANGED <<world, kern, uei, stop, skel, serv, early>>

\* The kernel enables the scheduler: it runs lunar_init and compares the number
\* of hotplug events.  If either is wrong the attachment succeeds all the same,
\* and the scheduler is ejected.  No hotplug is under way meanwhile.
Enable ==
  LET nr == Max(machine.cpus) + 1
      changed == skel.hotplug_seq # hotplug_seq
  IN
  /\ kernel = "default" /\ leaving \cup coming = {}
  /\ attached' = TRUE
  /\ kernel' = IF lunar_init(nr) /\ ~ changed THEN "lunar" ELSE "disabling"
  /\ ecode' = IF ~ lunar_init(nr) THEN "error" ELSE IF changed THEN "restart" ELSE "none"

\* lunar_bpf__attach, which may fail.
Attach ==
  /\ pc = "attach"
  /\ \/ /\ Enable
        /\ Goto("poll")
        /\ fault' = (fault \/ ecode' = "error")
        /\ UNCHANGED result
     \/ /\ Return("Failed") /\ Fault
        /\ UNCHANGED kern
  /\ UNCHANGED <<world, uei, stop, skel, serv, early>>

UEI_ECODE_RESTART(code) == code = "restart"

\* Variant: only an ejected scheduler ends the loop.
PollEnds_Ejected == uei.kind

\* The loop that waits for the end is left.
PollEnds == stop \/ uei.kind

\* A round of the loop.
Poll ==
  /\ pc = "poll"
  /\ \/ PollEnds /\ ~ stop /\ Goto("report") /\ UNCHANGED result
     \/ PollEnds /\ stop /\ Return("Stopped")
     \/ ~ PollEnds /\ UNCHANGED <<result, pc>>
  /\ UNCHANGED <<world, kern, uei, stop, skel, serv, early, fault>>

\* UEI_REPORT.
Report ==
  /\ pc = "report"
  /\ Return(IF UEI_ECODE_RESTART(uei.exit_code) THEN "Restart" ELSE "Failed")
  /\ UNCHANGED <<world, kern, uei, stop, skel, serv, early, fault>>

\* lunar_bpf__destroy: a scheduler that still runs is unregistered, and the call
\* returns when it is gone.
Destroy ==
  /\ pc = "destroy"
  /\ \/ /\ kernel = "lunar" /\ attached
        /\ kernel' = "disabling" /\ ecode' = "unregistered"
        /\ UNCHANGED <<attached, pc>>
     \/ /\ kernel = "default" \/ ~ attached
        /\ Goto("main")
        /\ attached' = FALSE
        /\ UNCHANGED <<kernel, ecode>>
  /\ UNCHANGED <<world, uei, stop, skel, result, serv, early, fault>>

\* Variant: run_once is not called again.
Restarts_Never == FALSE

Restarts == result = "Restart" /\ ~ stop

\* main: once more, or the end of the process.
Main ==
  /\ pc = "main"
  /\ Goto(IF Restarts THEN "open" ELSE "exit")
  /\ skel' = NoSkel /\ early' = FALSE
  /\ UNCHANGED <<world, kern, uei, stop, result, serv, fault>>

\* sig_handler.
Signal ==
  /\ pc # "gone" /\ ~ stop
  /\ stop' = TRUE
  /\ UNCHANGED <<world, kern, uei, pc, skel, result, serv, early, fault>>

\* The exit status of the process.
Succeeds == result # "Failed"

-----------------------------------------------------------------------------
(* The kernel                                                              *)

\* Variant: the kind is stored before the code.
UEI_RECORD_KindFirst(u, code, step) ==
  IF step = 1 THEN [u EXCEPT !.kind = TRUE] ELSE [u EXCEPT !.exit_code = code]

\* lunar_exit: the code is stored before the kind, which the loader polls.
UEI_RECORD(u, code, step) ==
  IF step = 1 THEN [u EXCEPT !.exit_code = code] ELSE [u EXCEPT !.kind = TRUE]

\* All tasks go back to the default scheduler.
Disable ==
  /\ kernel = "disabling"
  /\ kernel' = "exit"
  /\ UNCHANGED <<world, ecode, uei, attached, pc, stop, skel, result, serv, early, fault>>

\* lunar_exit, in two steps; then the scheduler is gone.
Exit ==
  /\ \/ /\ kernel = "exit"
        /\ kernel' = "exiting" /\ UNCHANGED ecode
        /\ uei' = IF attached THEN UEI_RECORD(uei, ecode, 1) ELSE uei
     \/ /\ kernel = "exiting"
        /\ kernel' = "default" /\ UNCHANGED ecode
        /\ uei' = IF attached THEN UEI_RECORD(uei, ecode, 2) ELSE uei
  /\ UNCHANGED <<world, attached, pc, stop, skel, result, serv, early, fault>>

\* A hotplug is counted, and a scheduler that runs is ejected.
handle_hotplug ==
  /\ hotplug_seq' = hotplug_seq + 1
  /\ kernel' = IF kernel = "lunar" THEN "disabling" ELSE kernel
  /\ ecode' = IF kernel = "lunar" THEN "restart" ELSE ecode

\* A cpu that goes offline is counted first and then taken from the online cpus;
\* one that comes online is put among them first and then counted.
HotplugBegins ==
  /\ hotplug_seq <= MaxHotplug /\ leaving \cup coming = {}
  /\ \E c \in machine.hotplug :
       \/ c \in online /\ leaving' = {c} /\ handle_hotplug /\ UNCHANGED <<online, coming>>
       \/ /\ c \notin online /\ coming' = {c} /\ online' = online \cup {c}
          /\ UNCHANGED <<leaving, hotplug_seq, kernel, ecode>>
  /\ UNCHANGED <<machine, attached, uei, pc, stop, skel, result, serv, early, fault>>

HotplugEnds ==
  /\ \/ /\ leaving # {} /\ online' = online \ leaving
        /\ UNCHANGED <<hotplug_seq, kernel, ecode>>
     \/ coming # {} /\ handle_hotplug /\ UNCHANGED online
  /\ leaving' = {} /\ coming' = {}
  /\ UNCHANGED <<machine, attached, uei, pc, stop, skel, result, serv, early, fault>>

\* The kernel ejects the scheduler for an error, say a task that was not run.
Eject ==
  /\ kernel = "lunar"
  /\ kernel' = "disabling" /\ ecode' = "error"
  /\ Fault
  /\ UNCHANGED <<world, attached, uei, pc, stop, skel, result, serv, early>>

-----------------------------------------------------------------------------
(* lunar.service                                                           *)

\* The process ends by itself or is killed; the kernel lets go of its scheduler.
Ends(success) ==
  /\ pc' = "gone"
  /\ attached' = FALSE
  /\ kernel' = IF attached /\ kernel = "lunar" THEN "disabling" ELSE kernel
  /\ ecode' = IF attached /\ kernel = "lunar" THEN "unregistered" ELSE ecode
  /\ unit' = IF success \/ unit = "stopping" THEN "inactive"
             ELSE IF starts < StartLimitBurst THEN "restarting" ELSE "failed"
  /\ skel' = NoSkel /\ early' = FALSE /\ uei' = NoExit
  /\ UNCHANGED <<world, stop, result, starts>>

ProcessEnds == pc = "exit" /\ Ends(Succeeds) /\ UNCHANGED fault

\* SIGKILL, or SCX_BUG_ON in scx_hotplug_seq.
Killed == pc # "gone" /\ Ends(FALSE) /\ Fault

\* Restart=on-failure.
ServiceRestarts ==
  /\ unit = "restarting"
  /\ unit' = "active" /\ starts' = starts + 1
  /\ pc' = "open" /\ stop' = FALSE /\ result' = "none"
  /\ UNCHANGED <<world, kern, uei, skel, early, fault>>

\* systemctl stop.
ServiceStop ==
  /\ \/ unit = "active" /\ unit' = "stopping" /\ stop' = TRUE
     \/ unit = "restarting" /\ unit' = "inactive" /\ UNCHANGED stop
  /\ UNCHANGED <<world, kern, uei, pc, skel, result, starts, early, fault>>

-----------------------------------------------------------------------------

Loader ==
  \/ Open \/ scx_hotplug_seq \/ ReadOnline \/ ReadPossible \/ ReadCpu
  \/ setup_lunar_topology \/ Load \/ Attach \/ Poll \/ Report \/ Destroy \/ Main
  \/ ProcessEnds

Kernel == Disable \/ Exit \/ HotplugEnds

\* The service has ended: nothing is left to do.
Over ==
  /\ unit \in {"inactive", "failed"} /\ kernel = "default" /\ pc = "gone"
  /\ UNCHANGED vars

Next ==
  \/ Loader \/ Kernel \/ ServiceRestarts
  \/ Signal \/ ServiceStop \/ Killed \/ HotplugBegins \/ Eject \/ Over

\* The process and the kernel's work are scheduled, the manager starts the
\* service again after RestartSec.
Fairness == WF_vars(Loader) /\ WF_vars(Kernel) /\ WF_vars(ServiceRestarts)

Spec == Init /\ [][Next]_vars /\ Fairness

-----------------------------------------------------------------------------
(* Properties                                                              *)

\* Every variable has its type, and the arrays of the loaded program hold the
\* topology that was written to them.
TypeOK ==
  /\ online \subseteq machine.cpus /\ leaving \subseteq online /\ coming \subseteq online
  /\ kernel \in {"default", "lunar", "disabling", "exit", "exiting"}
  /\ ecode \in {"none", "restart", "error", "unregistered"}
  /\ uei.kind \in BOOLEAN
  /\ pc \in ToSet(OpenOrder) \cup
       {"open", "load", "attach", "poll", "report", "destroy", "main", "exit", "gone"}
  /\ result \in {"none", "Stopped", "Restart", "Failed"}
  /\ unit \in {"active", "stopping", "restarting", "inactive", "failed"}
  /\ starts \in 1 .. StartLimitBurst
  /\ DOMAIN skel.topology.cpu_to_llc \subseteq 0 .. MAX_CPUS - 1

\* Whether two online cpus have their last cache in common.
ShareLlc(c, d) ==
  LET level(x) == IF machine.cache[3][x] # {} THEN 3
                  ELSE IF machine.cache[2][x] # {} THEN 2 ELSE 0
  IN /\ machine.package[c] = machine.package[d]
     /\ level(c) = level(d)
     /\ level(c) # 0 => machine.cache[level(c)][c] = machine.cache[level(d)][d]

\* The scheduler never runs with a topology that is out of date or was torn by a
\* hotplug while it was read, unless the count of hotplug events was read while a
\* cpu was on its way off: its cpus are the online ones (one that is on its way on
\* will be counted), two of them have the same LLC number exactly if they share a
\* cache, and the numbers are dense.  (cpu_online and cpu_to_llc are constants of
\* the loaded program.)
TopologyCurrent ==
  kernel = "lunar" /\ attached /\ ~ early =>
    LET t == skel.topology
        up == online \ coming
    IN
    /\ {c \in DOMAIN t.cpu_online : t.cpu_online[c]} = up
    /\ \A c, d \in up : t.cpu_to_llc[c] = t.cpu_to_llc[d] <=> ShareLlc(c, d)
    /\ {t.cpu_to_llc[c] : c \in up} = 0 .. t.nr_llcs - 1

\* No cpu is taken for online that is not.  Not an invariant: see early.
OnlineCurrent ==
  kernel = "lunar" /\ attached =>
    \A c \in DOMAIN skel.topology.cpu_online : skel.topology.cpu_online[c] => c \in online

\* The numbers of the queues: lunar_init, which asks for one queue after another,
\* is refused one exactly on a kernel with more cpus than the arrays of the
\* program have room for.  This is what stops the scheduler there if the list of
\* possible cpus could not be read, and it never stops it elsewhere.
QueuesFit ==
  [][attached' /\ ~ attached => (ecode' = "error" <=> Max(machine.cpus) >= MAX_CPUS)]_vars

\* The scheduler knows the kernel it runs on: it has the true value of an
\* enumerator, or 0 where there is none to be had, and never a value that was cut
\* in half (__COMPAT_read_enum); and it calls only functions which that kernel
\* has and which may be called from where it does (the wrappers of compat.bpf.h).
FitsKernel ==
  kernel = "lunar" /\ attached =>
    LET os == machine.os IN
    /\ \A n \in EnumNames :
         \/ n \in DOMAIN os.val /\ skel.enums[n] = os.val[n]
         \/ /\ skel.enums[n] = 0
            /\ n \notin DOMAIN os.val \cap DOMAIN AbiVals \/ os.kind = "none"
                 \/ AbiVals[n] # os.val[n]
    /\ Called(os) \ {"store", "nothing"} \subseteq os.kfuncs \ {"reenqueue_local_v1"}

\* What the loader makes of the end of the scheduler is what the kernel said: a
\* hotplug is never taken for a failure, nor a failure for a hotplug.
EndUnderstood ==
  pc = "destroy" /\ attached /\ result \in {"Restart", "Failed"} =>
    (result = "Restart" <=> ecode = "restart")

\* After systemctl stop the service ends and the default scheduler is back.
StopRestoresDefault ==
  unit = "stopping" ~> (unit = "inactive" /\ kernel = "default")

\* Hotplug alone never ends the service: as long as nobody stops it and nothing
\* fails, the scheduler is back after every hotplug.
Recovers ==
  []<>(kernel = "lunar" \/ stop \/ fault)

===============================================================================
