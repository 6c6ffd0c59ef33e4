----------------------------- MODULE MasterCycle -----------------------------
(***************************************************************************)
(* The master process: it forks the workers with signals blocked, then     *)
(* lives in sigsuspend() and learns from SIGCHLD that workers have died    *)
(* (linux_c++_6_4/nginx/proc/ngx_process_cycle.cxx, signal/ngx_signal.cxx).*)
(* A pending SIGCHLD is one bit: workers that die while it is set, or      *)
(* while the master forks, sleeps or handles it, send nothing more.  A     *)
(* worker that dies is not replaced.  The names leave room for those of    *)
(* Server, which is one of the workers.                                    *)
(***************************************************************************)
EXTENDS Integers

CONSTANT WorkerProcesses   (* from the configuration *)
ASSUME WorkersAssumption == WorkerProcesses \in Nat

Workers == 0 .. WorkerProcesses - 1

VARIABLES
  forked,    (* i of the loop: the worker to fork next                      *)
  worker,    (* "none" | "running" | "zombie" | "reaped"                    *)
  sigchld,   (* SIGCHLD has been sent to the master and not been handled    *)
  mpc        (* the master: "fork", "suspend", "waitpid", "sleep"           *)

masterVars == <<forked, worker, sigchld, mpc>>

MasterInit == /\ forked = 0
              /\ worker = [w \in Workers |-> "none"]
              /\ sigchld = FALSE
              /\ mpc = "fork"

(* ngx_spawn_process(); fork() may fail, the loop goes on *)
Spawn == /\ mpc = "fork" /\ forked < WorkerProcesses
         /\ forked' = forked + 1
         /\ \E state \in {"none", "running"} :
              worker' = [worker EXCEPT ![forked] = state]
         /\ UNCHANGED <<sigchld, mpc>>

AllSpawned == /\ mpc = "fork" /\ forked = WorkerProcesses
              /\ mpc' = "suspend"
              /\ UNCHANGED <<forked, worker, sigchld>>

(* a worker exits or is killed; the kernel tells the master *)
Die(w) == /\ worker[w] = "running"
          /\ worker' = [worker EXCEPT ![w] = "zombie"]
          /\ sigchld' = TRUE
          /\ UNCHANGED <<forked, mpc>>

(* sigsuspend() unblocks: ngx_signal_handler() runs *)
HandleChild == /\ mpc = "suspend" /\ sigchld
               /\ sigchld' = FALSE
               /\ mpc' = "waitpid"
               /\ UNCHANGED <<forked, worker>>

(* another of the signals: the handler only logs it *)
HandleOther == /\ mpc = "suspend"
               /\ mpc' = "sleep"
               /\ UNCHANGED <<forked, worker, sigchld>>

(* mutant: one waitpid() per signal *)
ReapOnce == /\ mpc = "waitpid"
            /\ \E w \in Workers :
                 /\ worker[w] = "zombie"
                 /\ worker' = [worker EXCEPT ![w] = "reaped"]
            /\ mpc' = "sleep"
            /\ UNCHANGED <<forked, sigchld>>

(* ngx_process_get_status(): waitpid() until it returns 0 or ECHILD *)
Reap == /\ mpc = "waitpid"
        /\ \E w \in Workers :
             /\ worker[w] = "zombie"
             /\ worker' = [worker EXCEPT ![w] = "reaped"]
        /\ UNCHANGED <<forked, sigchld, mpc>>

NoneLeft == /\ mpc = "waitpid"
            /\ \A w \in Workers : worker[w] # "zombie"
            /\ mpc' = "sleep"
            /\ UNCHANGED <<forked, worker, sigchld>>

(* sleep(1), with the signals blocked again *)
Sleep == /\ mpc = "sleep"
         /\ mpc' = "suspend"
         /\ UNCHANGED <<forked, worker, sigchld>>

ngx_master_process_cycle == \/ Spawn \/ AllSpawned \/ HandleChild \/ Reap
                            \/ NoneLeft \/ Sleep

MasterNext == \/ ngx_master_process_cycle \/ HandleOther
              \/ \E w \in Workers : Die(w)

MasterSpec == MasterInit /\ [][MasterNext]_masterVars

(* The master is scheduled.  sigsuspend() with an empty mask delivers what *)
(* is pending, so SIGCHLD is not passed over for ever for other signals.   *)
FairMasterSpec == /\ MasterSpec
                  /\ WF_masterVars(ngx_master_process_cycle)
                  /\ SF_masterVars(HandleChild)
-----------------------------------------------------------------------------
MasterTypeOK ==
  /\ forked \in 0 .. WorkerProcesses
  /\ worker \in [Workers -> {"none", "running", "zombie", "reaped"}]
  /\ sigchld \in BOOLEAN
  /\ mpc \in {"fork", "suspend", "waitpid", "sleep"}

(* A dead worker is never overlooked: as long as there is one, SIGCHLD is  *)
(* pending or the master is still asking waitpid().                        *)
ZombieNoticed ==
  (\E w \in Workers : worker[w] = "zombie") => sigchld \/ mpc = "waitpid"

(* Every worker that dies is reaped ("so that a killed child does not      *)
(* become a zombie", signal/ngx_signal.cxx:162).                           *)
EveryDeadWorkerReaped ==
  \A w \in Workers : (worker[w] = "zombie") ~> (worker[w] = "reaped")

=============================================================================
