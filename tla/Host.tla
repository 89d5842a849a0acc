--------------------------------- MODULE Host ---------------------------------
(***************************************************************************)
(* The process (Server) with the certificate files of one of its nodes     *)
(* (Certificate), and the service manager that starts the process again.   *)
(*                                                                         *)
(* Controller.Start asks for a certificate before it adds the inbound and  *)
(* starts the renewal task at its end; Controller.Close stops the task but *)
(* not an execution in flight.  When the process goes down, by an error,   *)
(* a signal or a crash, its memory is lost and the files stay as they are. *)
(***************************************************************************)
EXTENDS Server, Certificate

CONSTANTS
    CertTag,     \* the node whose panel configuration asks for TLS
    MaxCrashes   \* bound: crashes

ASSUME CrashesAssumption == MaxCrashes \in Nat

VARIABLES
    ready,    \* requestCert has returned for the node that is being started
    renewal,  \* the execution that belongs to the running renewal task, or "none"
    crashes

hostVars == <<ready, renewal, crashes>>
allVars == <<vars, certVars, hostVars>>

\* With the types: the renewal task runs while its controller's tasks run.
HostTypeOK ==
    /\ TypeOK /\ CertTypeOK
    /\ ready \in BOOLEAN
    /\ renewal \in Renewals \cup {"none"}
    /\ renewal # "none" => CertTag \in running
    /\ crashes \in 0..MaxCrashes

HostInit == Init /\ CertInit /\ ready = FALSE /\ renewal = "none" /\ crashes = 0

\* The event loop is in Controller.Start of the node, before AddNode.
Certifying == loop = "node" /\ Tag = CertTag /\ ~ready

-----------------------------------------------------------------------------
\* requestCert returns at once when both files are there, or when it has written them.
CertReady ==
    /\ Certifying /\ HavePair /\ job[Request].pc = "none"
    /\ ready' = TRUE
    /\ UNCHANGED <<vars, certVars, renewal, crashes>>

RequestCert ==
    /\ Certifying
    /\ BeginRequest \/ WriterStep(Request)
    /\ UNCHANGED <<vars, hostVars>>

\* requestCert fails, and Controller.Start, and the process.
RequestFails ==
    /\ Certifying
    /\ \/ Fail(Request) /\ Down
       \/ LoadTorn(Request) /\ loop' = "down" /\ UNCHANGED faults
    /\ UNCHANGED <<file, watchVars, exiting, conf, idx, core, nodeVars, missed, hostVars>>

-----------------------------------------------------------------------------
\* Controller.Start's last step starts the renewal task, whose first execution begins at
\* once; only as many executions as Renewals can be in flight (a bound).
StartRenewal ==
    LET idle == {w \in Renewals : job[w].pc = "none"}
    IN  /\ StartTasks /\ Tag = CertTag /\ acme
        /\ IF idle = {} THEN renewal' = "none" /\ UNCHANGED certVars
                        ELSE LET w == CHOOSE w \in idle : TRUE
                             IN  renewal' = w /\ BeginRenewal(w)
        /\ UNCHANGED <<ready, crashes>>

\* Seeded fault: Close forgets the renewal task.
Bug_StopRenewal ==
    /\ CloseTasks /\ Tag = CertTag
    /\ UNCHANGED <<certVars, hostVars>>

\* Controller.Close stops the task, and no execution.
StopRenewal ==
    /\ CloseTasks /\ Tag = CertTag
    /\ renewal' = "none"
    /\ UNCHANGED <<certVars, ready, crashes>>

\* Once a day.
RenewalTick ==
    /\ loop # "down" /\ renewal # "none"
    /\ BeginRenewal(renewal)
    /\ UNCHANGED <<vars, hostVars>>

\* An error ends the execution and is only logged.
RenewalStep(w) ==
    /\ loop # "down"
    /\ WriterStep(w) \/ LoadTorn(w) \/ Fail(w)
    /\ UNCHANGED <<vars, hostVars>>

-----------------------------------------------------------------------------
\* The event loop's steps that have nothing to do with the certificate.
OtherLoopStep ==
    /\ LoopStep /\ ~Certifying
    /\ ~(loop = "tasks" /\ Tag = CertTag /\ acme)
    /\ ~(loop = "closetasks" /\ Tag = CertTag)
    /\ ready' = FALSE
    /\ UNCHANGED <<certVars, renewal, crashes>>

HostLoopStep == CertReady \/ RequestCert \/ StartRenewal \/ StopRenewal \/ OtherLoopStep

OtherStep ==
    /\ ExitSignal \/ WatcherStep \/ Edit
    /\ UNCHANGED <<certVars, hostVars>>

\* The process is killed.
Crash ==
    /\ loop # "down" /\ crashes < MaxCrashes
    /\ loop' = "down" /\ crashes' = crashes + 1
    /\ UNCHANGED <<file, watchVars, exiting, conf, idx, core, nodeVars, faults, missed,
                   certVars, ready, renewal>>

\* The service manager starts it again.
Restart ==
    /\ loop = "down" /\ loop' = "load"
    /\ event' = FALSE /\ watching' = FALSE /\ window' = "open" /\ reloadCh' = 0
    /\ exiting' = FALSE /\ conf' = 0 /\ idx' = 1
    /\ core' = "none" /\ limiters' = {} /\ inbounds' = {} /\ running' = {}
    /\ missed' = FALSE
    /\ Die
    /\ ready' = FALSE /\ renewal' = "none"
    /\ UNCHANGED <<file, faults, crashes>>

HostNext ==
    \/ HostLoopStep \/ RequestFails \/ OtherStep
    \/ RenewalTick \/ (\E w \in Renewals : RenewalStep(w))
    \/ Ageing /\ UNCHANGED <<vars, hostVars>>
    \/ Crash \/ Restart

HostSpec == HostInit /\ [][HostNext]_allVars

\* As FairSpec; and the service manager restarts a process that was not told to exit.
FairHostSpec ==
    /\ HostSpec
    /\ WF_allVars(HostLoopStep \/ RequestFails)
    /\ WF_allVars(WatcherStep /\ UNCHANGED <<certVars, hostVars>>)
    /\ WF_allVars(~exiting /\ Restart)

-----------------------------------------------------------------------------
(* Properties. *)

\* Whatever failed, and whenever the process was killed, it comes back to its event loop,
\* unless it was told to exit or a crash tore the account file: NewLegoUser never gets
\* past that one.
ComesBack == []<>(loop = "select" \/ exiting) \/ <>[](account = Torn)

\* When the inbound is added both files are there, whatever an earlier start that failed
\* or was killed left behind (requestCert); and they fit, but for what PairKept excepts.
PairAtStart ==
    [][loop = "node" /\ Tag = CertTag /\ loop' = "tasks" =>
          /\ certFile # Absent /\ keyFile # Absent
          /\ ~spoiled /\ (\A w \in Writers : job[w].pc \notin Writing)
                => certFile = keyFile]_allVars

=============================================================================
