------------------------------ MODULE Certificate ------------------------------
(***************************************************************************)
(* The certificate of one TLS node: the files of certificate, key and ACME *)
(* account, and those who write them - requestCert when the controller     *)
(* starts, and the executions of the renewal task (node/cert.go,           *)
(* node/lego.go).                                                          *)
(*                                                                         *)
(* An issue of certificate and key is a number, used again when neither    *)
(* file nor writer has that issue any more.  A file is written by          *)
(* truncating and then filling it; no step is taken back when a later one  *)
(* fails, and nothing is written under another name first.  Two fillings   *)
(* of one file leave the later's content.  The ACME server, the core that  *)
(* reads the files and the service manager are external.                   *)
(***************************************************************************)
EXTENDS Integers, FiniteSets

CONSTANT Renewals    \* executions of the renewal task that may be in flight at once

\* One execution a day is begun, and a process begins finitely many.
ASSUME RenewalsAssumption == IsFiniteSet(Renewals)

VARIABLES
    acme,      \* the mode is "dns" or "http", not "self"
    account,   \* content of the account file: Absent, Torn or Valid
    certFile,  \* content of CertFile: Absent, Torn or an issue
    keyFile,   \* content of KeyFile, likewise
    aged,      \* the certificate on disk expires within 30 days
    job,       \* the writers: requestCert and the executions of renewCertTask
    spoiled    \* history: the last writer of the pair died or failed on its way, or wrote
               \* beside another one

certVars == <<acme, account, certFile, keyFile, aged, job, spoiled>>
fileVars == <<account, certFile, keyFile>>

Absent == 0
Torn == -1
Valid == 1

\* requestCert runs in Controller.Start, at most once at a time.
Request == "request"
Writers == {Request} \cup Renewals

\* Enough for each file and each writer.
Issues == 1..(Cardinality(Writers) + 2)
Content == {Absent, Torn} \cup Issues

\* The places of a writer: where it is in NewLego (account, register, save), RenewCert
\* (check) or CreateCert (obtain) and writeCert or generateSelfSslCertificate (the rest).
Writing == {"cert", "fillcert", "key", "fillkey"}
JobPlaces == {"none", "account", "register", "save", "check", "obtain"} \cup Writing

CertTypeOK ==
    /\ acme \in BOOLEAN /\ spoiled \in BOOLEAN
    /\ account \in {Absent, Torn, Valid}
    /\ certFile \in Content /\ keyFile \in Content
    /\ aged \in BOOLEAN
    /\ job \in [Writers -> [pc : JobPlaces, issue : {0} \cup Issues, alone : BOOLEAN]]

NoJob == [pc |-> "none", issue |-> 0, alone |-> FALSE]

CertInit ==
    /\ acme \in BOOLEAN
    /\ account = Absent /\ certFile = Absent /\ keyFile = Absent
    /\ aged = FALSE
    /\ job = [w \in Writers |-> NoJob]
    /\ spoiled = FALSE

Goto(w, pc) == job' = [job EXCEPT ![w].pc = pc]

-----------------------------------------------------------------------------
\* Seeded fault: one of the two files is enough.
Bug_HavePair == certFile # Absent \/ keyFile # Absent

HavePair == certFile # Absent /\ keyFile # Absent

\* requestCert, when a file is missing.
BeginRequest ==
    /\ ~HavePair /\ job[Request].pc = "none"
    /\ Goto(Request, IF acme THEN "account" ELSE "obtain")
    /\ UNCHANGED <<acme, fileVars, aged, spoiled>>

\* renewCertTask, in a goroutine of its own.
BeginRenewal(w) ==
    /\ acme /\ w # Request /\ job[w].pc = "none"
    /\ Goto(w, "account")
    /\ UNCHANGED <<acme, fileVars, aged, spoiled>>

\* A writer gives up; what it has written stays.
Fail(w) ==
    /\ job[w].pc # "none"
    /\ job' = [job EXCEPT ![w] = NoJob]
    /\ spoiled' = (spoiled \/ job[w].pc \in Writing)
    /\ UNCHANGED <<acme, fileVars, aged>>

\* Seeded fault: a saved account is of no use.
Bug_LoadUser(w) ==
    /\ job[w].pc = "account" /\ account = Absent
    /\ Goto(w, "register")
    /\ UNCHANGED <<acme, fileVars, aged, spoiled>>

\* NewLegoUser: an account that is there is loaded, an absent one is to be registered.
\* (The e-mail address in the configuration stays the account's.)
LoadUser(w) ==
    /\ job[w].pc = "account" /\ account # Torn
    /\ Goto(w, IF account = Absent THEN "register"
               ELSE IF w = Request THEN "obtain" ELSE "check")
    /\ UNCHANGED <<acme, fileVars, aged, spoiled>>

\* ... and a torn one is an error, this time and every time.
LoadTorn(w) == job[w].pc = "account" /\ account = Torn /\ Fail(w)

\* registerUser: over the network, then User.Save truncates the file, whoever else has
\* registered and saved an account in the meantime ...
RegisterUser(w) ==
    /\ job[w].pc = "register"
    /\ account' = Torn /\ Goto(w, "save")
    /\ UNCHANGED <<acme, certFile, keyFile, aged, spoiled>>

\* ... and fills it.
SaveUser(w) ==
    /\ job[w].pc = "save"
    /\ account' = Valid
    /\ Goto(w, IF w = Request THEN "obtain" ELSE "check")
    /\ UNCHANGED <<acme, certFile, keyFile, aged, spoiled>>

\* RenewCert and CheckCert: a file that cannot be read or parsed, or a certificate that is
\* good for more than 30 days, ends the execution.
CheckCert(w) ==
    /\ job[w].pc = "check"
    /\ job' = [job EXCEPT ![w] = IF certFile \in Issues /\ aged THEN [@ EXCEPT !.pc = "obtain"]
                                                         ELSE NoJob]
    /\ UNCHANGED <<acme, fileVars, aged, spoiled>>

NewIssue ==
    CHOOSE i \in Issues : i \notin {certFile, keyFile} \cup {job[w].issue : w \in Writers}

\* Obtain, Renew, or a self-signed pair.
Obtain(w) ==
    /\ job[w].pc = "obtain"
    /\ LET others == {v \in Writers : job[v].pc \in Writing}
       IN  job' = [v \in Writers |->
                     IF v = w THEN [pc |-> "cert", issue |-> NewIssue, alone |-> others = {}]
                     ELSE [job[v] EXCEPT !.alone = FALSE]]
    /\ UNCHANGED <<acme, fileVars, aged, spoiled>>

\* os.WriteFile of CertFile: truncate, then fill.
TruncateCert(w) ==
    /\ job[w].pc = "cert"
    /\ certFile' = Torn /\ Goto(w, "fillcert")
    /\ UNCHANGED <<acme, account, keyFile, aged, spoiled>>

FillCert(w) ==
    /\ job[w].pc = "fillcert"
    /\ certFile' = job[w].issue /\ aged' = FALSE /\ Goto(w, "key")
    /\ UNCHANGED <<acme, account, keyFile, spoiled>>

\* Seeded fault: the key of a renewal is not written.
Bug_TruncateKey(w) ==
    /\ job[w].pc = "key"
    /\ IF w = Request THEN keyFile' = Torn /\ Goto(w, "fillkey")
                      ELSE job' = [job EXCEPT ![w] = NoJob] /\ UNCHANGED keyFile
    /\ UNCHANGED <<acme, account, certFile, aged, spoiled>>

\* os.WriteFile of KeyFile.
TruncateKey(w) ==
    /\ job[w].pc = "key"
    /\ keyFile' = Torn /\ Goto(w, "fillkey")
    /\ UNCHANGED <<acme, account, certFile, aged, spoiled>>

FillKey(w) ==
    /\ job[w].pc = "fillkey"
    /\ keyFile' = job[w].issue
    /\ job' = [job EXCEPT ![w] = NoJob]
    /\ spoiled' = ~job[w].alone
    /\ UNCHANGED <<acme, account, certFile, aged>>

\* Time passes (external).
Ageing ==
    /\ certFile \in Issues /\ aged' = TRUE
    /\ UNCHANGED <<acme, fileVars, job, spoiled>>

\* The process ends, and every writer in it.
Die ==
    /\ job' = [w \in Writers |-> NoJob]
    /\ spoiled' = (spoiled \/ \E w \in Writers : job[w].pc \in Writing)
    /\ UNCHANGED <<acme, fileVars, aged>>

WriterStep(w) ==
    \/ LoadUser(w) \/ RegisterUser(w) \/ SaveUser(w) \/ CheckCert(w) \/ Obtain(w)
    \/ TruncateCert(w) \/ FillCert(w) \/ TruncateKey(w) \/ FillKey(w)

-----------------------------------------------------------------------------
(* Properties. *)

\* Certificate and key are of the same issue whenever nobody writes them, unless the last
\* writer was ended by a crash or an error, or was a renewal beside one that outlived its
\* controller: nothing repairs the pair then but a later renewal (writeCert).
PairKept ==
    (\A w \in Writers : job[w].pc \notin Writing) /\ ~spoiled => certFile = keyFile

=============================================================================
