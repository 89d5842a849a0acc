--------------------------- MODULE CertificateProofs ---------------------------
(***************************************************************************)
(* The certificate and the key that lie on disk belong together, and are   *)
(* there when the inbound is added; and what ServerProofs shows of the     *)
(* process holds through crashes and restarts: proved for the whole        *)
(* process (Host), any number of executions of the renewal, any            *)
(* configurations, failures and crashes.                                   *)
(***************************************************************************)
EXTENDS Host, ServerProofs, FiniteSetTheorems, TLAPS

\* The entries of job are records; what is in them does not matter for the argument.
JobShape ==
    /\ job = [w \in Writers |-> job[w]]
    /\ \A w \in Writers :
          job[w] = [pc |-> job[w].pc, issue |-> job[w].issue, alone |-> job[w].alone]

IsWriting(w) == job[w].pc \in Writing

\* A writer that found nobody writing when its pair came is alone until another pair
\* comes; and what it has put into CertFile is still there.
AloneExact ==
    \A w \in Writers : IsWriting(w) /\ job[w].alone =>
        /\ \A v \in Writers : IsWriting(v) => v = w
        /\ job[w].pc \in {"key", "fillkey"} => certFile = job[w].issue

RenewalKnown == renewal \in Renewals \cup {"none"}

PairInv == JobShape /\ AloneExact /\ PairKept /\ RenewalKnown

-----------------------------------------------------------------------------
\* All that a step of the process does to the files and their writers.
CertStep ==
    \/ BeginRequest \/ Ageing \/ Die
    \/ \E w \in Writers : BeginRenewal(w) \/ Fail(w) \/ WriterStep(w)

LEMMA StepsOnFiles == RenewalKnown /\ [HostNext]_allVars => CertStep \/ UNCHANGED certVars
<1> SUFFICES ASSUME RenewalKnown, [HostNext]_allVars PROVE CertStep \/ UNCHANGED certVars
  OBVIOUS
<1>1. Request \in Writers /\ Renewals \subseteq Writers
  BY DEF Writers
<1>2. CASE HostLoopStep
  <2>1. CASE CertReady
    BY <2>1 DEF CertReady
  <2>2. CASE RequestCert
    BY <1>1, <2>2 DEF RequestCert, CertStep
  <2>3. CASE StartRenewal
    <3>1. PICK idle \in SUBSET Renewals :
             \/ UNCHANGED certVars
             \/ idle # {} /\ BeginRenewal(CHOOSE w \in idle : TRUE)
      BY <2>3 DEF StartRenewal
    <3>2. QED
      BY <1>1, <3>1 DEF CertStep
  <2>4. CASE StopRenewal
    BY <2>4 DEF StopRenewal
  <2>5. CASE OtherLoopStep
    BY <2>5 DEF OtherLoopStep
  <2>6. QED
    BY <1>2, <2>1, <2>2, <2>3, <2>4, <2>5 DEF HostLoopStep
<1>3. CASE RequestFails
  BY <1>1, <1>3 DEF RequestFails, LoadTorn, CertStep
<1>4. CASE OtherStep
  BY <1>4 DEF OtherStep
<1>5. CASE RenewalTick
  BY <1>1, <1>5 DEF RenewalTick, RenewalKnown, CertStep
<1>6. CASE \E w \in Renewals : RenewalStep(w)
  BY <1>1, <1>6 DEF RenewalStep, LoadTorn, CertStep
<1>7. CASE Ageing /\ UNCHANGED <<vars, hostVars>>
  BY <1>7 DEF CertStep
<1>8. CASE Crash
  BY <1>8 DEF Crash
<1>9. CASE Restart
  BY <1>9 DEF Restart, CertStep
<1>10. CASE UNCHANGED allVars
  BY <1>10 DEF allVars
<1>11. QED
  BY <1>2, <1>3, <1>4, <1>5, <1>6, <1>7, <1>8, <1>9, <1>10 DEF HostNext

LEMMA RenewalStays == RenewalKnown /\ [HostNext]_allVars => RenewalKnown'
<1> SUFFICES ASSUME RenewalKnown, [HostNext]_allVars PROVE RenewalKnown'
  OBVIOUS
<1> USE DEF RenewalKnown, hostVars
<1>1. CASE StartRenewal
  <2>1. PICK idle \in SUBSET Renewals :
           renewal' = "none" \/ (idle # {} /\ renewal' = CHOOSE w \in idle : TRUE)
    BY <1>1 DEF StartRenewal
  <2>2. QED
    BY <2>1
<1>2. CASE CertReady \/ RequestCert \/ StopRenewal \/ OtherLoopStep
  BY <1>2 DEF CertReady, RequestCert, StopRenewal, OtherLoopStep
<1>3. CASE RequestFails \/ OtherStep \/ RenewalTick \/ \E w \in Renewals : RenewalStep(w)
  BY <1>3 DEF RequestFails, OtherStep, RenewalTick, RenewalStep
<1>4. CASE (Ageing /\ UNCHANGED <<vars, hostVars>>) \/ Crash \/ Restart
  BY <1>4 DEF Crash, Restart
<1>5. CASE UNCHANGED allVars
  BY <1>5 DEF allVars
<1>6. QED
  BY <1>1, <1>2, <1>3, <1>4, <1>5 DEF HostNext, HostLoopStep

-----------------------------------------------------------------------------
(* One lemma per kind of step. *)

\* A writer goes on to another place, and changes nothing else of its entry.
LEMMA GotoEffect ==
    ASSUME JobShape, NEW w \in Writers, NEW pc, Goto(w, pc)
    PROVE  /\ JobShape'
           /\ job'[w].pc = pc /\ job'[w].issue = job[w].issue /\ job'[w].alone = job[w].alone
           /\ \A v \in Writers \ {w} : job'[v] = job[v]
<1>1. job' = [v \in Writers |-> IF v = w THEN [job[w] EXCEPT !.pc = pc] ELSE job[v]]
  BY DEF JobShape, Goto
<1>2. [job[w] EXCEPT !.pc = pc] = [pc |-> pc, issue |-> job[w].issue, alone |-> job[w].alone]
  BY DEF JobShape
<1>3. job'[w] = [pc |-> pc, issue |-> job[w].issue, alone |-> job[w].alone]
  BY <1>1, <1>2
<1>4. \A v \in Writers \ {w} : job'[v] = job[v]
  BY <1>1
<1>5. QED
  BY <1>1, <1>3, <1>4 DEF JobShape

\* A writer leaves.
LEMMA LeaveEffect ==
    ASSUME JobShape, NEW w \in Writers, job' = [job EXCEPT ![w] = NoJob]
    PROVE  /\ JobShape' /\ job'[w].pc = "none"
           /\ \A v \in Writers \ {w} : job'[v] = job[v]
<1>1. job' = [v \in Writers |-> IF v = w THEN NoJob ELSE job[v]]
  BY DEF JobShape
<1>2. NoJob = [pc |-> NoJob.pc, issue |-> NoJob.issue, alone |-> NoJob.alone]
  BY Zenon DEF NoJob
<1>3. NoJob.pc = "none"
  BY DEF NoJob
<1>4. job'[w] = NoJob /\ \A v \in Writers \ {w} : job'[v] = job[v]
  BY <1>1
<1>5. \A v \in Writers :
         job'[v] = [pc |-> job'[v].pc, issue |-> job'[v].issue, alone |-> job'[v].alone]
  BY <1>2, <1>4 DEF JobShape
<1>6. QED
  BY <1>1, <1>3, <1>4, <1>5 DEF JobShape

\* A writer moves between places in which it writes nothing, or leaves without having
\* written: the files stay.
LEMMA NotWriting ==
    ASSUME PairInv, NEW w \in Writers, NEW pc, pc \notin Writing, Goto(w, pc),
           ~IsWriting(w), UNCHANGED <<certFile, keyFile, spoiled>>
    PROVE  JobShape' /\ AloneExact' /\ PairKept'
<1>1. JobShape
  BY DEF PairInv
<1>2. /\ JobShape' /\ job'[w].pc = pc
      /\ \A v \in Writers \ {w} : job'[v] = job[v]
  BY <1>1, GotoEffect
<1>3. \A v \in Writers : (IsWriting(v)' <=> IsWriting(v)) /\ (IsWriting(v) => job'[v] = job[v])
  BY <1>2 DEF IsWriting
<1>4. AloneExact'
  BY <1>3 DEF PairInv, AloneExact, IsWriting
<1>5. PairKept'
  BY <1>3 DEF PairInv, PairKept, IsWriting
<1>6. QED
  BY <1>2, <1>4, <1>5

LEMMA Leaving ==
    ASSUME PairInv, NEW w \in Writers, job' = [job EXCEPT ![w] = NoJob],
           UNCHANGED <<certFile, keyFile>>,
           IsWriting(w) \/ spoiled => spoiled'
    PROVE  JobShape' /\ AloneExact' /\ PairKept'
<1>1. JobShape
  BY DEF PairInv
<1>2. /\ JobShape' /\ job'[w].pc = "none"
      /\ \A v \in Writers \ {w} : job'[v] = job[v]
  BY <1>1, LeaveEffect
<1>3. \A v \in Writers : IsWriting(v)' => IsWriting(v) /\ v # w /\ job'[v] = job[v]
  BY <1>2 DEF IsWriting, Writing
<1>4. AloneExact'
  BY <1>3 DEF PairInv, AloneExact, IsWriting
<1>5. PairKept'
  <2>1. CASE IsWriting(w)
    BY <2>1 DEF PairKept
  <2>2. CASE ~IsWriting(w)
    <3>1. \A v \in Writers : IsWriting(v) => IsWriting(v)'
      BY <1>2, <2>2 DEF IsWriting
    <3>2. QED
      BY <2>2, <3>1 DEF PairInv, PairKept, IsWriting
  <2>3. QED
    BY <2>1, <2>2
<1>6. QED
  BY <1>2, <1>4, <1>5

\* A writer writes, and is not done: nothing is said of the pair.
LEMMA GoesOn ==
    ASSUME PairInv, NEW w \in Writers, IsWriting(w), NEW pc \in Writing, Goto(w, pc),
           pc \in {"key", "fillkey"} => certFile' = job[w].issue \/
               (job[w].pc \in {"key", "fillkey"} /\ UNCHANGED certFile)
    PROVE  JobShape' /\ AloneExact' /\ PairKept'
<1>1. JobShape
  BY DEF PairInv
<1>2. /\ JobShape'
      /\ job'[w].pc = pc /\ job'[w].issue = job[w].issue /\ job'[w].alone = job[w].alone
      /\ \A v \in Writers \ {w} : job'[v] = job[v]
  BY <1>1, GotoEffect
<1>3. \A v \in Writers : IsWriting(v)' <=> IsWriting(v)
  BY <1>2 DEF IsWriting
<1>4. ASSUME NEW v \in Writers, IsWriting(v)', job'[v].alone
      PROVE  /\ \A x \in Writers : IsWriting(x)' => x = v
             /\ job'[v].pc \in {"key", "fillkey"} => certFile' = job'[v].issue
  <2>1. v = w
    <3>1. CASE v # w
      BY <1>2, <1>3, <1>4, <3>1 DEF PairInv, AloneExact
    <3>2. QED
      BY <3>1
  <2>2. QED
    BY <1>2, <1>3, <1>4, <2>1 DEF PairInv, AloneExact
<1>5. AloneExact'
  BY <1>4 DEF AloneExact
<1>6. PairKept'
  BY <1>3 DEF PairKept, IsWriting
<1>7. QED
  BY <1>2, <1>5, <1>6

-----------------------------------------------------------------------------
LEMMA CertStepKeeps == PairInv /\ CertStep => JobShape' /\ AloneExact' /\ PairKept'
<1> SUFFICES ASSUME PairInv, CertStep PROVE JobShape' /\ AloneExact' /\ PairKept'
  OBVIOUS
<1>1. JobShape /\ AloneExact /\ PairKept
  BY DEF PairInv
<1>2. CASE BeginRequest
  <2>1. Request \in Writers
    BY DEF Writers
  <2>2. PICK pc \in {"account", "obtain"} : Goto(Request, pc)
    BY <1>2 DEF BeginRequest
  <2>3. QED
    BY <1>2, <2>1, <2>2, NotWriting DEF BeginRequest, fileVars, IsWriting, Writing
<1>3. CASE Ageing
  BY <1>1, <1>3 DEF Ageing, fileVars, JobShape, AloneExact, PairKept, IsWriting
<1>4. CASE Die
  <2>1. \A w \in Writers : job'[w].pc = "none"
    BY <1>4 DEF Die, NoJob
  <2>2. JobShape' /\ AloneExact'
    BY <1>4, <2>1 DEF Die, NoJob, JobShape, AloneExact, IsWriting, Writing
  <2>3. PairKept'
    BY <1>1, <1>4 DEF Die, fileVars, PairKept
  <2>4. QED
    BY <2>2, <2>3
<1>5. ASSUME NEW w \in Writers, BeginRenewal(w) PROVE JobShape' /\ AloneExact' /\ PairKept'
  BY <1>5, NotWriting DEF BeginRenewal, fileVars, IsWriting, Writing
<1>6. ASSUME NEW w \in Writers, Fail(w) PROVE JobShape' /\ AloneExact' /\ PairKept'
  <2>1. IsWriting(w) \/ spoiled => spoiled'
    BY <1>6, Zenon DEF Fail, IsWriting
  <2>2. QED
    BY <1>6, <2>1, Leaving DEF Fail, fileVars
<1>7. ASSUME NEW w \in Writers, WriterStep(w) PROVE JobShape' /\ AloneExact' /\ PairKept'
  <2>1. CASE LoadUser(w)
    <3>1. PICK pc \in {"register", "obtain", "check"} : Goto(w, pc)
      BY <2>1 DEF LoadUser
    <3>2. QED
      BY <2>1, <3>1, NotWriting DEF LoadUser, fileVars, IsWriting, Writing
  <2>2. CASE RegisterUser(w) \/ SaveUser(w)
    <3>1. PICK pc \in {"save", "obtain", "check"} : Goto(w, pc)
      BY <2>2 DEF RegisterUser, SaveUser
    <3>2. QED
      BY <2>2, <3>1, NotWriting DEF RegisterUser, SaveUser, IsWriting, Writing
  <2>3. CASE CheckCert(w)
    <3>1. ~IsWriting(w) /\ UNCHANGED <<certFile, keyFile, spoiled>>
      BY <2>3 DEF CheckCert, fileVars, IsWriting, Writing
    <3>2. CASE certFile \in Issues /\ aged
      <4>1. Goto(w, "obtain")
        BY <1>1, <2>3, <3>2 DEF CheckCert, Goto, JobShape
      <4>2. QED
        BY <3>1, <4>1, NotWriting DEF Writing
    <3>3. CASE ~(certFile \in Issues /\ aged)
      <4>1. IsWriting(w) \/ spoiled => spoiled'
        BY <3>1, Zenon
      <4>2. job' = [job EXCEPT ![w] = NoJob]
        BY <2>3, <3>3 DEF CheckCert
      <4>3. QED
        BY <3>1, <4>1, <4>2, Leaving
    <3>4. QED
      BY <3>2, <3>3
  <2>4. CASE Obtain(w)
    <3> DEFINE others == {v \in Writers : job[v].pc \in Writing}
               entry(v) == IF v = w
                           THEN [pc |-> "cert", issue |-> NewIssue, alone |-> others = {}]
                           ELSE [job[v] EXCEPT !.alone = FALSE]
    <3>1. job' = [v \in Writers |-> entry(v)]
      BY <2>4 DEF Obtain
    <3>2. \A v \in Writers \ {w} : job'[v] = [job[v] EXCEPT !.alone = FALSE]
      BY <3>1
    <3>3. \A v \in Writers \ {w} :
             /\ job'[v] = [pc |-> job'[v].pc, issue |-> job'[v].issue, alone |-> job'[v].alone]
             /\ job'[v].pc = job[v].pc /\ ~job'[v].alone
      <4> TAKE v \in Writers \ {w}
      <4>1. PICK p, i, a : job[v] = [pc |-> p, issue |-> i, alone |-> a]
        BY <1>1 DEF JobShape
      <4>2. job'[v] = [[pc |-> p, issue |-> i, alone |-> a] EXCEPT !.alone = FALSE]
        BY <3>2, <4>1
      <4>3. QED
        BY <4>1, <4>2
    <3>4. /\ job'[w] = [pc |-> job'[w].pc, issue |-> job'[w].issue, alone |-> job'[w].alone]
          /\ job'[w].pc = "cert" /\ (job'[w].alone <=> others = {})
      BY <3>1
    <3>5. JobShape'
      BY <3>1, <3>3, <3>4 DEF JobShape
    <3>6. AloneExact'
      BY <3>3, <3>4 DEF AloneExact, IsWriting
    <3>7. PairKept'
      BY <3>4 DEF PairKept, Writing
    <3>8. QED
      BY <3>5, <3>6, <3>7
  <2>5. CASE TruncateCert(w)
    BY <2>5, GoesOn DEF TruncateCert, IsWriting, Writing
  <2>6. CASE FillCert(w)
    BY <2>6, GoesOn DEF FillCert, IsWriting, Writing
  <2>7. CASE TruncateKey(w)
    BY <2>7, GoesOn DEF TruncateKey, IsWriting, Writing
  <2>8. CASE FillKey(w)
    <3>1. IsWriting(w) /\ job[w].pc = "fillkey"
      BY <2>8 DEF FillKey, IsWriting, Writing
    <3>2. /\ JobShape' /\ job'[w].pc = "none"
          /\ \A v \in Writers \ {w} : job'[v] = job[v]
      BY <1>1, <2>8, LeaveEffect DEF FillKey
    <3>3. \A v \in Writers : IsWriting(v)' => IsWriting(v) /\ v # w /\ job'[v] = job[v]
      BY <3>2 DEF IsWriting, Writing
    <3>4. AloneExact'
      BY <1>1, <2>8, <3>3 DEF FillKey, AloneExact, IsWriting
    <3>5. CASE job[w].alone
      <4>1. keyFile' = certFile'
        BY <1>1, <2>8, <3>1, <3>5 DEF FillKey, AloneExact
      <4>2. PairKept'
        BY <4>1, Zenon DEF PairKept
      <4>3. QED
        BY <3>2, <3>4, <4>2
    <3>6. CASE ~job[w].alone
      <4>1. spoiled'
        BY <2>8, <3>6, Zenon DEF FillKey
      <4>2. PairKept'
        BY <4>1, Zenon DEF PairKept
      <4>3. QED
        BY <3>2, <3>4, <4>2
    <3>7. QED
      BY <3>5, <3>6
  <2>9. QED
    BY <1>7, <2>1, <2>2, <2>3, <2>4, <2>5, <2>6, <2>7, <2>8 DEF WriterStep
<1>8. QED
  BY <1>2, <1>3, <1>4, <1>5, <1>6, <1>7 DEF CertStep

\* Whenever nobody writes them, the certificate and the key on disk are of one issue,
\* unless the last who wrote them failed or died on its way or wrote beside another
\* (PairKept): writeCert and generateSelfSslCertificate keep the pair through every
\* order of requests, renewals and reloads.
THEOREM PairHolds == HostSpec => []PairKept
<1>1. HostInit => PairInv
  <2> SUFFICES ASSUME HostInit PROVE PairInv
    OBVIOUS
  <2>1. job = [w \in Writers |-> NoJob] /\ certFile = keyFile /\ renewal = "none"
    BY DEF HostInit, CertInit
  <2>2. QED
    BY <2>1 DEF PairInv, JobShape, AloneExact, PairKept, RenewalKnown, IsWriting, Writing, NoJob
<1>2. PairInv /\ [HostNext]_allVars => PairInv'
  <2> SUFFICES ASSUME PairInv, [HostNext]_allVars PROVE PairInv'
    OBVIOUS
  <2>1. RenewalKnown'
    BY RenewalStays DEF PairInv
  <2>2. CASE CertStep
    BY <2>1, <2>2, CertStepKeeps DEF PairInv
  <2>3. CASE UNCHANGED certVars
    BY <2>1, <2>3 DEF PairInv, JobShape, AloneExact, PairKept, IsWriting, certVars
  <2>4. QED
    BY <2>2, <2>3, StepsOnFiles DEF PairInv
<1>3. PairInv => PairKept
  BY DEF PairInv
<1>4. QED
  BY <1>1, <1>2, <1>3, PTL DEF HostSpec

-----------------------------------------------------------------------------
(* The types of the files and their writers. *)

\* A writer has an issue while it writes, and none before and after.
JobTypes ==
    \A w \in Writers :
        /\ job[w].pc \in JobPlaces /\ job[w].alone \in BOOLEAN
        /\ IsWriting(w) => job[w].issue \in Issues
        /\ ~IsWriting(w) => job[w].issue = 0

FileTypes ==
    /\ account \in {Absent, Torn, Valid}
    /\ certFile \in Content /\ keyFile \in Content

FlagTypes == acme \in BOOLEAN /\ aged \in BOOLEAN /\ spoiled \in BOOLEAN

CertInv == JobShape /\ JobTypes /\ FileTypes /\ FlagTypes

LEMMA CertInvTypes == CertInv => CertTypeOK
<1> SUFFICES ASSUME CertInv PROVE CertTypeOK
  OBVIOUS
<1>1. \A w \in Writers :
         job[w] \in [pc : JobPlaces, issue : {0} \cup Issues, alone : BOOLEAN]
  BY DEF CertInv, JobShape, JobTypes
<1>2. job \in [Writers -> [pc : JobPlaces, issue : {0} \cup Issues, alone : BOOLEAN]]
  BY <1>1 DEF CertInv, JobShape
<1>3. QED
  BY <1>2, Zenon DEF CertInv, FileTypes, FlagTypes, CertTypeOK

LEMMA WritersFinite ==
    /\ IsFiniteSet(Writers) /\ Cardinality(Writers) \in Nat
    /\ IsFiniteSet(Issues) /\ Cardinality(Issues) = Cardinality(Writers) + 2
    /\ Issues \subseteq Nat /\ 0 \notin Issues
<1>1. IsFiniteSet(Writers)
  <2>1. IsFiniteSet({Request})
    BY FS_Singleton
  <2>2. QED
    BY <2>1, RenewalsAssumption, FS_Union DEF Writers
<1>2. Cardinality(Writers) \in Nat
  BY <1>1, FS_CardinalityType
<1>3. QED
  BY <1>1, <1>2, FS_Interval DEF Issues

\* There is an issue left for a writer that has none: the files and the other writers
\* cannot have them all.
LEMMA NewIssueExists ==
    ASSUME NEW w \in Writers, job[w].issue = 0
    PROVE  NewIssue \in Issues
<1> DEFINE f == [v \in Writers |-> job[v].issue]
           T == {job[v].issue : v \in Writers}
           A == T \ {0}
           B == A \cup {certFile}
           C == B \cup {keyFile}
<1>1. IsFiniteSet(T) /\ Cardinality(T) <= Cardinality(Writers) /\ Cardinality(T) \in Nat
  <2>1. f \in Surjection(Writers, T)
    BY DEF Surjection
  <2>2. QED
    BY <2>1, WritersFinite, FS_Surjection, FS_CardinalityType
<1>2. 0 \in T
  OBVIOUS
<1> HIDE DEF T, f
<1>3. IsFiniteSet(A) /\ Cardinality(A) = Cardinality(T) - 1
  BY <1>1, <1>2, FS_RemoveElement
<1>4. IsFiniteSet(B) /\ Cardinality(B) <= Cardinality(T) /\ Cardinality(B) \in Nat
  <2>1. Cardinality(A) \in Nat
    BY <1>3, FS_CardinalityType
  <2> HIDE DEF A
  <2>2. IsFiniteSet(B) /\ Cardinality(B) \in {Cardinality(A), Cardinality(A) + 1}
    BY <1>3, FS_AddElement
  <2>3. QED
    BY <1>1, <1>3, <2>1, <2>2
<1>5. IsFiniteSet(C) /\ Cardinality(C) <= Cardinality(T) + 1 /\ Cardinality(C) \in Nat
  <2> HIDE DEF B
  <2>1. IsFiniteSet(C) /\ Cardinality(C) \in {Cardinality(B), Cardinality(B) + 1}
    BY <1>4, FS_AddElement
  <2>2. QED
    BY <1>1, <1>4, <2>1
<1>6. ~(Issues \subseteq C)
  <2> HIDE DEF C
  <2>1. SUFFICES ASSUME Issues \subseteq C PROVE FALSE
    OBVIOUS
  <2>2. Cardinality(Issues) <= Cardinality(C)
    BY <1>5, <2>1, FS_Subset
  <2>3. QED
    BY <1>1, <1>5, <2>2, WritersFinite
<1>7. PICK i \in Issues : i \notin C
  BY <1>6
<1>8. i # 0 /\ i \notin T /\ i \notin {certFile, keyFile}
  BY <1>7, WritersFinite
<1>9. \E j \in Issues : j \notin {certFile, keyFile} \cup {job[v].issue : v \in Writers}
  BY <1>8 DEF T
<1>10. QED
  BY <1>9 DEF NewIssue

\* A writer goes on between places in which it writes, or between others.
LEMMA GotoTypes ==
    ASSUME CertInv, NEW w \in Writers, NEW pc \in JobPlaces, Goto(w, pc),
           pc \in Writing <=> IsWriting(w)
    PROVE  JobShape' /\ JobTypes'
<1>1. /\ JobShape'
      /\ job'[w].pc = pc /\ job'[w].issue = job[w].issue /\ job'[w].alone = job[w].alone
      /\ \A v \in Writers \ {w} : job'[v] = job[v]
  BY GotoEffect DEF CertInv
<1>2. ASSUME NEW v \in Writers
      PROVE  /\ job'[v].pc \in JobPlaces /\ job'[v].alone = job[v].alone
             /\ job'[v].issue = job[v].issue
             /\ job'[v].pc \in Writing <=> IsWriting(v)
  BY <1>1 DEF CertInv, JobTypes, IsWriting
<1>3. \A v \in Writers : job[v].alone \in BOOLEAN
  BY DEF CertInv, JobTypes
<1>4. QED
  BY <1>1, <1>2, <1>3 DEF CertInv, JobTypes, IsWriting

LEMMA LeaveTypes ==
    ASSUME CertInv, NEW w \in Writers, job' = [job EXCEPT ![w] = NoJob]
    PROVE  JobShape' /\ JobTypes'
<1>1. JobShape' /\ \A v \in Writers \ {w} : job'[v] = job[v]
  BY LeaveEffect DEF CertInv
<1>2. job'[w] = NoJob
  BY DEF CertInv, JobShape
<1>3. /\ NoJob.pc = "none" /\ NoJob.issue = 0 /\ NoJob.alone = FALSE
  BY DEF NoJob
<1>4. ASSUME NEW v \in Writers
      PROVE  /\ job'[v].pc \in JobPlaces /\ job'[v].alone \in BOOLEAN
             /\ job'[v].pc \in Writing => job'[v].issue \in Issues
             /\ job'[v].pc \notin Writing => job'[v].issue = 0
  <2>1. CASE v = w
    BY <1>2, <1>3, <2>1 DEF JobPlaces, Writing
  <2>2. CASE v # w
    BY <1>1, <2>2 DEF CertInv, JobTypes, IsWriting
  <2>3. QED
    BY <2>1, <2>2
<1>5. QED
  BY <1>1, <1>4 DEF JobTypes, IsWriting

\* What a step of a writer keeps of the pair: a file that is there stays there.
PairStays == HavePair => HavePair'

LEMMA CertStepTypes == CertInv /\ CertStep => CertInv' /\ PairStays
<1> SUFFICES ASSUME CertInv, CertStep PROVE CertInv' /\ PairStays
  OBVIOUS
<1>1. JobShape /\ JobTypes /\ FileTypes /\ FlagTypes
  BY DEF CertInv
<1> USE DEF CertInv
<1>2. CASE BeginRequest
  <2>1. Request \in Writers /\ job[Request].pc = "none"
    BY <1>2 DEF Writers, BeginRequest
  <2>2. PICK pc \in {"account", "obtain"} : Goto(Request, pc)
    BY <1>2 DEF BeginRequest
  <2>3. JobShape' /\ JobTypes'
    BY <2>1, <2>2, GotoTypes DEF IsWriting, Writing, JobPlaces
  <2>4. FileTypes' /\ FlagTypes' /\ PairStays
    BY <1>1, <1>2 DEF BeginRequest, fileVars, FileTypes, FlagTypes, PairStays, HavePair
  <2>5. QED
    BY <2>3, <2>4
<1>3. CASE Ageing
  <2>1. JobShape' /\ JobTypes'
    BY <1>1, <1>3 DEF Ageing, JobShape, JobTypes, IsWriting
  <2>2. FileTypes' /\ PairStays
    BY <1>1, <1>3 DEF Ageing, fileVars, FileTypes, PairStays, HavePair
  <2>3. FlagTypes'
    BY <1>1, <1>3, Zenon DEF Ageing, FlagTypes
  <2>4. QED
    BY <2>1, <2>2, <2>3
<1>4. CASE Die
  <2>1. \A w \in Writers : job'[w] = NoJob
    BY <1>4 DEF Die
  <2>2. /\ NoJob = [pc |-> NoJob.pc, issue |-> NoJob.issue, alone |-> NoJob.alone]
        /\ NoJob.pc = "none" /\ NoJob.issue = 0 /\ NoJob.alone = FALSE
    BY DEF NoJob
  <2>3. JobShape'
    BY <1>4, <2>1, <2>2 DEF Die, JobShape
  <2>4. JobTypes'
    BY <2>1, <2>2 DEF JobTypes, IsWriting, Writing, JobPlaces
  <2>5. FileTypes' /\ PairStays
    BY <1>1, <1>4 DEF Die, fileVars, FileTypes, PairStays, HavePair
  <2>6. FlagTypes'
    BY <1>1, <1>4, Zenon DEF Die, FlagTypes
  <2>7. QED
    BY <2>3, <2>4, <2>5, <2>6
<1>5. ASSUME NEW w \in Writers, BeginRenewal(w) PROVE CertInv' /\ PairStays
  <2>1. JobShape' /\ JobTypes'
    BY <1>5, GotoTypes DEF BeginRenewal, IsWriting, Writing, JobPlaces
  <2>2. FileTypes' /\ FlagTypes' /\ PairStays
    BY <1>1, <1>5 DEF BeginRenewal, fileVars, FileTypes, FlagTypes, PairStays, HavePair
  <2>3. QED
    BY <2>1, <2>2
<1>6. ASSUME NEW w \in Writers, Fail(w) PROVE CertInv' /\ PairStays
  <2>1. JobShape' /\ JobTypes'
    BY <1>6, LeaveTypes DEF Fail
  <2>2. FileTypes' /\ PairStays
    BY <1>1, <1>6 DEF Fail, fileVars, FileTypes, PairStays, HavePair
  <2>3. FlagTypes'
    BY <1>1, <1>6, Zenon DEF Fail, FlagTypes
  <2>4. QED
    BY <2>1, <2>2, <2>3
<1>7. ASSUME NEW w \in Writers, WriterStep(w) PROVE CertInv' /\ PairStays
  <2>1. CASE LoadUser(w) \/ RegisterUser(w) \/ SaveUser(w)
    <3>1. PICK pc \in {"register", "save", "obtain", "check"} : Goto(w, pc)
      BY <2>1 DEF LoadUser, RegisterUser, SaveUser
    <3>2. JobShape' /\ JobTypes'
      BY <2>1, <3>1, GotoTypes DEF LoadUser, RegisterUser, SaveUser, IsWriting, Writing, JobPlaces
    <3>3. FileTypes' /\ FlagTypes' /\ PairStays
      BY <1>1, <2>1
      DEF LoadUser, RegisterUser, SaveUser, fileVars, FileTypes, FlagTypes, PairStays, HavePair
    <3>4. QED
      BY <3>2, <3>3
  <2>2. CASE CheckCert(w)
    <3>1. FileTypes' /\ FlagTypes' /\ PairStays
      BY <1>1, <2>2 DEF CheckCert, fileVars, FileTypes, FlagTypes, PairStays, HavePair
    <3>2. CASE certFile \in Issues /\ aged
      <4>1. Goto(w, "obtain")
        BY <1>1, <2>2, <3>2 DEF CheckCert, Goto, JobShape
      <4>2. JobShape' /\ JobTypes'
        BY <2>2, <4>1, GotoTypes DEF CheckCert, IsWriting, Writing, JobPlaces
      <4>3. QED
        BY <3>1, <4>2
    <3>3. CASE ~(certFile \in Issues /\ aged)
      <4>1. job' = [job EXCEPT ![w] = NoJob]
        BY <2>2, <3>3 DEF CheckCert
      <4>2. QED
        BY <3>1, <4>1, LeaveTypes
    <3>4. QED
      BY <3>2, <3>3
  <2>3. CASE Obtain(w)
    <3>1. FileTypes' /\ FlagTypes' /\ PairStays
      BY <1>1, <2>3 DEF Obtain, fileVars, FileTypes, FlagTypes, PairStays, HavePair
    <3> DEFINE others == {v \in Writers : job[v].pc \in Writing}
               entry(v) == IF v = w
                           THEN [pc |-> "cert", issue |-> NewIssue, alone |-> others = {}]
                           ELSE [job[v] EXCEPT !.alone = FALSE]
    <3>2. job' = [v \in Writers |-> entry(v)]
      BY <2>3 DEF Obtain
    <3>3. ASSUME NEW v \in Writers \ {w}
          PROVE  job'[v] = [pc |-> job[v].pc, issue |-> job[v].issue, alone |-> FALSE]
      <4>1. PICK p, i, a : job[v] = [pc |-> p, issue |-> i, alone |-> a]
        BY <1>1 DEF JobShape
      <4>2. job'[v] = [[pc |-> p, issue |-> i, alone |-> a] EXCEPT !.alone = FALSE]
        BY <3>2, <4>1
      <4>3. QED
        BY <4>1, <4>2
    <3>4. job'[w] = [pc |-> "cert", issue |-> NewIssue, alone |-> others = {}]
      BY <3>2
    <3>5. NewIssue \in Issues
      BY <1>1, <2>3, NewIssueExists DEF Obtain, JobTypes, IsWriting, Writing
    <3>6. JobShape'
      BY <3>2, <3>3, <3>4 DEF JobShape
    <3>7. /\ job'[w].pc = "cert" /\ job'[w].issue \in Issues /\ job'[w].alone \in BOOLEAN
      BY <3>4, <3>5
    <3>8. \A v \in Writers \ {w} : /\ job'[v].pc = job[v].pc /\ job'[v].issue = job[v].issue
                                   /\ job'[v].alone \in BOOLEAN
      <4> TAKE v \in Writers \ {w}
      <4>1. job'[v] = [pc |-> job[v].pc, issue |-> job[v].issue, alone |-> FALSE]
        BY <3>3
      <4>2. QED
        BY <4>1
    <3>9. JobTypes'
      BY <1>1, <3>7, <3>8 DEF JobTypes, IsWriting, Writing, JobPlaces
    <3>10. QED
      BY <3>1, <3>6, <3>9
  <2>4. CASE TruncateCert(w) \/ FillCert(w) \/ TruncateKey(w)
    <3>1. IsWriting(w) /\ \E pc \in Writing : Goto(w, pc)
      BY <2>4 DEF TruncateCert, FillCert, TruncateKey, IsWriting, Writing
    <3>2. JobShape' /\ JobTypes'
      BY <3>1, GotoTypes DEF JobPlaces
    <3>3. job[w].issue \in Issues /\ job[w].issue # 0
      BY <1>1, <3>1, WritersFinite DEF JobTypes
    <3>4. FileTypes' /\ PairStays
      BY <1>1, <2>4, <3>3 DEF TruncateCert, FillCert, TruncateKey, FileTypes, Content, PairStays,
         HavePair, Absent, Torn
    <3>5. FlagTypes'
      BY <1>1, <2>4, Zenon DEF TruncateCert, FillCert, TruncateKey, FlagTypes
    <3>6. QED
      BY <3>2, <3>4, <3>5
  <2>5. CASE FillKey(w)
    <3>1. JobShape' /\ JobTypes'
      BY <2>5, LeaveTypes DEF FillKey
    <3>2. job[w].issue \in Issues /\ job[w].issue # 0
      BY <1>1, <2>5, WritersFinite DEF FillKey, JobTypes, IsWriting, Writing
    <3>3. FileTypes' /\ PairStays
      BY <1>1, <2>5, <3>2 DEF FillKey, FileTypes, Content, PairStays, HavePair, Absent
    <3>4. FlagTypes'
      BY <1>1, <2>5, Zenon DEF FillKey, FlagTypes
    <3>5. QED
      BY <3>1, <3>3, <3>4
  <2>6. QED
    BY <1>7, <2>1, <2>2, <2>3, <2>4, <2>5 DEF WriterStep
<1>8. QED
  BY <1>2, <1>3, <1>4, <1>5, <1>6, <1>7 DEF CertStep

-----------------------------------------------------------------------------
(* The process between crashes. *)

\* A crash or a restart leaves the places of the event loop as its other steps do:
\* what ServerProofs shows of the process holds through them.
LEMMA ServerStep == IInv /\ [HostNext]_allVars => IInv'
<1> SUFFICES ASSUME IInv, [HostNext]_allVars PROVE IInv'
  OBVIOUS
<1>1. CASE [Next]_vars
  BY <1>1, StepHolds
<1>2. ASSUME loop' = "down", UNCHANGED <<file, watchVars, exiting, conf, idx, core, nodeVars, missed>>,
             faults' \in 0..MaxFaults
      PROVE  IInv'
  <2>1. DataOK'
    BY <1>2 DEF IInv, TypeOK, DataOK, Places, watchVars, nodeVars
  <2>2. FlagsOK'
    BY <1>2, Zenon DEF IInv, TypeOK, FlagsOK, watchVars
  <2>3. AtNode' /\ Starting' /\ Closing'
    BY <1>2 DEF AtNode, Starting, Closing
  <2>4. QED
    BY <2>1, <2>2, <2>3 DEF IInv, TypeOK, DataOK, FlagsOK
<1>3. CASE HostLoopStep
  <2>1. CASE CertReady \/ RequestCert
    BY <1>1, <2>1 DEF CertReady, RequestCert
  <2>2. CASE StartRenewal \/ StopRenewal \/ OtherLoopStep
    BY <1>1, <2>2 DEF StartRenewal, StopRenewal, OtherLoopStep, Next, LoopStep
  <2>3. QED
    BY <1>3, <2>1, <2>2 DEF HostLoopStep
<1>4. CASE RequestFails
  <2>1. faults' \in 0..MaxFaults
    BY <1>4, BoundsAssumption DEF RequestFails, Down, IInv, TypeOK
  <2>2. QED
    BY <1>2, <1>4, <2>1 DEF RequestFails, Down
<1>5. CASE OtherStep
  BY <1>1, <1>5 DEF OtherStep, Next
<1>6. CASE RenewalTick \/ \E w \in Renewals : RenewalStep(w)
  BY <1>1, <1>6 DEF RenewalTick, RenewalStep
<1>7. CASE Ageing /\ UNCHANGED <<vars, hostVars>>
  BY <1>1, <1>7
<1>8. CASE Crash
  BY <1>2, <1>8 DEF Crash, IInv, TypeOK
<1>9. CASE Restart
  <2>1. 0 \in 0..MaxEdits /\ 1 \in 1..(Len(NodeConfig[0]) + 1)
    BY BoundsAssumption, Nodes
  <2>2. DataOK'
    BY <1>9, <2>1 DEF Restart, IInv, TypeOK, DataOK, Places
  <2>3. FlagsOK'
    BY <1>9, Zenon DEF Restart, FlagsOK
  <2>4. AtNode' /\ Starting' /\ Closing'
    BY <1>9 DEF Restart, AtNode, Starting, Closing
  <2>5. QED
    BY <2>2, <2>3, <2>4 DEF IInv, TypeOK, DataOK, FlagsOK
<1>10. CASE UNCHANGED allVars
  BY <1>1, <1>10 DEF allVars
<1>11. QED
  BY <1>3, <1>4, <1>5, <1>6, <1>7, <1>8, <1>9, <1>10 DEF HostNext

\* The renewal task and the flag of requestCert.
RenewalRuns == renewal # "none" => CertTag \in running
ReadyHolds == ready => HavePair

HostInv ==
    /\ IInv /\ CertInv /\ RenewalKnown /\ RenewalRuns /\ ReadyHolds
    /\ ready \in BOOLEAN /\ crashes \in 0..MaxCrashes

LEMMA PairThere ==
    ASSUME HostInv, [HostNext]_allVars PROVE CertInv' /\ PairStays
<1>1. CASE CertStep
  BY <1>1, CertStepTypes DEF HostInv
<1>2. CASE UNCHANGED certVars
  <2>1. CertInv'
    BY <1>2 DEF HostInv, CertInv, JobShape, JobTypes, FileTypes, FlagTypes, IsWriting, certVars
  <2>2. PairStays
    BY <1>2 DEF PairStays, HavePair, certVars
  <2>3. QED
    BY <2>1, <2>2
<1>3. QED
  BY <1>1, <1>2, StepsOnFiles DEF HostInv

LEMMA RenewalRunsNext ==
    ASSUME HostInv, [HostNext]_allVars PROVE RenewalRuns'
<1> USE DEF RenewalRuns
<1>1. RenewalRuns
  BY DEF HostInv
<1>2. ASSUME UNCHANGED <<running, renewal>> PROVE RenewalRuns'
  BY <1>1, <1>2
<1>3. CASE StartRenewal
  BY <1>3 DEF StartRenewal, StartTasks
<1>4. CASE StopRenewal
  BY <1>4 DEF StopRenewal
<1>5. CASE OtherLoopStep
  <2>1. CertTag \in running => CertTag \in running'
    BY <1>5 DEF OtherLoopStep, LoopStep, LoadFromPath, StartCore, AddLimiter, AddNode, StartTasks,
       BeginWatch, ReloadSignal, CloseNodes, DeleteLimiter, CloseTasks, DelNode, CloseCore,
       ExitCloseCore, nodeVars
  <2>2. QED
    BY <1>1, <1>5, <2>1 DEF OtherLoopStep
<1>6. CASE CertReady \/ RequestCert \/ RequestFails
  BY <1>2, <1>6 DEF CertReady, RequestCert, RequestFails, vars, hostVars, nodeVars
<1>7. CASE OtherStep
  BY <1>2, <1>7 DEF OtherStep, ExitSignal, CloseNodes, WatcherStep, WatchEvent, SleepEnds, HoldEnds,
     Edit, hostVars, nodeVars
<1>8. CASE RenewalTick \/ \E w \in Renewals : RenewalStep(w)
  BY <1>2, <1>8 DEF RenewalTick, RenewalStep, vars, hostVars
<1>9. CASE Ageing /\ UNCHANGED <<vars, hostVars>>
  BY <1>2, <1>9 DEF vars, hostVars
<1>10. CASE Crash \/ Restart
  BY <1>2, <1>10 DEF Crash, Restart, nodeVars
<1>11. CASE UNCHANGED allVars
  BY <1>2, <1>11 DEF allVars, vars, hostVars
<1>12. QED
  BY <1>3, <1>4, <1>5, <1>6, <1>7, <1>8, <1>9, <1>10, <1>11 DEF HostNext, HostLoopStep

LEMMA ReadyNext ==
    ASSUME HostInv, [HostNext]_allVars
    PROVE  ReadyHolds' /\ ready' \in BOOLEAN /\ crashes' \in 0..MaxCrashes
<1>1. PairStays /\ ReadyHolds /\ ready \in BOOLEAN /\ crashes \in 0..MaxCrashes
  BY PairThere DEF HostInv
<1>2. ASSUME ready' = ready \/ ready' = FALSE PROVE ReadyHolds' /\ ready' \in BOOLEAN
  <2>1. CASE ready' = FALSE
    BY <2>1 DEF ReadyHolds
  <2>2. CASE ready' = ready
    <3>1. ready => HavePair'
      BY <1>1 DEF ReadyHolds, PairStays
    <3>2. QED
      BY <1>1, <2>2, <3>1 DEF ReadyHolds
  <2>3. QED
    BY <1>2, <2>1, <2>2
<1>3. CASE CertReady
  <2>1. ready' = TRUE /\ HavePair /\ crashes' = crashes
    BY <1>3 DEF CertReady
  <2>2. QED
    BY <1>1, <2>1, Zenon DEF ReadyHolds, PairStays
<1>4. CASE RequestCert \/ StartRenewal \/ StopRenewal \/ OtherLoopStep
  <2>1. (ready' = ready \/ ready' = FALSE) /\ crashes' = crashes
    BY <1>4, Zenon DEF RequestCert, StartRenewal, StopRenewal, OtherLoopStep, hostVars
  <2>2. QED
    BY <1>1, <1>2, <2>1
<1>5. CASE RequestFails \/ OtherStep \/ RenewalTick \/ \E w \in Renewals : RenewalStep(w)
  <2>1. ready' = ready /\ crashes' = crashes
    BY <1>5, Zenon DEF RequestFails, OtherStep, RenewalTick, RenewalStep, hostVars
  <2>2. QED
    BY <1>1, <1>2, <2>1
<1>6. CASE (Ageing /\ UNCHANGED <<vars, hostVars>>) \/ Restart \/ UNCHANGED allVars
  <2>1. (ready' = ready \/ ready' = FALSE) /\ crashes' = crashes
    BY <1>6, Zenon DEF Restart, hostVars, allVars
  <2>2. QED
    BY <1>1, <1>2, <2>1
<1>7. CASE Crash
  <2>1. ready' = ready
    BY <1>7 DEF Crash
  <2>2. crashes' \in 0..MaxCrashes
    BY <1>1, <1>7, CrashesAssumption DEF Crash
  <2>3. QED
    BY <1>2, <2>1, <2>2
<1>8. QED
  BY <1>3, <1>4, <1>5, <1>6, <1>7 DEF HostNext, HostLoopStep

LEMMA HostInvHolds == HostSpec => []HostInv
<1>1. HostInit => HostInv
  <2> SUFFICES ASSUME HostInit PROVE HostInv
    OBVIOUS
  <2>1. IInv
    BY InitHolds DEF HostInit
  <2>2. CertInit /\ ready = FALSE /\ renewal = "none" /\ crashes = 0
    BY DEF HostInit
  <2>3. \A w \in Writers : job[w] = NoJob
    BY <2>2 DEF CertInit
  <2>4. /\ NoJob = [pc |-> NoJob.pc, issue |-> NoJob.issue, alone |-> NoJob.alone]
        /\ NoJob.pc = "none" /\ NoJob.issue = 0 /\ NoJob.alone = FALSE
    BY DEF NoJob
  <2>5. JobShape
    BY <2>2, <2>3, <2>4 DEF CertInit, JobShape
  <2>6. JobTypes
    BY <2>3, <2>4 DEF JobTypes, IsWriting, Writing, JobPlaces
  <2>7. FileTypes
    BY <2>2 DEF CertInit, FileTypes, Content
  <2>8. FlagTypes
    BY <2>2, Zenon DEF CertInit, FlagTypes
  <2>9. RenewalKnown /\ RenewalRuns /\ ReadyHolds
    BY <2>2 DEF RenewalKnown, RenewalRuns, ReadyHolds
  <2>10. ready \in BOOLEAN /\ crashes \in 0..MaxCrashes
    <3>1. ready \in BOOLEAN
      BY <2>2
    <3>2. crashes \in 0..MaxCrashes
      BY <2>2, CrashesAssumption
    <3>3. QED
      BY <3>1, <3>2
  <2>11. QED
    BY <2>1, <2>5, <2>6, <2>7, <2>8, <2>9, <2>10 DEF HostInv, CertInv
<1>2. HostInv /\ [HostNext]_allVars => HostInv'
  <2> SUFFICES ASSUME HostInv, [HostNext]_allVars PROVE HostInv'
    OBVIOUS
  <2>1. IInv' /\ RenewalKnown'
    BY ServerStep, RenewalStays DEF HostInv
  <2>2. CertInv' /\ RenewalRuns' /\ ReadyHolds' /\ ready' \in BOOLEAN /\ crashes' \in 0..MaxCrashes
    BY PairThere, RenewalRunsNext, ReadyNext
  <2>3. QED
    BY <2>1, <2>2 DEF HostInv
<1>3. QED
  BY <1>1, <1>2, PTL DEF HostSpec

-----------------------------------------------------------------------------
(* The theorems about the host. *)

\* Types, through crashes and restarts: files and writers hold what they can hold, and
\* a renewal task runs for no controller that is closed (Controller.Close, StopRenewal).
THEOREM HostTypes == HostSpec => []HostTypeOK
<1>1. HostInv => HostTypeOK
  <2> SUFFICES ASSUME HostInv PROVE HostTypeOK
    OBVIOUS
  <2>1. TypeOK /\ CertTypeOK
    BY CertInvTypes DEF HostInv, IInv
  <2>2. QED
    BY <2>1, Zenon DEF HostInv, HostTypeOK, RenewalKnown, RenewalRuns
<1>2. QED
  BY <1>1, HostInvHolds, PTL

\* Crashes and restarts included, whenever serverHandle waits in its select limiters,
\* inbounds and tasks are those of the configuration it loaded, and while it works no
\* inbound misses its limiter but those being closed.  As in NodesFollowConfig, without a
\* poll in flight at Controller.Close.
THEOREM NodesFollowThroughCrashes == HostSpec => [](NodesAsConfigured /\ InboundLimited)
<1>1. HostInv => NodesAsConfigured /\ InboundLimited
  BY InvConfigured, InvLimited DEF HostInv
<1>2. QED
  BY <1>1, HostInvHolds, PTL

\* When the inbound is added (Controller.Start, AddNode) requestCert has found or made
\* both files, whatever earlier starts left, and they fit as far as PairKept says.
THEOREM PairIsThereAtStart == HostSpec => PairAtStart
<1>1. HostInv /\ PairKept /\ [HostNext]_allVars =>
        [loop = "node" /\ Tag = CertTag /\ loop' = "tasks" =>
          /\ certFile # Absent /\ keyFile # Absent
          /\ ~spoiled /\ (\A w \in Writers : job[w].pc \notin Writing)
                => certFile = keyFile]_allVars
  <2> SUFFICES ASSUME HostInv, PairKept, HostNext, loop = "node", Tag = CertTag, loop' = "tasks"
               PROVE  /\ certFile # Absent /\ keyFile # Absent
                      /\ ~spoiled /\ (\A w \in Writers : job[w].pc \notin Writing)
                            => certFile = keyFile
    OBVIOUS
  <2>1. OtherLoopStep
    <3>1. loop' # loop
      OBVIOUS
    <3>2. ~(CertReady \/ RequestCert \/ StartRenewal \/ StopRenewal)
      BY <3>1 DEF CertReady, RequestCert, StartRenewal, StartTasks, StopRenewal, CloseTasks, vars
    <3>3. ~RequestFails
      BY DEF RequestFails, Down
    <3>4. ~OtherStep
      BY <3>1 DEF OtherStep, ExitSignal, CloseNodes, WatcherStep, WatchEvent, SleepEnds, HoldEnds,
         Edit
    <3>5. ~(RenewalTick \/ \E w \in Renewals : RenewalStep(w))
      BY <3>1 DEF RenewalTick, RenewalStep, vars
    <3>6. ~(Ageing /\ UNCHANGED <<vars, hostVars>>) /\ ~Crash /\ ~Restart
      BY <3>1 DEF Crash, Restart, vars
    <3>7. QED
      BY <3>2, <3>3, <3>4, <3>5, <3>6 DEF HostNext, HostLoopStep
  <2>2. ready
    BY <2>1 DEF OtherLoopStep, Certifying
  <2>3. HavePair
    BY <2>2 DEF HostInv, ReadyHolds
  <2>4. QED
    BY <2>3, Zenon DEF HavePair, PairKept
<1>2. QED
  BY <1>1, HostInvHolds, PairHolds, PTL DEF HostSpec, PairAtStart

=============================================================================
