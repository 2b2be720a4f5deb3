-------------------------- MODULE ReplanningProofs --------------------------
(***************************************************************************)
(* Proofs about the way from a signal to a plan version, for any plans,    *)
(* signals, nodes, contents and replies, any number of crashes and failing *)
(* store calls: the history is the append-only log of material changes, a  *)
(* recorded outcome has its version, a retry means progress, no pending    *)
(* row is forgotten, and, where no second handler exists, a signal leaves  *)
(* one version and one outcome.                                            *)
(***************************************************************************)
EXTENDS Replanning, TLAPS, FiniteSetTheorems

Rows == [num : Nat, content : Contents, by : Signals \cup {NoSignal}]
JobPCs == {"idle", "load", "plan", "write", "mark", "emit"}
JobType == [pc : JobPCs, base : Nat, attempt : Nat, tries : Nat, content : Contents,
            result : SignalStatus, version : Nat, expired : BOOLEAN]

\* The versions of plan p are 1..current[p], once each.
Log(p) ==
  /\ current[p] \in Nat \ {0}
  /\ \A r \in versions[p] : r \in Rows /\ r.num \in 1..current[p]
  /\ \A i \in 1..current[p] : \E r \in versions[p] : r.num = i
  /\ \A r, q \in versions[p] : r.num = q.num => r = q

\* What the outcome (result, version) of signal s claims about the history.
Backed(s, result, version) ==
  /\ result = "applied" => \E r \in versions[PlanOf[s]] : r.num = version /\ r.by = s
  /\ result = "unchanged" => \E r \in versions[PlanOf[s]] : r.num = version

\* A handler works on a version that exists, its attempts were paid for by versions,
\* and what it is about to write is a material change of what it loaded.
JobOK(s, j) ==
  /\ j \in JobType
  /\ j.pc # "idle" => j.attempt <= current[PlanOf[s]]
  /\ j.pc \in {"plan", "write"} => j.base \in 1..current[PlanOf[s]] /\ j.attempt <= j.base
  /\ j.pc = "write" => IsMaterial(ContentOf(PlanOf[s], j.base), j.content)
  /\ j.pc \in {"mark", "emit"} => Backed(s, j.result, j.version)

HistoryInv ==
  /\ versions \in [Plans -> SUBSET Rows] /\ current \in [Plans -> Nat]
  /\ \A p \in Plans : Log(p)
  /\ job \in [Nodes -> [Signals -> JobType]]
  /\ \A n \in Nodes, s \in Signals : JobOK(s, job[n][s])
  /\ status \in [Signals -> SignalStatus \cup {"none"}] /\ resultOf \in [Signals -> Nat]
  /\ \A s \in Signals : Backed(s, status[s], resultOf[s])
  /\ \A s \in Signals :
       Completed(s, "applied") \in events => \E r \in versions[PlanOf[s]] : r.by = s

CallPCs == {"new", "checked", "stored", "waiting", "answer", "done", "dead"}
CallType == [pc : CallPCs, node : Nodes]
ScanType == [pc : {"scan", "loop", "done"}, left : SUBSET Signals]
Backlog == Seq(Signals)

\* The processes around the handlers: calls, queues, recovery scans.
TypeInv ==
  /\ call \in [Signals -> CallType]
  /\ fifo \in [Nodes -> [Plans -> Backlog]]
  /\ running \in [Nodes -> [Plans -> Signals \cup {NoSignal}]]
  /\ seen \in [Nodes -> Backlog]
  /\ recovery \in [Nodes -> ScanType]
  /\ up \in [Nodes -> BOOLEAN]

-----------------------------------------------------------------------------
(* Rows and handlers.                                                      *)

\* The plan of a signal is one of the plans.
LEMMA PlanOfSignal ==
  ASSUME NEW s \in Signals
  PROVE  PlanOf[s] \in Plans
BY ReplanningAssumption

\* A handler that has not begun, or has just begun, claims nothing.
LEMMA FreshJobs ==
  ASSUME NEW s \in Signals, Log(PlanOf[s])
  PROVE  /\ JobOK(s, NoJob) /\ JobOK(s, NewJob)
         /\ \A out \in SignalStatus : JobOK(s, [NoJob EXCEPT !.result = out])
<1>1. InitialContent \in Contents /\ current[PlanOf[s]] \in Nat \ {0}
  BY ReplanningAssumption DEF Log
<1>2. NoJob \in JobType /\ NoJob.pc = "idle"
  BY <1>1 DEF NoJob, JobType, JobPCs, SignalStatus
<1>3. NewJob \in JobType /\ NewJob.pc = "load" /\ NewJob.attempt = 1
  BY <1>1 DEF NewJob, NoJob, JobType, JobPCs, SignalStatus
<1>4. ASSUME NEW out \in SignalStatus
      PROVE  JobOK(s, [NoJob EXCEPT !.result = out])
  <2> DEFINE j == [NoJob EXCEPT !.result = out]
  <2>1. j \in JobType /\ j.pc = "idle"
    BY <1>2 DEF JobType
  <2> HIDE DEF j
  <2> QED
    BY <2>1 DEF JobOK, j
<1> QED
  BY <1>1, <1>2, <1>3, <1>4 DEF JobOK

\* The row with a number is the one that is read.
LEMMA ContentOfRow ==
  ASSUME NEW p \in Plans, Log(p), NEW r \in versions[p]
  PROVE  ContentOf(p, r.num) = r.content
<1>1. \A q \in versions[p] : q.num = r.num => q = r
  BY DEF Log
<1>2. (CHOOSE q \in versions[p] : q.num = r.num) = r
  BY <1>1
<1> QED
  BY <1>2 DEF ContentOf

-----------------------------------------------------------------------------
(* Steps by what they change.                                              *)

\* A step that writes no version keeps the history if every handler, row and event
\* claims only what is there.
LEMMA SameHistory ==
  ASSUME HistoryInv, versions' = versions, current' = current,
         job' \in [Nodes -> [Signals -> JobType]],
         \A m \in Nodes, t \in Signals : JobOK(t, job'[m][t]),
         status' \in [Signals -> SignalStatus \cup {"none"}], resultOf' \in [Signals -> Nat],
         \A t \in Signals : Backed(t, status'[t], resultOf'[t]),
         \A t \in Signals : Completed(t, "applied") \in events' =>
           Completed(t, "applied") \in events \/ \E r \in versions[PlanOf[t]] : r.by = t
  PROVE  HistoryInv'
<1>1. ASSUME NEW m \in Nodes, NEW t \in Signals
      PROVE  JobOK(t, job[m][t])'
  <2>1. PICK k : k = job'[m][t]
    OBVIOUS
  <2>2. JobOK(t, k)
    BY <2>1
  <2>3. JobOK(t, k)'
    BY <2>2 DEF JobOK, Backed, ContentOf, IsMaterial
  <2> QED
    BY <2>1, <2>3
<1>2. \A t \in Signals : Backed(t, status[t], resultOf[t])'
  BY DEF Backed
<1>3. \A p \in Plans : Log(p)'
  BY DEF HistoryInv, Log
<1> QED
  BY <1>1, <1>2, <1>3 DEF HistoryInv

\* A step that writes no version and moves one handler to a sound state.
LEMMA JobChange ==
  ASSUME HistoryInv, NEW n \in Nodes, NEW s \in Signals, NEW j, JobOK(s, j),
         job' = [job EXCEPT ![n][s] = j], versions' = versions, current' = current,
         status' \in [Signals -> SignalStatus \cup {"none"}], resultOf' \in [Signals -> Nat],
         \A t \in Signals : Backed(t, status'[t], resultOf'[t]),
         \A t \in Signals : Completed(t, "applied") \in events' =>
           Completed(t, "applied") \in events \/ \E r \in versions[PlanOf[t]] : r.by = t
  PROVE  HistoryInv'
<1>1. job' \in [Nodes -> [Signals -> JobType]]
  BY DEF HistoryInv, JobOK
<1>2. ASSUME NEW m \in Nodes, NEW t \in Signals
      PROVE  JobOK(t, job'[m][t])
  <2>1. job \in [Nodes -> [Signals -> JobType]] /\ JobOK(t, job[m][t])
    BY DEF HistoryInv
  <2>2. CASE m = n /\ t = s
    BY <2>1, <2>2
  <2>3. CASE ~(m = n /\ t = s)
    <3>1. job'[m][t] = job[m][t]
      BY <2>1, <2>3
    <3> QED
      BY <2>1, <3>1
  <2> QED
    BY <2>2, <2>3
<1> QED
  BY <1>1, <1>2, SameHistory

\* The rows stay as they are when no row changes.
LEMMA SameRows ==
  ASSUME HistoryInv, status' = status, resultOf' = resultOf
  PROVE  /\ status' \in [Signals -> SignalStatus \cup {"none"}] /\ resultOf' \in [Signals -> Nat]
         /\ \A t \in Signals : Backed(t, status'[t], resultOf'[t])
BY DEF HistoryInv

\* The insert of a version: its base was the head, and the history stays contiguous.
LEMMA InsertFacts ==
  ASSUME HistoryInv, NEW n \in Nodes, NEW s \in Signals, job[n][s].pc = "write",
         ~Taken(PlanOf[s], job[n][s].base + 1),
         InsertVersion(PlanOf[s], job[n][s].base + 1, job[n][s].content, s)
  PROVE  /\ job[n][s].base = current[PlanOf[s]]
         /\ current' = [current EXCEPT ![PlanOf[s]] = job[n][s].base + 1]
         /\ versions' = [versions EXCEPT ![PlanOf[s]] = @ \cup
              {[num |-> job[n][s].base + 1, content |-> job[n][s].content, by |-> s]}]
         /\ [num |-> job[n][s].base + 1, content |-> job[n][s].content, by |-> s] \in Rows
<1> DEFINE p == PlanOf[s]
           j == job[n][s]
<1>1. p \in Plans
  BY PlanOfSignal
<1>2. JobOK(s, j) /\ Log(p) /\ j \in JobType
  BY <1>1 DEF HistoryInv, JobOK
<1>3. j.base \in 1..current[p] /\ current[p] \in Nat /\ j.content \in Contents
  BY <1>2 DEF JobOK, Log, JobType
<1> HIDE DEF p, j
<1>4. j.base = current[p]
  <2>1. j.base + 1 \notin 1..current[p]
    BY <1>2 DEF Log, Taken, p, j
  <2> QED
    BY <1>3, <2>1
<1>5. [num |-> j.base + 1, content |-> j.content, by |-> s] \in Rows
  BY <1>3 DEF Rows
<1>6. current \in [Plans -> Nat] /\ (j.base + 1 > current[p])
  BY <1>3, <1>4 DEF HistoryInv
<1> QED
  BY <1>1, <1>4, <1>5, <1>6 DEF InsertVersion, p, j

\* What a handler or a row claims stays true when the history grows.
LEMMA ClaimsStay ==
  ASSUME HistoryInv, \A p \in Plans : /\ versions[p] \subseteq versions'[p] /\ Log(p)'
                                     /\ current'[p] >= current[p]
  PROVE  /\ \A t \in Signals, j \in JobType : JobOK(t, j) => JobOK(t, j)'
         /\ \A t \in Signals : \A r, v : Backed(t, r, v) => Backed(t, r, v)'
<1>1. ASSUME NEW t \in Signals, NEW r, NEW v, Backed(t, r, v)
      PROVE  Backed(t, r, v)'
  BY <1>1, PlanOfSignal DEF Backed
<1>2. ASSUME NEW t \in Signals, NEW j \in JobType, JobOK(t, j)
      PROVE  JobOK(t, j)'
  <2> DEFINE p == PlanOf[t]
  <2>1. p \in Plans /\ Log(p) /\ Log(p)' /\ versions[p] \subseteq versions'[p]
    BY PlanOfSignal DEF HistoryInv
  <2>2. /\ current[p] \in Nat /\ current'[p] \in Nat /\ current'[p] >= current[p]
        /\ j.attempt \in Nat /\ j.base \in Nat
    BY <2>1 DEF Log, JobType
  <2>3. ASSUME j.base \in 1..current[p]
        PROVE  ContentOf(p, j.base)' = ContentOf(p, j.base)
    <3>1. PICK r \in versions[p] : r.num = j.base
      BY <2>1, <2>3 DEF Log
    <3>2. ContentOf(p, j.base) = r.content
      BY <2>1, <3>1, ContentOfRow
    <3>3. r \in versions'[p] /\ \A q \in versions'[p] : q.num = r.num => q = r
      BY <2>1, <3>1 DEF Log
    <3>4. (CHOOSE q \in versions'[p] : q.num = j.base) = r
      BY <3>1, <3>3
    <3> QED
      BY <3>2, <3>4 DEF ContentOf
  <2>4. /\ j.pc # "idle" => j.attempt <= current'[p]
        /\ j.pc \in {"plan", "write"} => j.base \in 1..current'[p] /\ j.attempt <= j.base
    BY <1>2, <2>2 DEF JobOK
  <2>5. j.pc = "write" => IsMaterial(ContentOf(p, j.base), j.content)'
    BY <1>2, <2>3 DEF JobOK, IsMaterial
  <2>6. j.pc \in {"mark", "emit"} => Backed(t, j.result, j.version)'
    BY <1>1, <1>2 DEF JobOK
  <2> QED
    BY <2>4, <2>5, <2>6 DEF JobOK
<1> QED
  BY <1>1, <1>2

\* A step that writes the version a handler prepared.
LEMMA InsertChange ==
  ASSUME HistoryInv, NEW n \in Nodes, NEW s \in Signals, job[n][s].pc = "write",
         ~Taken(PlanOf[s], job[n][s].base + 1),
         InsertVersion(PlanOf[s], job[n][s].base + 1, job[n][s].content, s),
         NEW q \in JobType, q.pc = "mark", q.attempt = job[n][s].attempt,
         \/ q.result = "applied" /\ q.version = job[n][s].base + 1
         \/ q.result = "failed",
         job' = [job EXCEPT ![n][s] = q], UNCHANGED <<status, resultOf, events>>
  PROVE  HistoryInv'
<1> DEFINE p == PlanOf[s]
           b == job[n][s].base
           row == [num |-> b + 1, content |-> job[n][s].content, by |-> s]
<1>1. /\ b = current[p] /\ current' = [current EXCEPT ![p] = b + 1]
      /\ versions' = [versions EXCEPT ![p] = @ \cup {row}] /\ row \in Rows
  BY InsertFacts
<1>2. /\ p \in Plans /\ \A x \in Plans : Log(x)
      /\ versions \in [Plans -> SUBSET Rows] /\ current \in [Plans -> Nat]
      /\ job \in [Nodes -> [Signals -> JobType]] /\ JobOK(s, job[n][s])
  BY PlanOfSignal DEF HistoryInv
<1>3. row.num = b + 1 /\ row.by = s
  OBVIOUS
<1> HIDE DEF p, b, row
<1>4. /\ versions' \in [Plans -> SUBSET Rows] /\ current' \in [Plans -> Nat]
      /\ versions'[p] = versions[p] \cup {row} /\ current'[p] = current[p] + 1
      /\ \A x \in Plans : x # p => versions'[x] = versions[x] /\ current'[x] = current[x]
  BY <1>1, <1>2
<1>5. \A x \in Plans : Log(x)'
  <2> SUFFICES ASSUME NEW x \in Plans
               PROVE  Log(x)'
    OBVIOUS
  <2>1. CASE x # p
    BY <1>2, <1>4, <2>1 DEF Log
  <2>2. CASE x = p
    <3>1. Log(p) /\ current[p] \in Nat \ {0} /\ current[p] + 1 \in 1..(current[p] + 1)
      BY <1>2 DEF Log
    <3>2. \A r \in versions'[p] : r \in Rows /\ r.num \in 1..current'[p]
      BY <1>1, <1>3, <1>4, <3>1 DEF Log
    <3>3. ASSUME NEW i \in 1..current'[p]
          PROVE  \E r \in versions'[p] : r.num = i
      <4>1. CASE i = current[p] + 1
        BY <1>1, <1>3, <1>4, <4>1
      <4>2. CASE i # current[p] + 1
        <5>1. i \in 1..current[p]
          BY <1>4, <3>1, <4>2
        <5> QED
          BY <1>4, <3>1, <5>1 DEF Log
      <4> QED
        BY <4>1, <4>2
    <3>4. ASSUME NEW r \in versions'[p], NEW y \in versions'[p], r.num = y.num
          PROVE  r = y
      <4>1. \A z \in versions[p] : z.num # row.num
        BY <1>1, <1>3, <3>1 DEF Log
      <4> QED
        BY <1>4, <3>1, <3>4, <4>1 DEF Log
    <3> QED
      BY <1>4, <2>2, <3>1, <3>2, <3>3, <3>4 DEF Log
  <2> QED
    BY <2>1, <2>2
<1>6. \A x \in Plans : /\ versions[x] \subseteq versions'[x] /\ Log(x)'
                      /\ current'[x] >= current[x]
  BY <1>2, <1>4, <1>5 DEF Log
<1>7. /\ \A t \in Signals, j \in JobType : JobOK(t, j) => JobOK(t, j)'
      /\ \A t \in Signals : \A r, v : Backed(t, r, v) => Backed(t, r, v)'
  BY <1>6, ClaimsStay
<1>8. JobOK(s, q)'
  <2>1. q.attempt <= current[p] /\ q.attempt \in Nat /\ current[p] \in Nat
    BY <1>2 DEF JobOK, JobType, p
  <2>2. Backed(s, q.result, q.version)'
    BY <1>1, <1>3, <1>4 DEF Backed, p, b
  <2> QED
    BY <1>4, <2>1, <2>2 DEF JobOK, p
<1>9. ASSUME NEW m \in Nodes, NEW t \in Signals
      PROVE  JobOK(t, job[m][t])'
  <2>1. CASE m = n /\ t = s
    BY <1>2, <1>8, <2>1
  <2>2. CASE ~(m = n /\ t = s)
    <3>1. job'[m][t] = job[m][t] /\ job[m][t] \in JobType /\ JobOK(t, job[m][t])
      BY <1>2, <2>2 DEF HistoryInv
    <3>3. PICK j \in JobType : j = job[m][t]
      BY <3>1
    <3>4. JobOK(t, j)'
      BY <1>7, <3>1, <3>3
    <3> QED
      BY <3>1, <3>3, <3>4 DEF JobOK
  <2> QED
    BY <2>1, <2>2
<1>10. \A t \in Signals : Backed(t, status[t], resultOf[t])'
  <2> SUFFICES ASSUME NEW t \in Signals
               PROVE  Backed(t, status[t], resultOf[t])'
    OBVIOUS
  <2>1. PICK r, v : r = status[t] /\ v = resultOf[t]
    OBVIOUS
  <2>2. Backed(t, r, v)'
    BY <1>7, <2>1 DEF HistoryInv
  <2> QED
    BY <2>1, <2>2 DEF Backed
<1>11. job' \in [Nodes -> [Signals -> JobType]]
  BY <1>2
<1>12. \A t \in Signals :
         Completed(t, "applied") \in events' => \E r \in versions'[PlanOf[t]] : r.by = t
  BY <1>6, PlanOfSignal DEF HistoryInv
<1> QED
  BY <1>4, <1>5, <1>9, <1>10, <1>11, <1>12 DEF HistoryInv

-----------------------------------------------------------------------------
(* Every step keeps the history.                                           *)

\* A handler that moves on, with nothing shared changed.
LEMMA GotoChange ==
  ASSUME HistoryInv, NEW n \in Nodes, NEW s \in Signals, NEW j, JobOK(s, j), Goto(n, s, j)
  PROVE  HistoryInv'
BY JobChange, SameRows DEF Goto, store

\* A handler that moves on within its attempt.
LEMMA MovedJob ==
  ASSUME HistoryInv, NEW n \in Nodes, NEW s \in Signals, NEW q \in JobType,
         job[n][s].pc # "idle", q.attempt = job[n][s].attempt,
         \/ q.pc = "load"
         \/ q.pc = "plan" /\ job[n][s].pc = "plan" /\ q.base = job[n][s].base
         \/ q.pc = "mark" /\ q.result = "failed"
  PROVE  JobOK(s, q)
BY DEF HistoryInv, JobOK, Backed

\* failReplan.
LEMMA FailedJob ==
  ASSUME NEW j \in JobType
  PROVE  /\ Failed(j) \in JobType /\ Failed(j).pc = "mark" /\ Failed(j).result = "failed"
         /\ Failed(j).attempt = j.attempt
BY DEF JobType, JobPCs, SignalStatus, Failed

\* A handler that has recorded its outcome still answers for it.
LEMMA EmittingJob ==
  ASSUME NEW s \in Signals, NEW j \in JobType, JobOK(s, j), j.pc = "mark"
  PROVE  JobOK(s, [j EXCEPT !.pc = "emit"])
<1> DEFINE q == [j EXCEPT !.pc = "emit"]
<1>1. /\ q \in JobType /\ q.pc = "emit" /\ q.attempt = j.attempt /\ q.result = j.result
      /\ q.version = j.version
  BY DEF JobType, JobPCs
<1> HIDE DEF q
<1>2. JobOK(s, q)
  BY <1>1 DEF JobOK
<1> QED
  BY <1>2 DEF q

\* What Write makes of a handler: applied, or in its next attempt.
LEMMA WrittenJob ==
  ASSUME NEW j \in JobType
  PROVE  /\ Applied(j) \in JobType /\ Applied(j).pc = "mark" /\ Applied(j).result = "applied"
         /\ Applied(j).version = j.base + 1 /\ Applied(j).attempt = j.attempt
         /\ [j EXCEPT !.pc = "load", !.attempt = @ + 1] \in JobType
         /\ [j EXCEPT !.pc = "load", !.attempt = @ + 1].pc = "load"
         /\ [j EXCEPT !.pc = "load", !.attempt = @ + 1].attempt = j.attempt + 1
<1>1. j.base \in Nat /\ j.attempt \in Nat
  BY DEF JobType
<1>2. PICK b \in Nat : b = j.base + 1
  BY <1>1
<1>3. PICK a \in Nat : a = j.attempt + 1
  BY <1>1
<1>4. Applied(j) = [j EXCEPT !.pc = "mark", !.result = "applied", !.version = b]
  BY <1>2 DEF Applied
<1>5. [j EXCEPT !.pc = "load", !.attempt = @ + 1] = [j EXCEPT !.pc = "load", !.attempt = a]
  BY <1>3
<1>6. /\ [j EXCEPT !.pc = "mark", !.result = "applied", !.version = b] \in JobType
      /\ [j EXCEPT !.pc = "mark", !.result = "applied", !.version = b].pc = "mark"
      /\ [j EXCEPT !.pc = "mark", !.result = "applied", !.version = b].result = "applied"
      /\ [j EXCEPT !.pc = "mark", !.result = "applied", !.version = b].version = b
      /\ [j EXCEPT !.pc = "mark", !.result = "applied", !.version = b].attempt = j.attempt
  BY DEF JobType, JobPCs, SignalStatus
<1>7. /\ [j EXCEPT !.pc = "load", !.attempt = a] \in JobType
      /\ [j EXCEPT !.pc = "load", !.attempt = a].pc = "load"
      /\ [j EXCEPT !.pc = "load", !.attempt = a].attempt = a
  BY DEF JobType, JobPCs
<1> QED
  BY <1>2, <1>3, <1>4, <1>5, <1>6, <1>7

\* A handler reads the version it is based on, and its attempt is paid for.
LEMMA LoadStep ==
  ASSUME HistoryInv, NEW n \in Nodes, NEW s \in Signals, Load(n, s)
  PROVE  HistoryInv'
<1> DEFINE j == job[n][s]
           q == [j EXCEPT !.pc = "plan", !.base = current[PlanOf[s]], !.tries = 0]
<1>1. j \in JobType /\ j.pc = "load" /\ JobOK(s, j) /\ Log(PlanOf[s])
  BY PlanOfSignal DEF HistoryInv, Load
<1>2. current[PlanOf[s]] \in Nat \ {0} /\ j.attempt <= current[PlanOf[s]]
  BY <1>1 DEF JobOK, Log
<1>3. CASE j.expired
  <2>1. JobOK(s, Failed(j))
    BY <1>1, FailedJob, MovedJob
  <2> QED
    BY <1>3, <2>1, GotoChange DEF Load
<1>4. CASE ~j.expired
  <2>1. /\ q \in JobType /\ q.pc = "plan" /\ q.base = current[PlanOf[s]] /\ q.attempt = j.attempt
    BY <1>1, <1>2 DEF JobType, JobPCs
  <2>2. Goto(n, s, q)
    BY <1>4 DEF Load
  <2> HIDE DEF q, j
  <2>3. JobOK(s, q)
    BY <1>2, <2>1 DEF JobOK
  <2> QED
    BY <2>2, <2>3, GotoChange
<1> QED
  BY <1>3, <1>4

\* What a handler decides to write is a material change of what it loaded.
LEMMA EvaluateStep ==
  ASSUME HistoryInv, NEW n \in Nodes, NEW s \in Signals, Evaluate(n, s)
  PROVE  HistoryInv'
<1> DEFINE j == job[n][s]
           u == [j EXCEPT !.pc = "mark", !.result = "unchanged", !.version = j.base]
<1>1. j \in JobType /\ j.pc = "plan" /\ JobOK(s, j) /\ Log(PlanOf[s])
  BY PlanOfSignal DEF HistoryInv, Evaluate
<1>2. JobOK(s, u)
  <2>1. /\ u \in JobType /\ u.pc = "mark" /\ u.result = "unchanged" /\ u.version = j.base
        /\ u.attempt = j.attempt
    BY <1>1 DEF JobType, JobPCs, SignalStatus
  <2>2. \E r \in versions[PlanOf[s]] : r.num = j.base
    BY <1>1 DEF JobOK, Log
  <2> HIDE DEF u
  <2> QED
    BY <1>1, <2>1, <2>2 DEF JobOK, Backed
<1>3. ASSUME NEW c \in Replies[s], IsMaterial(ContentOf(PlanOf[s], j.base), c),
             Goto(n, s, [j EXCEPT !.pc = "write", !.content = c])
      PROVE  HistoryInv'
  <2> DEFINE q == [j EXCEPT !.pc = "write", !.content = c]
  <2>1. c \in Contents
    BY ReplanningAssumption
  <2>2. /\ q \in JobType /\ q.pc = "write" /\ q.content = c /\ q.base = j.base
        /\ q.attempt = j.attempt
    BY <1>1, <2>1 DEF JobType, JobPCs
  <2> HIDE DEF q
  <2>3. JobOK(s, q)
    BY <1>1, <1>3, <2>2 DEF JobOK
  <2> QED
    BY <1>3, <2>3, GotoChange DEF q
<1>4. CASE Goto(n, s, u)
  BY <1>2, <1>4, GotoChange
<1> QED
  BY <1>3, <1>4 DEF Evaluate

\* A planner retry stays within the attempt.
LEMMA PlannerErrorStep ==
  ASSUME HistoryInv, NEW n \in Nodes, NEW s \in Signals, PlannerError(n, s)
  PROVE  HistoryInv'
<1> DEFINE j == job[n][s]
           q == [j EXCEPT !.tries = @ + 1]
<1>1. j \in JobType /\ j.pc = "plan"
  BY DEF HistoryInv, PlannerError
<1>2. JobOK(s, Failed(j))
  BY <1>1, FailedJob, MovedJob
<1>3. JobOK(s, q)
  <2>1. q \in JobType /\ q.pc = "plan" /\ q.base = j.base /\ q.attempt = j.attempt
    BY <1>1 DEF JobType
  <2> HIDE DEF q
  <2> QED
    BY <1>1, <2>1, MovedJob
<1> QED
  BY <1>2, <1>3, GotoChange DEF PlannerError

\* A version is written on top of its base; a conflict pays for the next attempt.
LEMMA WriteStep ==
  ASSUME HistoryInv, NEW n \in Nodes, NEW s \in Signals, Write(n, s)
  PROVE  HistoryInv'
<1> DEFINE j == job[n][s]
           p == PlanOf[s]
<1>1. j \in JobType /\ j.pc = "write" /\ JobOK(s, j) /\ Log(p)
  BY PlanOfSignal DEF HistoryInv, Write
<1>2. JobOK(s, Failed(j))
  BY <1>1, FailedJob, MovedJob
<1>3. CASE ~j.expired /\ Taken(p, j.base + 1)
  <2> DEFINE q == [j EXCEPT !.pc = "load", !.attempt = @ + 1]
  <2>1. q \in JobType /\ q.pc = "load" /\ q.attempt = j.attempt + 1
    BY <1>1, WrittenJob
  <2>2. PICK r \in versions[p] : r.num = j.base + 1
    BY <1>3 DEF Taken
  <2>3. j.attempt <= j.base /\ j.base + 1 <= current[p]
    BY <1>1, <2>2 DEF JobOK, Log
  <2>4. j.attempt \in Nat /\ j.base \in Nat /\ current[p] \in Nat
    BY <1>1 DEF JobType, Log
  <2>5. j.attempt + 1 <= current[p]
    BY <2>3, <2>4
  <2> HIDE DEF q
  <2>6. JobOK(s, q)
    BY <2>1, <2>5 DEF JobOK
  <2> QED
    BY <1>2, <1>3, <2>6, GotoChange DEF Write, Taken, q
<1>4. CASE ~j.expired /\ ~Taken(p, j.base + 1)
  <2> DEFINE q == Applied(j)
  <2>1. /\ q \in JobType /\ q.pc = "mark" /\ q.result = "applied" /\ q.version = j.base + 1
        /\ q.attempt = j.attempt
    BY <1>1, WrittenJob
  <2>2. /\ InsertVersion(p, j.base + 1, j.content, s) /\ job' = [job EXCEPT ![n][s] = q]
        /\ UNCHANGED <<status, resultOf, events>>
    BY <1>4 DEF Write, Taken
  <2> HIDE DEF q
  <2> QED
    BY <1>1, <1>4, <2>1, <2>2, InsertChange
<1>5. CASE j.expired
  BY <1>2, <1>5, GotoChange DEF Write
<1> QED
  BY <1>3, <1>4, <1>5 DEF JobType, Write

-----------------------------------------------------------------------------
(* The processes stay what they are.                                       *)

\* A backlog grows at its end and shrinks at its head.
LEMMA BacklogFacts ==
  /\ <<>> \in Backlog
  /\ \A q \in Backlog, s \in Signals : Append(q, s) \in Backlog
  /\ \A q \in Backlog : q # <<>> => Head(q) \in Signals /\ Tail(q) \in Backlog
BY DEF Backlog

\* Enqueue adds a signal to its plan's backlog, once.
LEMMA EnqueueTypes ==
  ASSUME TypeInv, NEW n \in Nodes, NEW s \in Signals, Enqueue(n, s)
  PROVE  /\ fifo' \in [Nodes -> [Plans -> Backlog]] /\ seen' \in [Nodes -> Backlog]
         /\ running' = running
<1>1. CASE Seen(n, s)
  BY <1>1 DEF Enqueue, queue, TypeInv
<1>2. CASE ~Seen(n, s)
  <2>1. /\ fifo' = [fifo EXCEPT ![n][PlanOf[s]] = Append(@, s)]
        /\ seen' = [seen EXCEPT ![n] = Append(@, s)] /\ running' = running
    BY <1>2 DEF Enqueue
  <2>2. /\ Append(fifo[n][PlanOf[s]], s) \in Backlog /\ Append(seen[n], s) \in Backlog
    BY BacklogFacts, PlanOfSignal DEF TypeInv
  <2> QED
    BY <2>1, <2>2, PlanOfSignal DEF TypeInv
<1> QED
  BY <1>1, <1>2

\* Calls, queues and scans keep their types, whatever happens to them.
LEMMA TypesStay ==
  ASSUME TypeInv, [Next]_vars
  PROVE  TypeInv'
<1> USE PlanOfSignal DEF TypeInv
<1>0. \A s \in Signals, pc \in CallPCs :
        [call EXCEPT ![s].pc = pc] \in [Signals -> CallType]
  BY DEF CallType
<1>1. ASSUME NEW s \in Signals, ApplyCheck(s) \/ ApplyStore(s) \/ ApplyFault(s) \/ ApplyReturn(s)
      PROVE  TypeInv'
  <2>1. UNCHANGED <<queue, up, recovery>>
    BY <1>1 DEF ApplyCheck, ApplyStore, ApplyFault, ApplyReturn, rest
  <2>2. \E pc \in CallPCs : call' = [call EXCEPT ![s].pc = pc]
    BY <1>1 DEF ApplyCheck, ApplyStore, ApplyFault, ApplyReturn, CallPCs
  <2> QED
    BY <1>0, <2>1, <2>2 DEF queue
<1>2. ASSUME NEW s \in Signals, ApplyEnqueue(s)
      PROVE  TypeInv'
  <2>1. UNCHANGED <<up, recovery>> /\ \E pc \in CallPCs : call' = [call EXCEPT ![s].pc = pc]
    BY <1>2 DEF ApplyEnqueue, rest, CallPCs
  <2>2. call[s].node \in Nodes
    BY DEF CallType
  <2>3. Enqueue(call[s].node, s) \/ UNCHANGED queue
    BY <1>2 DEF ApplyEnqueue
  <2> QED
    BY <1>0, <2>1, <2>2, <2>3, EnqueueTypes DEF queue
<1>3. ASSUME NEW n \in Nodes, NEW p \in Plans, BeginJob(n, p)
      PROVE  TypeInv'
  <2>1. Head(fifo[n][p]) \in Signals /\ Tail(fifo[n][p]) \in Backlog
    BY <1>3, BacklogFacts DEF BeginJob
  <2> QED
    BY <1>3, <2>1 DEF BeginJob, store, rest
<1>4. ASSUME NEW n \in Nodes, NEW s \in Signals,
             Load(n, s) \/ Evaluate(n, s) \/ Write(n, s) \/ Mark(n, s) \/ PlannerError(n, s)
               \/ CtxDone(n, s) \/ StoreFault(n, s)
      PROVE  TypeInv'
  BY <1>4 DEF Load, Evaluate, Write, Mark, PlannerError, CtxDone, StoreFault, Goto,
              store, queue, rest
<1>5. ASSUME NEW n \in Nodes, NEW s \in Signals, EmitCompleted(n, s) \/ HandlerPanics(n, s)
      PROVE  TypeInv'
  <2>1. UNCHANGED rest /\ \E out : JobOver(n, s, out)
    BY <1>5 DEF EmitCompleted, HandlerPanics
  <2>2. \/ UNCHANGED call
        \/ \E pc \in CallPCs : call' = [call EXCEPT ![s].pc = pc]
    BY <2>1 DEF JobOver, CallPCs
  <2>3. /\ UNCHANGED <<fifo, seen>>
        /\ running' = running \/ running' = [running EXCEPT ![n][PlanOf[s]] = NoSignal]
    BY <2>1 DEF JobOver, queue
  <2>4. running' \in [Nodes -> [Plans -> Signals \cup {NoSignal}]]
    <3>1. [running EXCEPT ![n][PlanOf[s]] = NoSignal] \in [Nodes -> [Plans -> Signals \cup {NoSignal}]]
      OBVIOUS
    <3> QED
      BY <2>3, <3>1
  <2> QED
    BY <1>0, <2>1, <2>2, <2>3, <2>4 DEF rest
<1>6. ASSUME NEW n \in Nodes, Crash(n)
      PROVE  TypeInv'
  <2>1. EmptyQueue \in [Plans -> Backlog] /\ NothingRuns \in [Plans -> Signals \cup {NoSignal}]
    BY BacklogFacts DEF EmptyQueue, NothingRuns
  <2>2. /\ fifo' \in [Nodes -> [Plans -> Backlog]] /\ seen' \in [Nodes -> Backlog]
        /\ running' \in [Nodes -> [Plans -> Signals \cup {NoSignal}]]
        /\ up' \in [Nodes -> BOOLEAN]
    BY <1>6, <2>1, BacklogFacts DEF Crash
  <2>3. recovery' \in [Nodes -> ScanType]
    BY <1>6 DEF Crash, NoScan, ScanType
  <2>4. call' \in [Signals -> CallType]
    BY <1>6 DEF Crash, CallType, CallPCs
  <2> QED
    BY <2>2, <2>3, <2>4
<1>7. ASSUME NEW n \in Nodes, Restart(n) \/ RecoverScan(n)
      PROVE  TypeInv'
  <2>1. recovery' \in [Nodes -> ScanType]
    <3>1. /\ StartScan \in ScanType /\ NoScan \in ScanType
          /\ [pc |-> "loop", left |-> ListPendingSignals] \in ScanType
      BY DEF StartScan, NoScan, ListPendingSignals, Pending, ScanType
    <3> QED
      BY <1>7, <3>1 DEF Restart, RecoverScan
  <2> QED
    BY <1>7, <2>1 DEF Restart, RecoverScan, store, queue
<1>8. ASSUME NEW n \in Nodes, RecoverNext(n)
      PROVE  TypeInv'
  <2>1. PICK s \in recovery[n].left :
          /\ recovery' = [recovery EXCEPT ![n].left = @ \ {s}]
          /\ Enqueue(n, s) \/ UNCHANGED queue
    BY <1>8 DEF RecoverNext
  <2>2. s \in Signals /\ recovery' \in [Nodes -> ScanType]
    BY <2>1 DEF ScanType
  <2> QED
    BY <1>8, <2>1, <2>2, EnqueueTypes DEF RecoverNext, queue
<1>9. ASSUME NEW p \in Plans, NEW st \in GoalMoves, SetGoalStatus(p, st)
      PROVE  TypeInv'
  BY <1>9 DEF SetGoalStatus, store, queue
<1>10. CASE UNCHANGED vars
  BY <1>10 DEF vars
<1> QED
  BY <1>1, <1>2, <1>3, <1>4, <1>5, <1>6, <1>7, <1>8, <1>9, <1>10
     DEF Next, CallStep, HandlerStep
\* markSignal records the outcome the handler can answer for, or nothing.
LEMMA MarkStep ==
  ASSUME HistoryInv, NEW n \in Nodes, NEW s \in Signals, Mark(n, s)
  PROVE  HistoryInv'
<1> DEFINE j == job[n][s]
           q == [j EXCEPT !.pc = "emit"]
<1>1. j \in JobType /\ j.pc = "mark" /\ JobOK(s, j)
  BY DEF HistoryInv, Mark
<1>2. JobOK(s, q)
  BY <1>1, EmittingJob
<1>3. /\ job' = [job EXCEPT ![n][s] = q]
      /\ versions' = versions /\ current' = current /\ events' = events
  BY DEF Mark, HistoryInv
<1>4. CASE j.expired
  BY <1>2, <1>3, <1>4, SameRows, JobChange DEF Mark
<1>5. CASE ~j.expired
  <2>1. /\ status' = [status EXCEPT ![s] = j.result]
        /\ resultOf' = [resultOf EXCEPT ![s] = j.version]
    BY <1>5 DEF Mark, MarkSignalProcessed
  <2>2. Backed(s, j.result, j.version) /\ j.result \in SignalStatus /\ j.version \in Nat
    BY <1>1 DEF JobOK, JobType
  <2>3. /\ status' \in [Signals -> SignalStatus \cup {"none"}] /\ resultOf' \in [Signals -> Nat]
        /\ \A t \in Signals : Backed(t, status'[t], resultOf'[t])
    BY <2>1, <2>2 DEF HistoryInv
  <2> QED
    BY <1>2, <1>3, <2>3, JobChange
<1> QED
  BY <1>4, <1>5

\* What is left of a handler that is over is nothing, or its result for the caller.
LEMMA JobOverJob ==
  ASSUME HistoryInv, NEW n \in Nodes, NEW s \in Signals, NEW out \in SignalStatus,
         JobOver(n, s, out)
  PROVE  \E j : JobOK(s, j) /\ job' = [job EXCEPT ![n][s] = j]
<1>1. JobOK(s, NoJob) /\ JobOK(s, [NoJob EXCEPT !.result = out])
  BY FreshJobs, PlanOfSignal DEF HistoryInv
<1> QED
  BY <1>1 DEF JobOver

\* replan.completed reports what the handler did.
LEMMA EmitStep ==
  ASSUME HistoryInv, NEW n \in Nodes, NEW s \in Signals, EmitCompleted(n, s)
  PROVE  HistoryInv'
<1>1. job[n][s] \in JobType /\ job[n][s].pc = "emit" /\ JobOK(s, job[n][s])
  BY DEF HistoryInv, EmitCompleted
<1>2. PICK out \in SignalStatus : out = job[n][s].result
  BY <1>1 DEF JobType
<1>3. Backed(s, out, job[n][s].version)
  BY <1>1, <1>2 DEF JobOK
<1>4. /\ versions' = versions /\ current' = current /\ status' = status /\ resultOf' = resultOf
      /\ events' = events \cup {Completed(s, out)} /\ JobOver(n, s, out)
  BY <1>2 DEF EmitCompleted, store
<1>5. PICK j : JobOK(s, j) /\ job' = [job EXCEPT ![n][s] = j]
  BY <1>4, JobOverJob
<1>6. ASSUME NEW t \in Signals, Completed(t, "applied") \in events'
      PROVE  Completed(t, "applied") \in events \/ \E r \in versions[PlanOf[t]] : r.by = t
  BY <1>3, <1>4, <1>6 DEF Completed, Backed
<1> QED
  BY <1>4, <1>5, <1>6, SameRows, JobChange

\* A planner that panics leaves no claim.
LEMMA PanicStep ==
  ASSUME HistoryInv, NEW n \in Nodes, NEW s \in Signals, HandlerPanics(n, s)
  PROVE  HistoryInv'
<1>1. UNCHANGED <<store, events>> /\ JobOver(n, s, "failed") /\ "failed" \in SignalStatus
  BY DEF HandlerPanics, SignalStatus
<1>2. PICK j : JobOK(s, j) /\ job' = [job EXCEPT ![n][s] = j]
  BY <1>1, JobOverJob
<1> QED
  BY <1>1, <1>2, SameRows, JobChange DEF store

\* The handler's context ends: what it claims stays as it was.
LEMMA CtxDoneStep ==
  ASSUME HistoryInv, NEW n \in Nodes, NEW s \in Signals, CtxDone(n, s)
  PROVE  HistoryInv'
<1> DEFINE j == job[n][s]
           q == [j EXCEPT !.expired = TRUE]
<1>1. JobOK(s, j) /\ j \in JobType
  BY DEF HistoryInv
<1>2. /\ q \in JobType /\ q.pc = j.pc /\ q.base = j.base /\ q.attempt = j.attempt
      /\ q.content = j.content /\ q.result = j.result /\ q.version = j.version
  BY <1>1 DEF JobType
<1>3. Goto(n, s, q)
  BY DEF CtxDone
<1> HIDE DEF q, j
<1>4. JobOK(s, q)
  BY <1>1, <1>2 DEF JobOK
<1> QED
  BY <1>3, <1>4, GotoChange

\* A store call that fails, or that is committed and fails, leaves a contiguous history.
LEMMA StoreFaultStep ==
  ASSUME HistoryInv, NEW n \in Nodes, NEW s \in Signals, StoreFault(n, s)
  PROVE  HistoryInv'
<1> DEFINE j == job[n][s]
           p == PlanOf[s]
           q == [j EXCEPT !.pc = "emit"]
<1>1. j \in JobType /\ JobOK(s, j) /\ UNCHANGED <<status, resultOf, events>>
  BY DEF HistoryInv, StoreFault
<1>2. CASE /\ j.pc \in {"load", "write"} /\ job' = [job EXCEPT ![n][s] = Failed(j)]
           /\ UNCHANGED <<versions, current>>
  <2>1. JobOK(s, Failed(j))
    BY <1>1, <1>2, FailedJob, MovedJob
  <2> QED
    BY <1>1, <1>2, <2>1, SameRows, JobChange
<1>3. CASE /\ j.pc = "write" /\ ~Taken(p, j.base + 1)
           /\ InsertVersion(p, j.base + 1, j.content, s)
           /\ job' = [job EXCEPT ![n][s] = Failed(j)]
  BY <1>1, <1>3, FailedJob, InsertChange
<1>4. CASE /\ j.pc = "mark" /\ job' = [job EXCEPT ![n][s].pc = "emit"]
           /\ UNCHANGED <<versions, current>>
  <2>1. JobOK(s, q)
    BY <1>1, <1>4, EmittingJob
  <2>2. job' = [job EXCEPT ![n][s] = q]
    BY <1>4 DEF HistoryInv
  <2> QED
    BY <1>1, <1>4, <2>1, <2>2, SameRows, JobChange
<1> QED
  BY <1>2, <1>3, <1>4 DEF StoreFault

\* A crash forgets handlers; the store keeps what they wrote.
LEMMA CrashStep ==
  ASSUME HistoryInv, NEW n \in Nodes, Crash(n)
  PROVE  HistoryInv'
<1>1. \A t \in Signals : JobOK(t, NoJob) /\ NoJob \in JobType
  BY FreshJobs, PlanOfSignal DEF HistoryInv, JobOK
<1>2. job' = [job EXCEPT ![n] = [s \in Signals |-> NoJob]] /\ UNCHANGED <<store, events>>
  BY DEF Crash
<1>3. job' \in [Nodes -> [Signals -> JobType]]
  BY <1>1, <1>2 DEF HistoryInv
<1>4. ASSUME NEW m \in Nodes, NEW t \in Signals
      PROVE  JobOK(t, job'[m][t])
  <2>1. job'[m][t] = IF m = n THEN NoJob ELSE job[m][t]
    BY <1>2 DEF HistoryInv
  <2> QED
    BY <1>1, <2>1 DEF HistoryInv
<1> QED
  BY <1>2, <1>3, <1>4, SameRows, SameHistory DEF store

\* A handler begins with nothing to answer for, in the call or in a worker.
LEMMA BeginStep ==
  ASSUME HistoryInv, TypeInv,
         \/ \E n \in Nodes, p \in Plans : BeginJob(n, p)
         \/ \E s \in Signals : ApplyEnqueue(s)
  PROVE  HistoryInv'
<1>1. ASSUME NEW n \in Nodes, NEW s \in Signals, job' = [job EXCEPT ![n][s] = NewJob],
             UNCHANGED <<store, events>>
      PROVE  HistoryInv'
  <2>1. JobOK(s, NewJob)
    BY FreshJobs, PlanOfSignal DEF HistoryInv
  <2> QED
    BY <1>1, <2>1, SameRows, JobChange DEF store
<1>2. ASSUME NEW n \in Nodes, NEW p \in Plans, BeginJob(n, p)
      PROVE  HistoryInv'
  <2>1. Head(fifo[n][p]) \in Signals
    BY <1>2, BacklogFacts DEF BeginJob, TypeInv
  <2> QED
    BY <1>1, <1>2, <2>1 DEF BeginJob
<1>3. ASSUME NEW s \in Signals, ApplyEnqueue(s)
      PROVE  HistoryInv'
  <2>1. call[s].node \in Nodes
    BY DEF TypeInv, CallType
  <2>2. CASE Async
    BY <1>3, <2>2, SameRows, SameHistory DEF ApplyEnqueue, HistoryInv, store
  <2>3. CASE ~Async
    BY <1>1, <1>3, <2>1, <2>3 DEF ApplyEnqueue
  <2> QED
    BY <2>2, <2>3
<1> QED
  BY <1>2, <1>3

\* A call stores a pending row, which claims nothing, and answers.
LEMMA CallSteps ==
  ASSUME HistoryInv, TypeInv, NEW s \in Signals,
         ApplyCheck(s) \/ ApplyStore(s) \/ ApplyFault(s) \/ ApplyReturn(s)
  PROVE  HistoryInv'
<1>1. CASE ApplyCheck(s) \/ ApplyStore(s) \/ ApplyFault(s)
  <2>1. UNCHANGED <<versions, current, resultOf, job, events>>
    BY <1>1 DEF ApplyCheck, ApplyStore, ApplyFault, store
  <2>2. status' = status \/ status' = [status EXCEPT ![s] = "pending"]
    BY <1>1 DEF ApplyCheck, ApplyStore, ApplyFault, store
  <2>3. /\ status' \in [Signals -> SignalStatus \cup {"none"}]
        /\ \A t \in Signals : Backed(t, status'[t], resultOf'[t])
    BY <2>1, <2>2 DEF HistoryInv, SignalStatus, Backed
  <2> QED
    BY <2>1, <2>3, SameHistory DEF HistoryInv
<1>2. CASE ApplyReturn(s)
  <2> DEFINE n == call[s].node
  <2>1. n \in Nodes
    BY DEF TypeInv, CallType
  <2>2. /\ UNCHANGED store
        /\ \A t \in Signals : Completed(t, "applied") \in events' => Completed(t, "applied") \in events
    BY <1>2 DEF ApplyReturn, Completed, Received
  <2>3. CASE Async
    BY <1>2, <2>2, <2>3, SameRows, SameHistory DEF ApplyReturn, HistoryInv, store
  <2>4. CASE ~Async
    <3>1. JobOK(s, NoJob)
      BY FreshJobs, PlanOfSignal DEF HistoryInv
    <3> QED
      BY <1>2, <2>1, <2>2, <2>4, <3>1, SameRows, JobChange DEF ApplyReturn, store
  <2> QED
    BY <2>3, <2>4
<1> QED
  BY <1>1, <1>2

\* Every plan starts with its first version.
LEMMA HistoryInit ==
  ASSUME Init
  PROVE  HistoryInv
<1> DEFINE first == [num |-> 1, content |-> InitialContent, by |-> NoSignal]
<1>1. first \in Rows /\ first.num = 1
  BY ReplanningAssumption DEF Rows
<1>2. /\ versions = [p \in Plans |-> {first}] /\ current = [p \in Plans |-> 1]
      /\ status = [s \in Signals |-> "none"] /\ resultOf = [s \in Signals |-> 0]
      /\ job = [n \in Nodes |-> [s \in Signals |-> NoJob]] /\ events = {}
  BY DEF Init
<1> HIDE DEF first
<1>3. \A p \in Plans : Log(p)
  BY <1>1, <1>2 DEF Log
<1>4. \A s \in Signals : JobOK(s, NoJob) /\ NoJob \in JobType
  BY <1>3, FreshJobs, PlanOfSignal DEF JobOK
<1>5. \A s \in Signals : Backed(s, status[s], resultOf[s])
  BY <1>2 DEF Backed
<1>6. versions \in [Plans -> SUBSET Rows] /\ current \in [Plans -> Nat]
  BY <1>1, <1>2
<1> QED
  BY <1>2, <1>3, <1>4, <1>5, <1>6 DEF HistoryInv

\* The processes at the start.
LEMMA TypeInit ==
  ASSUME Init
  PROVE  TypeInv
<1>1. <<>> \in Backlog
  BY BacklogFacts
<1>2. call \in [Signals -> CallType]
  BY DEF Init, CallType, CallPCs
<1>3. recovery \in [Nodes -> ScanType]
  BY DEF Init, StartScan, NoScan, ScanType
<1> QED
  BY <1>1, <1>2, <1>3 DEF Init, TypeInv, EmptyQueue, NothingRuns

\* Every step keeps the history, its rows and its handlers in agreement.
LEMMA HistoryStays ==
  ASSUME HistoryInv, TypeInv, [Next]_vars
  PROVE  HistoryInv'
<1>1. ASSUME NEW s \in Signals, ApplyCheck(s) \/ CallStep(s) \/ ApplyFault(s)
      PROVE  HistoryInv'
  BY <1>1, CallSteps, BeginStep DEF CallStep
<1>2. ASSUME NEW n \in Nodes, NEW p \in Plans, BeginJob(n, p)
      PROVE  HistoryInv'
  BY <1>2, BeginStep
<1>3. ASSUME NEW n \in Nodes, NEW s \in Signals,
             HandlerStep(n, s) \/ PlannerError(n, s) \/ HandlerPanics(n, s)
               \/ CtxDone(n, s) \/ StoreFault(n, s)
      PROVE  HistoryInv'
  BY <1>3, LoadStep, EvaluateStep, WriteStep, MarkStep, EmitStep, PlannerErrorStep, PanicStep,
     CtxDoneStep, StoreFaultStep DEF HandlerStep
<1>4. ASSUME NEW n \in Nodes, Crash(n)
      PROVE  HistoryInv'
  BY <1>4, CrashStep
<1>5. ASSUME UNCHANGED <<store, job, events>>
      PROVE  HistoryInv'
  BY <1>5, SameRows, SameHistory DEF HistoryInv, store
<1>6. ASSUME NEW n \in Nodes, Restart(n) \/ RecoverScan(n) \/ RecoverNext(n)
      PROVE  HistoryInv'
  BY <1>5, <1>6 DEF Restart, RecoverScan, RecoverNext
<1>7. ASSUME NEW p \in Plans, NEW st \in GoalMoves, SetGoalStatus(p, st)
      PROVE  HistoryInv'
  BY <1>5, <1>7 DEF SetGoalStatus
<1>8. CASE UNCHANGED vars
  BY <1>5, <1>8 DEF vars, store
<1> QED
  BY <1>1, <1>2, <1>3, <1>4, <1>6, <1>7, <1>8 DEF Next

\* Types and history, in every reachable state.
LEMMA HistoryInvariant == Spec => [](TypeInv /\ HistoryInv)
BY HistoryInit, TypeInit, HistoryStays, TypesStay, PTL DEF Spec

-----------------------------------------------------------------------------
(* What the history promises.                                              *)

\* An outcome a signal's row or a replan.completed event reports has its version in
\* the plan's history, written for that signal when it says applied (markSignal after
\* CreatePlanVersion, whatever fails, crashes or expires in between).
THEOREM RecordedOutcomesHaveVersions == Spec => []AppliedHasVersion
<1>1. HistoryInv => AppliedHasVersion
  BY DEF HistoryInv, AppliedHasVersion, Backed
<1> QED
  BY <1>1, HistoryInvariant, PTL

\* The number of versions is the number of the last one.
LEMMA VersionsCounted ==
  ASSUME NEW p \in Plans, Log(p)
  PROVE  Cardinality(versions[p]) = current[p]
<1> DEFINE rowOf == [i \in 1..current[p] |-> CHOOSE r \in versions[p] : r.num = i]
<1>1. \A i \in 1..current[p] : rowOf[i] \in versions[p] /\ rowOf[i].num = i
  BY DEF Log
<1>2. \A r \in versions[p] : r.num \in 1..current[p] /\ rowOf[r.num] = r
  BY <1>1 DEF Log
<1> HIDE DEF rowOf
<1>3. rowOf \in Bijection(1..current[p], versions[p])
  <2>1. rowOf \in [1..current[p] -> versions[p]]
    BY <1>1 DEF rowOf
  <2>2. \A i, k \in 1..current[p] : rowOf[i] = rowOf[k] => i = k
    BY <1>1
  <2>3. \A r \in versions[p] : \E i \in 1..current[p] : rowOf[i] = r
    BY <1>2
  <2> QED
    BY <2>1, <2>2, <2>3 DEF Bijection, Injection, Surjection, IsInjective
<1>4. current[p] \in Nat \ {0}
  BY DEF Log
<1>5. IsFiniteSet(1..current[p]) /\ Cardinality(1..current[p]) = current[p]
  BY <1>4, FS_Interval
<1> QED
  BY <1>3, <1>5, FS_Bijection DEF ExistsBijection

\* A handler is in attempt k only if at least k - 1 versions follow the plan's first: each
\* conflict it met was a version somebody else wrote (processReplan's retry loop), so
\* handlers of one plan cannot starve one another without the plan moving on.
THEOREM ConflictsArePaidFor == Spec => []RetryMeansProgress
<1>1. ASSUME HistoryInv, NEW n \in Nodes, NEW s \in Signals, job[n][s].pc # "idle"
      PROVE  job[n][s].attempt <= Cardinality(versions[PlanOf[s]])
  <2>1. JobOK(s, job[n][s]) /\ Log(PlanOf[s]) /\ PlanOf[s] \in Plans
    BY <1>1, PlanOfSignal DEF HistoryInv
  <2> QED
    BY <1>1, <2>1, VersionsCounted DEF JobOK
<1>2. HistoryInv => RetryMeansProgress
  BY <1>1 DEF RetryMeansProgress
<1> QED
  BY <1>2, HistoryInvariant, PTL

-----------------------------------------------------------------------------
(* The store implements the append-only log of material versions.          *)

\* The i-th version of plan p, as the log shows it.
Entry(p, i) ==
  LET r == CHOOSE r \in versions[p] : r.num = i
  IN [content |-> r.content, by |-> r.by]

HistoryLog == [p \in Plans |-> [i \in 1..current[p] |-> Entry(p, i)]]

\* A step that writes no version leaves the log alone.
LEMMA LogStutters ==
  ASSUME versions' = versions, current' = current
  PROVE  HistoryLog' = HistoryLog
BY DEF HistoryLog, Entry

\* Appending to a sequence that is given entry by entry.
LEMMA AppendToEntries ==
  ASSUME NEW k \in Nat, NEW f, f = [i \in 1..k |-> f[i]], NEW e
  PROVE  Append(f, e) = [i \in 1..(k + 1) |-> IF i = k + 1 THEN e ELSE f[i]]
<1>1. PICK S : S = {f[i] : i \in 1..k}
  OBVIOUS
<1>2. f \in [1..k -> S]
  BY <1>1
<1>3. f \in Seq(S) /\ Len(f) = k
  BY <1>2
<1> QED
  BY <1>3

\* An insert appends one entry to the log of its plan, a material change of the last one.
LEMMA InsertAppends ==
  ASSUME HistoryInv, NEW n \in Nodes, NEW s \in Signals, job[n][s].pc = "write",
         ~Taken(PlanOf[s], job[n][s].base + 1),
         InsertVersion(PlanOf[s], job[n][s].base + 1, job[n][s].content, s), HistoryInv'
  PROVE  LET p == PlanOf[s]
             c == job[n][s].content
         IN /\ c \in Contents /\ p \in Plans
            /\ IsMaterial(HistoryLog[p][Len(HistoryLog[p])].content, c)
            /\ HistoryLog' = [HistoryLog EXCEPT ![p] = Append(@, [content |-> c, by |-> s])]
<1>0. PICK p, b, c : p = PlanOf[s] /\ b = job[n][s].base /\ c = job[n][s].content
  OBVIOUS
<1> DEFINE row == [num |-> b + 1, content |-> c, by |-> s]
<1>1. /\ b = current[p] /\ current' = [current EXCEPT ![p] = b + 1]
      /\ versions' = [versions EXCEPT ![p] = @ \cup {row}] /\ row \in Rows
  BY <1>0, InsertFacts
<1>2. /\ p \in Plans /\ \A x \in Plans : Log(x) /\ Log(x)'
      /\ versions \in [Plans -> SUBSET Rows] /\ current \in [Plans -> Nat]
      /\ JobOK(s, job[n][s])
  BY <1>0, PlanOfSignal DEF HistoryInv
<1>3. /\ row.num = b + 1 /\ row.content = c /\ row.by = s
      /\ c \in Contents /\ IsMaterial(ContentOf(p, b), c)
  BY <1>0, <1>2 DEF JobOK, JobType
<1> HIDE DEF row
<1>4. /\ versions'[p] = versions[p] \cup {row} /\ current'[p] = current[p] + 1
      /\ \A x \in Plans : x # p => versions'[x] = versions[x] /\ current'[x] = current[x]
      /\ current[p] \in Nat \ {0}
  BY <1>1, <1>2 DEF Log
<1>5. ASSUME NEW i \in 1..current[p]
      PROVE  Entry(p, i)' = Entry(p, i)
  <2>1. PICK r \in versions[p] : r.num = i
    BY <1>2 DEF Log
  <2>2. r \in versions'[p]
    BY <1>4, <2>1
  <2>3. \A q \in versions[p] : q.num = i => q = r
    BY <1>2, <2>1 DEF Log
  <2>4. \A q \in versions'[p] : q.num = i => q = r
    BY <1>2, <2>1, <2>2 DEF Log
  <2>5. /\ (CHOOSE q \in versions[p] : q.num = i) = r
        /\ (CHOOSE q \in versions'[p] : q.num = i) = r
    BY <2>1, <2>2, <2>3, <2>4
  <2> QED
    BY <2>5 DEF Entry
<1>6. ASSUME NEW i, i = current[p] + 1
      PROVE  Entry(p, i)' = [content |-> c, by |-> s]
  <2>1. row \in versions'[p] /\ row.num = i /\ \A q \in versions'[p] : q.num = i => q = row
    BY <1>1, <1>2, <1>3, <1>4, <1>6 DEF Log
  <2>2. (CHOOSE q \in versions'[p] : q.num = i) = row
    BY <2>1
  <2> QED
    BY <1>3, <2>2 DEF Entry
<1>7. HistoryLog[p] = [i \in 1..current[p] |-> Entry(p, i)] /\ Len(HistoryLog[p]) = current[p]
  BY <1>2, <1>4 DEF HistoryLog
<1>8. IsMaterial(HistoryLog[p][Len(HistoryLog[p])].content, c)
  <2>1. HistoryLog[p][b] = Entry(p, b) /\ Entry(p, b).content = ContentOf(p, b)
    <3>1. HistoryLog[p][b] = Entry(p, b)
      BY <1>1, <1>4, <1>7
    <3>2. PICK r \in versions[p] : r.num = b
      BY <1>1, <1>2, <1>4 DEF Log
    <3>3. \A q \in versions[p] : q.num = b => q = r
      BY <1>2, <3>2 DEF Log
    <3>4. (CHOOSE q \in versions[p] : q.num = b) = r
      BY <3>2, <3>3
    <3> QED
      BY <3>1, <3>4, <1>2, <3>2, ContentOfRow DEF Entry
  <2> QED
    BY <1>1, <1>3, <1>7, <2>1
<1>9. HistoryLog'[p] = Append(HistoryLog[p], [content |-> c, by |-> s])
  <2>1. HistoryLog'[p] = [i \in 1..(current[p] + 1) |-> Entry(p, i)']
    BY <1>2, <1>4 DEF HistoryLog
  <2>2. PICK f : f = HistoryLog[p]
    OBVIOUS
  <2>3. /\ f = [i \in 1..current[p] |-> f[i]]
        /\ \A i \in 1..current[p] : f[i] = Entry(p, i)
    BY <1>7, <2>2
  <2>4. Append(f, [content |-> c, by |-> s])
          = [i \in 1..(current[p] + 1) |-> IF i = current[p] + 1 THEN [content |-> c, by |-> s] ELSE f[i]]
    BY <1>4, <2>3, AppendToEntries
  <2>5. ASSUME NEW i \in 1..(current[p] + 1)
        PROVE  Entry(p, i)' = IF i = current[p] + 1 THEN [content |-> c, by |-> s] ELSE f[i]
    <3>1. CASE i = current[p] + 1
      BY <1>6, <3>1
    <3>2. CASE i # current[p] + 1
      <4>1. i \in 1..current[p]
        BY <1>4, <3>2
      <4> QED
        BY <1>5, <2>3, <3>2, <4>1
    <3> QED
      BY <3>1, <3>2
  <2> QED
    BY <2>1, <2>2, <2>4, <2>5
<1>10. \A x \in Plans : x # p => HistoryLog'[x] = HistoryLog[x]
  BY <1>4 DEF HistoryLog, Entry
<1>11. HistoryLog' = [HistoryLog EXCEPT ![p] = Append(@, [content |-> c, by |-> s])]
  BY <1>2, <1>9, <1>10 DEF HistoryLog
<1> QED
  BY <1>0, <1>2, <1>3, <1>8, <1>11

\* The log starts with version 1 of every plan.
LEMMA LogInit ==
  ASSUME Init
  PROVE  History!HInit
<1> SUFFICES ASSUME NEW p \in Plans
             PROVE  Len(HistoryLog[p]) = 1 /\ HistoryLog[p][1].content = InitialContent
  BY DEF History!HInit, HistoryLog, Entry
<1>1. current[p] = 1 /\ versions[p] = {[num |-> 1, content |-> InitialContent, by |-> NoSignal]}
  BY DEF Init
<1>2. Entry(p, 1).content = InitialContent
  <2>1. PICK first : first = [num |-> 1, content |-> InitialContent, by |-> NoSignal]
    OBVIOUS
  <2>2. first.num = 1 /\ first.content = InitialContent /\ versions[p] = {first}
    BY <1>1, <2>1
  <2>3. (CHOOSE r \in versions[p] : r.num = 1) = first
    BY <2>2
  <2> QED
    BY <2>2, <2>3 DEF Entry
<1>3. HistoryLog[p] = [i \in 1..1 |-> Entry(p, i)]
  BY <1>1 DEF HistoryLog
<1> QED
  BY <1>2, <1>3

\* Only the insert of a version changes the log.
LEMMA LogStep ==
  ASSUME HistoryInv, HistoryInv', [Next]_vars
  PROVE  \/ HistoryLog' = HistoryLog
         \/ \E p \in Plans : \E c \in Contents, a \in Signals :
              /\ IsMaterial(HistoryLog[p][Len(HistoryLog[p])].content, c)
              /\ HistoryLog' = [HistoryLog EXCEPT ![p] = Append(@, [content |-> c, by |-> a])]
<1>1. ASSUME NEW n \in Nodes, NEW s \in Signals, Write(n, s) \/ StoreFault(n, s),
             ~UNCHANGED <<versions, current>>
      PROVE  \E p \in Plans : \E c \in Contents, a \in Signals :
              /\ IsMaterial(HistoryLog[p][Len(HistoryLog[p])].content, c)
              /\ HistoryLog' = [HistoryLog EXCEPT ![p] = Append(@, [content |-> c, by |-> a])]
  <2>1. /\ job[n][s].pc = "write" /\ ~Taken(PlanOf[s], job[n][s].base + 1)
        /\ InsertVersion(PlanOf[s], job[n][s].base + 1, job[n][s].content, s)
    BY <1>1 DEF Write, StoreFault, Goto, store
  <2>2. PICK p, c : p = PlanOf[s] /\ c = job[n][s].content
    OBVIOUS
  <2>3. /\ c \in Contents /\ p \in Plans
        /\ IsMaterial(HistoryLog[p][Len(HistoryLog[p])].content, c)
        /\ HistoryLog' = [HistoryLog EXCEPT ![p] = Append(@, [content |-> c, by |-> s])]
    BY <2>1, <2>2, InsertAppends
  <2> QED
    BY <2>3
<1>2. \/ UNCHANGED <<versions, current>>
      \/ \E n \in Nodes, s \in Signals : Write(n, s) \/ StoreFault(n, s)
  <2>1. ASSUME NEW s \in Signals, ApplyCheck(s) \/ CallStep(s) \/ ApplyFault(s)
        PROVE  UNCHANGED <<versions, current>>
    BY <2>1 DEF CallStep, ApplyCheck, ApplyStore, ApplyFault, ApplyEnqueue, ApplyReturn, store
  <2>2. ASSUME NEW n \in Nodes, NEW p \in Plans, BeginJob(n, p)
        PROVE  UNCHANGED <<versions, current>>
    BY <2>2 DEF BeginJob, store
  <2>3. ASSUME NEW n \in Nodes, NEW s \in Signals,
               HandlerStep(n, s) \/ PlannerError(n, s) \/ HandlerPanics(n, s) \/ CtxDone(n, s)
        PROVE  UNCHANGED <<versions, current>> \/ Write(n, s)
    BY <2>3 DEF HandlerStep, Load, Evaluate, Mark, EmitCompleted, PlannerError, HandlerPanics,
                CtxDone, Goto, store
  <2>4. ASSUME NEW n \in Nodes, Crash(n) \/ Restart(n) \/ RecoverScan(n) \/ RecoverNext(n)
        PROVE  UNCHANGED <<versions, current>>
    BY <2>4 DEF Crash, Restart, RecoverScan, RecoverNext, store
  <2>5. ASSUME NEW p \in Plans, NEW st \in GoalMoves, SetGoalStatus(p, st)
        PROVE  UNCHANGED <<versions, current>>
    BY <2>5 DEF SetGoalStatus, store
  <2>6. CASE UNCHANGED vars
    BY <2>6 DEF vars
  <2> QED
    BY <2>1, <2>2, <2>3, <2>4, <2>5, <2>6 DEF Next
<1> QED
  BY <1>1, <1>2, LogStutters

\* The rows of plan_version, read as a sequence per plan, behave as the decision history of
\* docs/concepts.md: append-only, no version rewritten, no version without a material
\* change against the one before it - with any number of handlers, conflicts, crashes,
\* expired contexts and lost answers (CreatePlanVersion, processReplan).
THEOREM StoreImplementsPlanHistory == Spec => ImplementsPlanHistory
<1>1. Init => History!HInit
  BY LogInit
<1>2. HistoryInv /\ HistoryInv' /\ [Next]_vars => [History!HNext]_HistoryLog
  BY LogStep DEF History!HNext, History!AppendVersion, HistoryLog, Entry
<1> QED
  BY <1>1, <1>2, HistoryInvariant, PTL DEF Spec, ImplementsPlanHistory, History!HSpec, HistoryLog, Entry

-----------------------------------------------------------------------------
(* A handler's step inside its run.                                        *)

Outcomes == SignalStatus \ {"pending"}

\* What any step of a running handler of s on n does, when it leaves the handler as q:
\* only the mark touches the row, only the write touches the history.
Moves(n, s, q) ==
  LET j == job[n][s]
  IN /\ job' = [job EXCEPT ![n][s] = q]
     /\ j.pc \in {"load", "plan", "write", "mark"}
     /\ q.pc \in {"load", "plan", "write", "mark", "emit"}
     /\ UNCHANGED <<queue, rest, call, events, crashes>>
     /\ stranded \subseteq stranded'
     /\ q.expired => j.expired \/ CtxEnds
     /\ j.pc = "mark" => q.pc \in {"mark", "emit"} /\ q.result = j.result
     /\ j.pc # "mark" /\ q.pc = "mark" => q.result \in Outcomes
     /\ \/ q.pc # "emit" /\ status' = status
        \/ /\ j.pc = "mark" /\ q.pc = "emit"
           /\ \/ ~j.expired /\ status' = [status EXCEPT ![s] = q.result]
              \/ (j.expired \/ faults < MaxFaults) /\ status' = status /\ s \in stranded'
     /\ \/ versions' = versions
        \/ /\ j.pc = "write" /\ q.pc = "mark"
           /\ versions' = [versions EXCEPT ![PlanOf[s]] = @ \cup
                {[num |-> j.base + 1, content |-> j.content, by |-> s]}]

HandlerMoves(n, s) ==
  Load(n, s) \/ Evaluate(n, s) \/ Write(n, s) \/ Mark(n, s) \/ PlannerError(n, s)
    \/ CtxDone(n, s) \/ StoreFault(n, s)

\* A failed replan is on its way to the mark.
LEMMA FailedMoves ==
  ASSUME HistoryInv, NEW n \in Nodes, NEW s \in Signals,
         job[n][s].pc \in {"load", "plan", "write"}, Goto(n, s, Failed(job[n][s]))
  PROVE  Moves(n, s, Failed(job[n][s]))
<1> DEFINE j == job[n][s]
           q == Failed(j)
<1>1. j \in JobType
  BY DEF HistoryInv
<1>2. q.pc = "mark" /\ q.result = "failed" /\ q.expired = j.expired
  BY <1>1 DEF JobType, Failed
<1>3. Goto(n, s, q) /\ j.pc \in {"load", "plan", "write"}
  OBVIOUS
<1> HIDE DEF q, j
<1> QED
  BY <1>2, <1>3 DEF Moves, Goto, store, Outcomes, SignalStatus, j, q

\* Every step of a running handler is such a move.
LEMMA HandlerStepsMove ==
  ASSUME HistoryInv, NEW n \in Nodes, NEW s \in Signals, HandlerMoves(n, s)
  PROVE  \E q \in JobType : Moves(n, s, q)
<1> DEFINE j == job[n][s]
<1>1. j \in JobType /\ Failed(j) \in JobType
  BY FailedJob DEF HistoryInv
<1>2. ASSUME Goto(n, s, Failed(j)), j.pc \in {"load", "plan", "write"}
      PROVE  \E q \in JobType : Moves(n, s, q)
  BY <1>1, <1>2, FailedMoves
<1>3. ASSUME NEW q \in JobType, Goto(n, s, q), j.pc \in {"load", "plan", "write"},
             q.pc \in {"load", "plan", "write"}, q.expired = j.expired \/ CtxEnds
      PROVE  Moves(n, s, q)
  BY <1>3 DEF Moves, Goto, store
<1>4. ASSUME NEW q \in JobType, Goto(n, s, q), j.pc \in {"load", "plan", "write"},
             q.pc = "mark", q.result \in Outcomes, q.expired = j.expired \/ CtxEnds
      PROVE  Moves(n, s, q)
  BY <1>4 DEF Moves, Goto, store
<1>5. CASE Load(n, s)
  <2> DEFINE q == [j EXCEPT !.pc = "plan", !.base = current[PlanOf[s]], !.tries = 0]
  <2>1. current[PlanOf[s]] \in Nat
    BY PlanOfSignal DEF HistoryInv
  <2>2. q \in JobType /\ q.pc = "plan" /\ q.expired = j.expired
    BY <1>1, <2>1 DEF JobType, JobPCs
  <2> QED
    BY <1>2, <1>3, <1>5, <2>2 DEF Load
<1>6. CASE Evaluate(n, s)
  <2> DEFINE u == [j EXCEPT !.pc = "mark", !.result = "unchanged", !.version = j.base]
             q(c) == [j EXCEPT !.pc = "write", !.content = c]
  <2>1. u \in JobType /\ u.pc = "mark" /\ u.result \in Outcomes /\ u.expired = j.expired
    BY <1>1 DEF JobType, JobPCs, SignalStatus, Outcomes
  <2>2. ASSUME NEW c \in Replies[s]
        PROVE  q(c) \in JobType /\ q(c).pc = "write" /\ q(c).expired = j.expired
    <3>1. c \in Contents
      BY ReplanningAssumption
    <3> QED
      BY <1>1, <3>1 DEF JobType, JobPCs
  <2>3. j.pc = "plan" /\ (Goto(n, s, u) \/ \E c \in Replies[s] : Goto(n, s, q(c)))
    BY <1>6 DEF Evaluate
  <2> HIDE DEF u, q
  <2> QED
    BY <1>3, <1>4, <2>1, <2>2, <2>3
<1>7. CASE PlannerError(n, s)
  <2> DEFINE q == [j EXCEPT !.tries = @ + 1]
  <2>1. j.pc = "plan" /\ (Goto(n, s, q) \/ Goto(n, s, Failed(j)))
    BY <1>7 DEF PlannerError
  <2>2. q \in JobType /\ q.pc = j.pc /\ q.expired = j.expired
    BY <1>1 DEF JobType
  <2> HIDE DEF q
  <2> QED
    BY <1>2, <1>3, <2>1, <2>2
<1>8. CASE Write(n, s)
  <2> DEFINE q == [j EXCEPT !.pc = "load", !.attempt = @ + 1]
  <2>1. q \in JobType /\ q.pc = "load" /\ q.expired = j.expired
    BY <1>1, WrittenJob DEF JobType
  <2>2. /\ Applied(j) \in JobType /\ Applied(j).pc = "mark" /\ Applied(j).result = "applied"
        /\ Applied(j).expired = j.expired
    BY <1>1, WrittenJob DEF JobType, Applied
  <2>3. CASE Goto(n, s, Failed(j))
    BY <1>2, <1>8, <2>3 DEF Write
  <2>4. CASE Goto(n, s, q)
    BY <1>3, <1>8, <2>1, <2>4 DEF Write
  <2>5. CASE /\ InsertVersion(PlanOf[s], j.base + 1, j.content, s)
             /\ job' = [job EXCEPT ![n][s] = Applied(j)]
             /\ UNCHANGED <<status, resultOf, queue, rest, call, events, stranded, crashes, faults>>
    <3>1. j.pc = "write"
      BY <1>8 DEF Write
    <3> QED
      BY <2>2, <2>5, <3>1 DEF Moves, InsertVersion, Outcomes, SignalStatus
  <2> QED
    BY <1>8, <2>3, <2>4, <2>5 DEF Write
<1>9. ASSUME job' = [job EXCEPT ![n][s].pc = "emit"]
      PROVE  /\ job' = [job EXCEPT ![n][s] = [j EXCEPT !.pc = "emit"]]
             /\ [j EXCEPT !.pc = "emit"] \in JobType /\ [j EXCEPT !.pc = "emit"].pc = "emit"
             /\ [j EXCEPT !.pc = "emit"].expired = j.expired
             /\ [j EXCEPT !.pc = "emit"].result = j.result
  BY <1>1, <1>9 DEF HistoryInv, JobType, JobPCs
<1>10. CASE Mark(n, s)
  <2> DEFINE q == [j EXCEPT !.pc = "emit"]
  <2>1. /\ j.pc = "mark" /\ job' = [job EXCEPT ![n][s].pc = "emit"]
        /\ UNCHANGED <<versions, queue, rest, call, events, crashes, faults>>
        /\ \/ j.expired /\ stranded' = stranded \cup {s} /\ status' = status
           \/ ~j.expired /\ stranded' = stranded /\ status' = [status EXCEPT ![s] = j.result]
    BY <1>10 DEF Mark, MarkSignalProcessed
  <2>2. /\ job' = [job EXCEPT ![n][s] = q] /\ q \in JobType /\ q.pc = "emit"
        /\ q.expired = j.expired /\ q.result = j.result
    BY <1>9, <2>1
  <2> HIDE DEF q
  <2> QED
    BY <2>1, <2>2 DEF Moves
<1>11. CASE CtxDone(n, s)
  <2> DEFINE q == [j EXCEPT !.expired = TRUE]
  <2>1. /\ CtxEnds /\ j.pc \in {"load", "plan", "write", "mark"} /\ Goto(n, s, q)
    BY <1>11 DEF CtxDone
  <2>2. q \in JobType /\ q.pc = j.pc /\ q.result = j.result
    BY <1>1 DEF JobType
  <2> HIDE DEF q
  <2> QED
    BY <2>1, <2>2 DEF Moves, Goto, store
<1>12. CASE StoreFault(n, s)
  <2> DEFINE q == [j EXCEPT !.pc = "emit"]
  <2>1. Failed(j).pc = "mark" /\ Failed(j).result \in Outcomes /\ Failed(j).expired = j.expired
    BY <1>1, FailedJob DEF Outcomes, SignalStatus, JobType, Failed
  <2>2. faults < MaxFaults /\ UNCHANGED <<status, queue, rest, call, events, crashes>>
    BY <1>12 DEF StoreFault
  <2>3. CASE /\ j.pc \in {"load", "write"} /\ job' = [job EXCEPT ![n][s] = Failed(j)]
             /\ UNCHANGED <<versions, stranded>>
    BY <1>1, <2>1, <2>2, <2>3 DEF Moves
  <2>4. CASE /\ j.pc = "write" /\ InsertVersion(PlanOf[s], j.base + 1, j.content, s)
             /\ job' = [job EXCEPT ![n][s] = Failed(j)] /\ UNCHANGED stranded
    BY <1>1, <2>1, <2>2, <2>4 DEF Moves, InsertVersion
  <2>5. CASE /\ j.pc = "mark" /\ job' = [job EXCEPT ![n][s].pc = "emit"]
             /\ stranded' = stranded \cup {s} /\ UNCHANGED versions
    <3>1. /\ job' = [job EXCEPT ![n][s] = q] /\ q \in JobType /\ q.pc = "emit"
          /\ q.expired = j.expired /\ q.result = j.result
      BY <1>9, <2>5
    <3> HIDE DEF q
    <3> QED
      BY <2>2, <2>5, <3>1 DEF Moves
  <2> QED
    BY <1>12, <2>3, <2>4, <2>5 DEF StoreFault
<1> QED
  BY <1>5, <1>6, <1>7, <1>8, <1>10, <1>11, <1>12 DEF HandlerMoves

-----------------------------------------------------------------------------
(* Who holds a signal: its call, a backlog, a handler, a scan.             *)

Active(n, s) == job[n][s].pc # "idle"
Holds(q, s) == \E i \in DOMAIN q : q[i] = s
InFifo(n, s) == Holds(fifo[n][PlanOf[s]], s)

\* A signal whose row is still to be created: nobody knows it.
Unborn(s) ==
  /\ status[s] = "none"
  /\ \A n \in Nodes : ~Seen(n, s) /\ s \notin recovery[n].left /\ ~Active(n, s)

UnbornInv == \A s \in Signals : call[s].pc \in {"new", "checked"} => Unborn(s)

\* What waits in a backlog has been accepted, and waits once, at its plan.
FifoInv ==
  \A n \in Nodes, p \in Plans :
    /\ \A i \in DOMAIN fifo[n][p] : Seen(n, fifo[n][p][i]) /\ PlanOf[fifo[n][p][i]] = p
    /\ \A i, k \in DOMAIN fifo[n][p] : fifo[n][p][i] = fifo[n][p][k] => i = k

\* A handler that is done with its replan has an outcome.
ResultInv ==
  \A n \in Nodes, s \in Signals : job[n][s].pc \in {"mark", "emit"} => job[n][s].result \in Outcomes

\* A queued handler runs a signal its node accepted and took out of the backlog; an inline
\* handler runs inside the one call that waits for it.
ActiveInv ==
  \A n \in Nodes, s \in Signals : Active(n, s) =>
    IF Async THEN Seen(n, s) /\ ~InFifo(n, s)
             ELSE call[s].pc = "waiting" /\ call[s].node = n

InlineInv == ~Async => \A n \in Nodes : recovery[n] = NoScan /\ fifo[n] = EmptyQueue

\* Who may hold a signal: this much holds with any number of nodes, crashes and failures.
HolderInv == UnbornInv /\ FifoInv /\ ResultInv /\ ActiveInv /\ InlineInv

\* What a backlog holds, as it grows and shrinks.
LEMMA HoldsFacts ==
  ASSUME NEW q \in Backlog, NEW t \in Signals
  PROVE  /\ \A s \in Signals : Holds(Append(q, s), t) <=> Holds(q, t) \/ t = s
         /\ q # <<>> => (Holds(q, t) <=> Holds(Tail(q), t) \/ t = Head(q))
<1>1. q \in Seq(Signals) /\ Len(q) \in Nat /\ DOMAIN q = 1..Len(q)
  BY DEF Backlog
<1>2. ASSUME NEW s \in Signals
      PROVE  Holds(Append(q, s), t) <=> Holds(q, t) \/ t = s
  <2>1. /\ DOMAIN Append(q, s) = 1..(Len(q) + 1) /\ Append(q, s)[Len(q) + 1] = s
        /\ \A i \in 1..Len(q) : Append(q, s)[i] = q[i]
    BY <1>1
  <2>2. Holds(q, t) => Holds(Append(q, s), t)
    BY <1>1, <2>1 DEF Holds
  <2>3. t = s => Holds(Append(q, s), t)
    <3>1. Len(q) + 1 \in DOMAIN Append(q, s)
      BY <1>1, <2>1
    <3> QED
      BY <2>1, <3>1 DEF Holds
  <2>4. ASSUME NEW i \in 1..(Len(q) + 1), Append(q, s)[i] = t
        PROVE  Holds(q, t) \/ t = s
    <3>1. i \in 1..Len(q) \/ i = Len(q) + 1
      BY <1>1
    <3> QED
      BY <1>1, <2>1, <2>4, <3>1 DEF Holds
  <2> QED
    BY <2>1, <2>2, <2>3, <2>4 DEF Holds
<1>3. ASSUME q # <<>>
      PROVE  Holds(q, t) <=> Holds(Tail(q), t) \/ t = Head(q)
  <2>1. /\ Len(q) \in Nat \ {0} /\ Head(q) = q[1] /\ DOMAIN Tail(q) = 1..(Len(q) - 1)
        /\ \A i \in 1..(Len(q) - 1) : Tail(q)[i] = q[i + 1]
    BY <1>1, <1>3
  <2>2. ASSUME NEW i \in 1..Len(q), q[i] = t
        PROVE  Holds(Tail(q), t) \/ t = Head(q)
    <3>1. CASE i = 1
      BY <2>1, <2>2, <3>1
    <3>2. CASE i # 1
      <4>1. i - 1 \in DOMAIN Tail(q) /\ Tail(q)[i - 1] = q[i]
        BY <2>1, <3>2
      <4> QED
        BY <2>2, <4>1 DEF Holds
    <3> QED
      BY <3>1, <3>2
  <2>3. ASSUME NEW i \in 1..(Len(q) - 1), Tail(q)[i] = t
        PROVE  Holds(q, t)
    <3>1. i + 1 \in DOMAIN q /\ q[i + 1] = t
      BY <1>1, <2>1, <2>3
    <3> QED
      BY <3>1 DEF Holds
  <2>4. t = Head(q) => Holds(q, t)
    <3>1. 1 \in DOMAIN q
      BY <1>1, <2>1
    <3> QED
      BY <2>1, <3>1 DEF Holds
  <2> QED
    BY <1>1, <2>1, <2>2, <2>3, <2>4 DEF Holds
<1> QED
  BY <1>2, <1>3

\* Enqueue on n: s is accepted there, and waits unless it was accepted before.
LEMMA EnqueueFacts ==
  ASSUME TypeInv, NEW n \in Nodes, NEW s \in Signals, Enqueue(n, s)
  PROVE  /\ \A m \in Nodes, t \in Signals : Seen(m, t)' <=> Seen(m, t) \/ (m = n /\ t = s)
         /\ \A m \in Nodes, t \in Signals :
              InFifo(m, t)' <=> InFifo(m, t) \/ (m = n /\ t = s /\ ~Seen(n, s))
         /\ \A m \in Nodes, p \in Plans : \A i \in DOMAIN fifo'[m][p] :
              \/ i \in DOMAIN fifo[m][p] /\ fifo'[m][p][i] = fifo[m][p][i]
              \/ /\ ~Seen(n, s) /\ m = n /\ p = PlanOf[s] /\ fifo'[m][p][i] = s
                 /\ i = Len(fifo[m][p]) + 1
<1>1. CASE Seen(n, s)
  <2>1. UNCHANGED <<fifo, seen>>
    BY <1>1 DEF Enqueue, queue
  <2> QED
    BY <1>1, <2>1 DEF Seen, InFifo, Holds
<1>2. CASE ~Seen(n, s)
  <2>1. /\ fifo' = [fifo EXCEPT ![n][PlanOf[s]] = Append(fifo[n][PlanOf[s]], s)]
        /\ seen' = [seen EXCEPT ![n] = Append(seen[n], s)]
    BY <1>2 DEF Enqueue
  <2>2. \A q \in Backlog : /\ Len(q) \in Nat /\ DOMAIN q = 1..Len(q)
                            /\ DOMAIN Append(q, s) = 1..(Len(q) + 1)
                            /\ Append(q, s)[Len(q) + 1] = s
                            /\ \A i \in 1..Len(q) : Append(q, s)[i] = q[i]
    BY DEF Backlog
  <2>3. PICK p \in Plans : p = PlanOf[s]
    BY PlanOfSignal
  <2>4. /\ fifo'[n][p] = Append(fifo[n][p], s) /\ seen'[n] = Append(seen[n], s)
        /\ \A m \in Nodes : m # n => seen'[m] = seen[m]
        /\ \A m \in Nodes, x \in Plans : ~(m = n /\ x = p) => fifo'[m][x] = fifo[m][x]
        /\ \A m \in Nodes : seen[m] \in Backlog /\ \A x \in Plans : fifo[m][x] \in Backlog
    BY <2>1, <2>3 DEF TypeInv
  <2>5. ASSUME NEW m \in Nodes, NEW t \in Signals
        PROVE  Seen(m, t)' <=> Seen(m, t) \/ (m = n /\ t = s)
    <3>1. CASE m = n
      <4>1. Seen(m, t) <=> Holds(seen[n], t)
        BY <3>1 DEF Seen, Holds
      <4>2. Seen(m, t)' <=> Holds(Append(seen[n], s), t)
        BY <2>4, <3>1 DEF Seen, Holds
      <4> QED
        BY <2>4, <3>1, <4>1, <4>2, HoldsFacts
    <3>2. CASE m # n
      BY <2>4, <3>2 DEF Seen
    <3> QED
      BY <3>1, <3>2
  <2>6. /\ DOMAIN fifo[n][p] = 1..Len(fifo[n][p]) /\ Len(fifo[n][p]) \in Nat
        /\ DOMAIN fifo'[n][p] = 1..(Len(fifo[n][p]) + 1)
        /\ \A i \in 1..Len(fifo[n][p]) : fifo'[n][p][i] = fifo[n][p][i]
        /\ fifo'[n][p][Len(fifo[n][p]) + 1] = s
    BY <2>2, <2>4
  <2>7. ASSUME NEW m \in Nodes, NEW x \in Plans, NEW i \in DOMAIN fifo'[m][x]
        PROVE  \/ i \in DOMAIN fifo[m][x] /\ fifo'[m][x][i] = fifo[m][x][i]
               \/ /\ ~Seen(n, s) /\ m = n /\ x = PlanOf[s] /\ fifo'[m][x][i] = s
                  /\ i = Len(fifo[m][x]) + 1
    <3>1. CASE m = n /\ x = p
      <4>1. i \in 1..(Len(fifo[n][p]) + 1)
        BY <2>6, <3>1
      <4>2. i \in 1..Len(fifo[n][p]) \/ i = Len(fifo[n][p]) + 1
        BY <2>6, <4>1
      <4> QED
        BY <1>2, <2>3, <2>6, <3>1, <4>2
    <3>2. CASE ~(m = n /\ x = p)
      BY <2>4, <3>2
    <3> QED
      BY <3>1, <3>2
  <2>8. ASSUME NEW m \in Nodes, NEW t \in Signals
        PROVE  InFifo(m, t)' <=> InFifo(m, t) \/ (m = n /\ t = s /\ ~Seen(n, s))
    <3>1. PICK x \in Plans : x = PlanOf[t]
      BY PlanOfSignal
    <3>2. CASE m = n /\ x = p
      <4>1. InFifo(m, t) <=> Holds(fifo[n][p], t)
        BY <3>1, <3>2 DEF InFifo
      <4>2. PICK k : k = fifo'[m][x]
        OBVIOUS
      <4>3. k = Append(fifo[n][p], s) /\ (InFifo(m, t)' <=> Holds(k, t))
        BY <2>4, <3>1, <3>2, <4>2 DEF InFifo, Holds
      <4> QED
        BY <1>2, <2>3, <2>4, <3>1, <3>2, <4>1, <4>3, HoldsFacts
    <3>3. CASE ~(m = n /\ x = p)
      BY <2>3, <2>4, <3>1, <3>3 DEF InFifo, Holds
    <3> QED
      BY <3>2, <3>3
  <2> QED
    BY <2>5, <2>7, <2>8
<1> QED
  BY <1>1, <1>2

\* BeginJob takes the head of a backlog: everything else waits on, one place further up.
LEMMA BeginFacts ==
  ASSUME TypeInv, NEW n \in Nodes, NEW p \in Plans, BeginJob(n, p)
  PROVE  LET h == Head(fifo[n][p])
         IN /\ h \in Signals /\ h = fifo[n][p][1] /\ 1 \in DOMAIN fifo[n][p]
            /\ job' = [job EXCEPT ![n][h] = NewJob]
            /\ \A m \in Nodes, t \in Signals :
                 InFifo(m, t) => InFifo(m, t)' \/ (m = n /\ t = h)
            /\ \A m \in Nodes, t \in Signals : InFifo(m, t)' => InFifo(m, t)
            /\ \A m \in Nodes, x \in Plans : \A i \in DOMAIN fifo'[m][x] :
                 \/ ~(m = n /\ x = p) /\ i \in DOMAIN fifo[m][x] /\ fifo'[m][x][i] = fifo[m][x][i]
                 \/ m = n /\ x = p /\ i \in Nat \ {0} /\ i + 1 \in DOMAIN fifo[m][x] /\ fifo'[m][x][i] = fifo[m][x][i + 1]
<1> DEFINE q == fifo[n][p]
<1>1. /\ fifo' = [fifo EXCEPT ![n][p] = Tail(q)] /\ q # <<>>
      /\ job' = [job EXCEPT ![n][Head(q)] = NewJob]
  BY DEF BeginJob
<1>2. q \in Backlog /\ fifo \in [Nodes -> [Plans -> Backlog]]
  BY DEF TypeInv
<1> HIDE DEF q
<1>3. /\ Len(q) \in Nat \ {0} /\ DOMAIN q = 1..Len(q) /\ Head(q) = q[1] /\ Head(q) \in Signals
      /\ DOMAIN Tail(q) = 1..(Len(q) - 1) /\ \A i \in 1..(Len(q) - 1) : Tail(q)[i] = q[i + 1]
  BY <1>1, <1>2 DEF Backlog
<1>4. /\ fifo'[n][p] = Tail(q) /\ fifo[n][p] = q
      /\ \A m \in Nodes, x \in Plans : ~(m = n /\ x = p) => fifo'[m][x] = fifo[m][x]
  BY <1>1, <1>2 DEF q
<1>5. ASSUME NEW m \in Nodes, NEW x \in Plans, NEW i \in DOMAIN fifo'[m][x]
      PROVE  \/ ~(m = n /\ x = p) /\ i \in DOMAIN fifo[m][x] /\ fifo'[m][x][i] = fifo[m][x][i]
             \/ m = n /\ x = p /\ i \in Nat \ {0} /\ i + 1 \in DOMAIN fifo[m][x] /\ fifo'[m][x][i] = fifo[m][x][i + 1]
  <2>1. CASE m = n /\ x = p
    BY <1>3, <1>4, <2>1
  <2>2. CASE ~(m = n /\ x = p)
    BY <1>4, <2>2
  <2> QED
    BY <2>1, <2>2
<1>6. ASSUME NEW m \in Nodes, NEW t \in Signals
      PROVE  /\ InFifo(m, t) => InFifo(m, t)' \/ (m = n /\ t = Head(q))
             /\ InFifo(m, t)' => InFifo(m, t)
  <2>1. PICK x \in Plans : x = PlanOf[t]
    BY PlanOfSignal
  <2>2. CASE m = n /\ x = p
    <3>1. InFifo(m, t) <=> Holds(q, t)
      BY <1>4, <2>1, <2>2 DEF InFifo
    <3>2. PICK k : k = fifo'[m][x]
      OBVIOUS
    <3>3. k = Tail(q) /\ (InFifo(m, t)' <=> Holds(k, t))
      BY <1>4, <2>1, <2>2, <3>2 DEF InFifo, Holds
    <3> QED
      BY <1>1, <1>2, <2>2, <3>1, <3>3, HoldsFacts
  <2>3. CASE ~(m = n /\ x = p)
    BY <1>4, <2>1, <2>3 DEF InFifo, Holds
  <2> QED
    BY <2>2, <2>3
<1> QED
  BY <1>1, <1>3, <1>5, <1>6 DEF q

\* What a step of a running handler leaves to the others.
LEMMA MoveFacts ==
  ASSUME HistoryInv, NEW n \in Nodes, NEW s \in Signals, NEW q \in JobType, Moves(n, s, q)
  PROVE  /\ \A m \in Nodes, t \in Signals : job'[m][t] = IF m = n /\ t = s THEN q ELSE job[m][t]
         /\ \A m \in Nodes, t \in Signals : Active(m, t)' <=> Active(m, t)
         /\ Active(n, s)
         /\ \A m \in Nodes, t \in Signals : Seen(m, t)' <=> Seen(m, t)
         /\ \A m \in Nodes, t \in Signals : InFifo(m, t)' <=> InFifo(m, t)
         /\ \A t \in Signals : t # s => status'[t] = status[t]
         /\ status'[s] = status[s] \/ status'[s] = q.result
<1>1. \A m \in Nodes, t \in Signals : job'[m][t] = IF m = n /\ t = s THEN q ELSE job[m][t]
  BY DEF Moves, HistoryInv
<1>2. Active(n, s) /\ q.pc # "idle"
  BY DEF Moves, Active
<1>3. \A m \in Nodes, t \in Signals : Active(m, t)' <=> Active(m, t)
  BY <1>1, <1>2 DEF Active
<1>4. /\ \A m \in Nodes, t \in Signals : Seen(m, t)' <=> Seen(m, t)
      /\ \A m \in Nodes, t \in Signals : InFifo(m, t)' <=> InFifo(m, t)
  <2>1. seen' = seen /\ fifo' = fifo
    BY DEF Moves, queue
  <2> QED
    BY <2>1 DEF Seen, InFifo, Holds
<1>5. /\ \A t \in Signals : t # s => status'[t] = status[t]
      /\ status'[s] = status[s] \/ status'[s] = q.result
  BY DEF Moves, HistoryInv
<1> QED
  BY <1>1, <1>2, <1>3, <1>4, <1>5

\* A running handler stays the holder of its signal.
LEMMA MoveHolder ==
  ASSUME HistoryInv, HolderInv, NEW n \in Nodes, NEW s \in Signals, NEW q \in JobType,
         Moves(n, s, q)
  PROVE  HolderInv'
<1>1. /\ \A m \in Nodes, t \in Signals : job'[m][t] = IF m = n /\ t = s THEN q ELSE job[m][t]
      /\ \A m \in Nodes, t \in Signals : Active(m, t)' <=> Active(m, t)
      /\ Active(n, s)
      /\ \A m \in Nodes, t \in Signals : Seen(m, t)' <=> Seen(m, t)
      /\ \A m \in Nodes, t \in Signals : InFifo(m, t)' <=> InFifo(m, t)
      /\ \A t \in Signals : t # s => status'[t] = status[t]
  BY MoveFacts
<1>2. UNCHANGED <<call, fifo, seen, recovery>>
  BY DEF Moves, queue, rest
<1>3. UnbornInv'
  <2>1. \A t \in Signals : call[t].pc \in {"new", "checked"} => t # s
    BY <1>1 DEF HolderInv, UnbornInv, Unborn
  <2> QED
    BY <1>1, <1>2, <2>1 DEF HolderInv, UnbornInv, Unborn
<1>4. FifoInv'
  BY <1>2 DEF HolderInv, FifoInv, Seen
<1>5. ResultInv'
  <2>1. q.pc \in {"mark", "emit"} => q.result \in Outcomes
    BY DEF Moves, HolderInv, ResultInv
  <2>2. ASSUME NEW m \in Nodes, NEW t \in Signals
        PROVE  job'[m][t].pc \in {"mark", "emit"} => job'[m][t].result \in Outcomes
    <3>1. CASE m = n /\ t = s
      BY <1>1, <2>1, <3>1
    <3>2. CASE ~(m = n /\ t = s)
      BY <1>1, <3>2 DEF HolderInv, ResultInv
    <3> QED
      BY <3>1, <3>2
  <2> QED
    BY <2>2 DEF ResultInv, Outcomes, SignalStatus
<1>6. ActiveInv'
  BY <1>1, <1>2 DEF HolderInv, ActiveInv
<1>7. InlineInv'
  BY <1>2 DEF HolderInv, InlineInv
<1> QED
  BY <1>3, <1>4, <1>5, <1>6, <1>7 DEF HolderInv

\* The two ways out of processReplan.
HandlerEnds(n, s) == EmitCompleted(n, s) \/ HandlerPanics(n, s)

\* A handler that is over is idle, and nothing else changes on its node; an inline call goes
\* on to its answer or its error.
LEMMA EndFacts ==
  ASSUME HistoryInv, TypeInv, NEW n \in Nodes, NEW s \in Signals, HandlerEnds(n, s)
  PROVE  /\ Active(n, s)
         /\ \A m \in Nodes, t \in Signals : ~(m = n /\ t = s) => job'[m][t] = job[m][t]
         /\ job'[n][s].pc = "idle" /\ job'[n][s].expired = FALSE
         /\ UNCHANGED <<store, fifo, seen, recovery, up, crashes>>
         /\ \A t \in Signals : t # s \/ Async => call'[t] = call[t]
         /\ ~Async => call'[s].pc \in {"dead", "answer"} /\ call'[s].node = call[s].node
<1>1. /\ Active(n, s) /\ UNCHANGED <<store, rest, crashes>>
      /\ \E out : JobOver(n, s, out)
  BY DEF HandlerEnds, EmitCompleted, HandlerPanics, Active
<1>2. PICK out : JobOver(n, s, out)
  BY <1>1
<1>3. UNCHANGED <<fifo, seen>>
  BY <1>2 DEF JobOver, queue
<1>4. PICK q : /\ q.pc = "idle" /\ q.expired = FALSE /\ job' = [job EXCEPT ![n][s] = q]
  <2>1. NoJob.pc = "idle" /\ NoJob.expired = FALSE
    BY DEF NoJob
  <2>2. [NoJob EXCEPT !.result = out].pc = "idle" /\ [NoJob EXCEPT !.result = out].expired = FALSE
    BY DEF NoJob
  <2> QED
    BY <1>2, <2>1, <2>2 DEF JobOver
<1>5. /\ \A m \in Nodes, t \in Signals : ~(m = n /\ t = s) => job'[m][t] = job[m][t]
      /\ job'[n][s] = q
  BY <1>4 DEF HistoryInv
<1>6. /\ \A t \in Signals : t # s \/ Async => call'[t] = call[t]
      /\ ~Async => call'[s].pc \in {"dead", "answer"} /\ call'[s].node = call[s].node
  BY <1>2 DEF JobOver, TypeInv, CallType
<1> QED
  BY <1>1, <1>3, <1>4, <1>5, <1>6 DEF rest

\* A handler that is over holds nothing.
LEMMA EndHolder ==
  ASSUME HistoryInv, TypeInv, HolderInv, NEW n \in Nodes, NEW s \in Signals, HandlerEnds(n, s)
  PROVE  HolderInv'
<1>1. /\ Active(n, s)
      /\ \A m \in Nodes, t \in Signals : ~(m = n /\ t = s) => job'[m][t] = job[m][t]
      /\ job'[n][s].pc = "idle"
      /\ UNCHANGED <<store, fifo, seen, recovery, up, crashes>>
      /\ \A t \in Signals : t # s \/ Async => call'[t] = call[t]
      /\ ~Async => call'[s].pc \in {"dead", "answer"} /\ call'[s].node = call[s].node
  BY EndFacts
<1>2. \A m \in Nodes, t \in Signals : Active(m, t)' => Active(m, t) /\ ~(m = n /\ t = s)
  BY <1>1 DEF Active
<1>3. /\ \A m \in Nodes, t \in Signals : Seen(m, t)' <=> Seen(m, t)
      /\ \A m \in Nodes, t \in Signals : InFifo(m, t)' <=> InFifo(m, t)
  BY <1>1 DEF Seen, InFifo, Holds
<1>4. UnbornInv'
  BY <1>1, <1>2, <1>3 DEF HolderInv, UnbornInv, Unborn, store
<1>5. FifoInv'
  BY <1>1 DEF HolderInv, FifoInv, Seen
<1>6. ResultInv'
  BY <1>1 DEF HolderInv, ResultInv, Outcomes, SignalStatus
<1>7. ActiveInv'
  BY <1>1, <1>2, <1>3 DEF HolderInv, ActiveInv
<1>8. InlineInv'
  BY <1>1 DEF HolderInv, InlineInv
<1> QED
  BY <1>4, <1>5, <1>6, <1>7, <1>8 DEF HolderInv

\* How a call moves on.
LEMMA CallFacts ==
  ASSUME TypeInv, NEW s \in Signals, NEW pc, call' = [call EXCEPT ![s].pc = pc]
  PROVE  /\ \A t \in Signals : t # s => call'[t] = call[t]
         /\ call'[s].pc = pc /\ call'[s].node = call[s].node
BY DEF TypeInv, CallType

\* A call that checks, stores or answers: nobody else is concerned.
LEMMA CallHolder ==
  ASSUME HistoryInv, TypeInv, HolderInv, NEW s \in Signals,
         ApplyCheck(s) \/ ApplyStore(s) \/ ApplyFault(s) \/ ApplyReturn(s)
  PROVE  /\ HolderInv' /\ UNCHANGED <<fifo, seen, recovery, up, crashes>>
         /\ \A m \in Nodes, t \in Signals : Active(m, t)' <=> Active(m, t)
<1>1. PICK pc : /\ call' = [call EXCEPT ![s].pc = pc]
                /\ \/ pc = "checked" /\ call[s].pc = "new" /\ status' = status
                   \/ pc \in {"stored", "dead"} /\ call[s].pc = "checked"
                   \/ pc = "done" /\ call[s].pc = "answer"
  BY DEF ApplyCheck, ApplyStore, ApplyFault, ApplyReturn, store
<1>2. /\ \A t \in Signals : t # s => call'[t] = call[t]
      /\ call'[s].pc = pc /\ call'[s].node = call[s].node
  BY <1>1, CallFacts
<1>3. /\ UNCHANGED <<fifo, seen, recovery, up, crashes>>
      /\ call[s].pc \in {"new", "checked", "answer"}
      /\ call'[s].pc \in {"new", "checked"} => call[s].pc = "new" /\ status' = status
  <2>1. UNCHANGED <<fifo, seen, recovery, up, crashes>>
    BY DEF ApplyCheck, ApplyStore, ApplyFault, ApplyReturn, queue, rest
  <2> QED
    BY <1>1, <1>2, <2>1
<1>4. \A t \in Signals : t # s => status'[t] = status[t]
  BY DEF ApplyCheck, ApplyStore, ApplyFault, ApplyReturn, store, HistoryInv
<1>5. ~Async => \A m \in Nodes : ~Active(m, s)
  BY <1>3 DEF HolderInv, ActiveInv
<1>6. \/ job' = job
      \/ ~Async /\ job' = [job EXCEPT ![call[s].node][s] = NoJob]
  BY DEF ApplyCheck, ApplyStore, ApplyFault, ApplyReturn
<1>7. \A m \in Nodes, t \in Signals :
        job'[m][t] = job[m][t] \/ (t = s /\ ~Async /\ job'[m][t] = NoJob)
  BY <1>6 DEF HistoryInv
<1>8. \A m \in Nodes, t \in Signals : Active(m, t)' <=> Active(m, t)
  BY <1>5, <1>7 DEF Active, NoJob
<1>9. /\ \A m \in Nodes, t \in Signals : Seen(m, t)' <=> Seen(m, t)
      /\ \A m \in Nodes, t \in Signals : InFifo(m, t)' <=> InFifo(m, t)
  BY <1>3 DEF Seen, InFifo, Holds
<1>10. UnbornInv'
  BY <1>2, <1>3, <1>4, <1>8, <1>9 DEF HolderInv, UnbornInv, Unborn
<1>11. FifoInv'
  BY <1>3 DEF HolderInv, FifoInv, Seen
<1>12. ResultInv'
  <2>1. NoJob.pc = "idle"
    BY DEF NoJob
  <2> QED
    BY <1>7, <2>1 DEF HolderInv, ResultInv, Outcomes, SignalStatus
<1>13. ActiveInv'
  BY <1>2, <1>5, <1>8, <1>9 DEF HolderInv, ActiveInv
<1>14. InlineInv'
  BY <1>3 DEF HolderInv, InlineInv
<1> QED
  BY <1>3, <1>8, <1>10, <1>11, <1>12, <1>13, <1>14 DEF HolderInv

\* An accepted signal waits once.
LEMMA EnqueueFifo ==
  ASSUME TypeInv, FifoInv, NEW n \in Nodes, NEW s \in Signals, Enqueue(n, s)
  PROVE  FifoInv'
<1>1. /\ \A m \in Nodes, t \in Signals : Seen(m, t)' <=> Seen(m, t) \/ (m = n /\ t = s)
      /\ \A m \in Nodes, p \in Plans : \A i \in DOMAIN fifo'[m][p] :
           \/ i \in DOMAIN fifo[m][p] /\ fifo'[m][p][i] = fifo[m][p][i]
           \/ /\ ~Seen(n, s) /\ m = n /\ p = PlanOf[s] /\ fifo'[m][p][i] = s
              /\ i = Len(fifo[m][p]) + 1
  BY EnqueueFacts
<1>2. ASSUME NEW m \in Nodes, NEW p \in Plans
      PROVE  \A i \in DOMAIN fifo[m][p] : fifo[m][p][i] \in Signals
  BY DEF TypeInv, Backlog
<1>3. ASSUME NEW m \in Nodes, NEW p \in Plans, NEW i \in DOMAIN fifo'[m][p]
      PROVE  Seen(m, fifo[m][p][i])' /\ PlanOf[fifo'[m][p][i]] = p
  <2>1. PICK e : e = fifo'[m][p][i]
    OBVIOUS
  <2>2. e \in Signals /\ (Seen(m, e) \/ (m = n /\ e = s)) /\ PlanOf[e] = p
    BY <1>1, <1>2, <2>1 DEF FifoInv
  <2>3. Seen(m, e)'
    BY <1>1, <2>2
  <2> QED
    BY <2>1, <2>2, <2>3 DEF Seen
<1>4. ASSUME NEW m \in Nodes, NEW p \in Plans, NEW i \in DOMAIN fifo'[m][p],
             NEW k \in DOMAIN fifo'[m][p], fifo'[m][p][i] = fifo'[m][p][k]
      PROVE  i = k
  <2>1. \A x \in DOMAIN fifo[m][p] : m = n /\ ~Seen(n, s) => fifo[m][p][x] # s
    BY DEF FifoInv
  <2> QED
    BY <1>1, <1>4, <2>1 DEF FifoInv
<1> QED
  BY <1>3, <1>4 DEF FifoInv

\* Enqueue, from a call or from the recovery scan.
LEMMA EnqueueHolder ==
  ASSUME HistoryInv, TypeInv, HolderInv, NEW n \in Nodes, NEW s \in Signals, Enqueue(n, s), Async,
         UNCHANGED <<status, job>>, call[s].pc \notin {"new", "checked"},
         \A t \in Signals : call'[t].pc \in {"new", "checked"} => call[t].pc \in {"new", "checked"},
         \A m \in Nodes : recovery'[m].left \subseteq recovery[m].left
  PROVE  HolderInv'
<1>1. /\ \A m \in Nodes, t \in Signals : Seen(m, t)' <=> Seen(m, t) \/ (m = n /\ t = s)
      /\ \A m \in Nodes, t \in Signals :
           InFifo(m, t)' <=> InFifo(m, t) \/ (m = n /\ t = s /\ ~Seen(n, s))
  BY EnqueueFacts
<1>2. \A m \in Nodes, t \in Signals : Active(m, t)' <=> Active(m, t)
  BY DEF Active
<1>3. UnbornInv'
  <2>1. \A t \in Signals : call'[t].pc \in {"new", "checked"} => t # s
    OBVIOUS
  <2> QED
    BY <1>1, <1>2, <2>1 DEF HolderInv, UnbornInv, Unborn
<1>4. FifoInv'
  BY EnqueueFifo DEF HolderInv
<1>5. ResultInv'
  BY DEF HolderInv, ResultInv, Outcomes, SignalStatus
<1>6. ActiveInv'
  BY <1>1, <1>2 DEF HolderInv, ActiveInv
<1>7. InlineInv'
  BY DEF InlineInv
<1> QED
  BY <1>3, <1>4, <1>5, <1>6, <1>7 DEF HolderInv

\* A worker takes the head of a backlog, which waits there only once.
LEMMA BeginHolder ==
  ASSUME HistoryInv, TypeInv, HolderInv, NEW n \in Nodes, NEW p \in Plans, BeginJob(n, p)
  PROVE  HolderInv'
<1>1. PICK h \in Signals :
        /\ h = fifo[n][p][1] /\ 1 \in DOMAIN fifo[n][p]
        /\ job' = [job EXCEPT ![n][h] = NewJob]
        /\ \A m \in Nodes, t \in Signals : InFifo(m, t)' => InFifo(m, t)
        /\ \A m \in Nodes, x \in Plans : \A i \in DOMAIN fifo'[m][x] :
             \/ ~(m = n /\ x = p) /\ i \in DOMAIN fifo[m][x] /\ fifo'[m][x][i] = fifo[m][x][i]
             \/ m = n /\ x = p /\ i \in Nat \ {0} /\ i + 1 \in DOMAIN fifo[m][x] /\ fifo'[m][x][i] = fifo[m][x][i + 1]
  BY BeginFacts
<1>2. Async /\ UNCHANGED <<store, seen, recovery, call>>
  BY DEF BeginJob, rest
<1>3. Seen(n, h) /\ PlanOf[h] = p
  BY <1>1 DEF HolderInv, FifoInv
<1>4. \A m \in Nodes, t \in Signals :
        job'[m][t] = IF m = n /\ t = h THEN NewJob ELSE job[m][t]
  BY <1>1 DEF HistoryInv
<1>5. NewJob.pc = "load"
  BY DEF NewJob, NoJob
<1>6. \A m \in Nodes, t \in Signals : Active(m, t)' <=> Active(m, t) \/ (m = n /\ t = h)
  BY <1>4, <1>5 DEF Active
<1>7. \A m \in Nodes, t \in Signals : Seen(m, t)' <=> Seen(m, t)
  BY <1>2 DEF Seen
<1>8. ~InFifo(n, h)'
  <2>1. ASSUME NEW i \in DOMAIN fifo'[n][p], fifo'[n][p][i] = h
        PROVE  FALSE
    <3>1. i \in Nat \ {0} /\ i + 1 \in DOMAIN fifo[n][p] /\ fifo[n][p][i + 1] = fifo[n][p][1]
      BY <1>1, <2>1
    <3>2. i + 1 = 1
      BY <1>1, <3>1 DEF HolderInv, FifoInv
    <3> QED
      BY <3>1, <3>2
  <2> QED
    BY <1>3, <2>1 DEF InFifo, Holds
<1>9. UnbornInv'
  BY <1>2, <1>3, <1>6, <1>7 DEF HolderInv, UnbornInv, Unborn, store
<1>10. FifoInv'
  <2>1. ASSUME NEW m \in Nodes, NEW x \in Plans, NEW i \in DOMAIN fifo'[m][x]
        PROVE  Seen(m, fifo[m][x][i])' /\ PlanOf[fifo'[m][x][i]] = x
    <3>1. PICK e : e = fifo'[m][x][i]
      OBVIOUS
    <3>2. Seen(m, e) /\ PlanOf[e] = x
      BY <1>1, <3>1 DEF HolderInv, FifoInv
    <3> QED
      BY <1>2, <3>1, <3>2 DEF Seen
  <2>2. ASSUME NEW m \in Nodes, NEW x \in Plans, NEW i \in DOMAIN fifo'[m][x],
               NEW k \in DOMAIN fifo'[m][x], fifo'[m][x][i] = fifo'[m][x][k]
        PROVE  i = k
    <3>1. CASE m = n /\ x = p
      <4>1. /\ i \in Nat /\ k \in Nat /\ i + 1 \in DOMAIN fifo[n][p] /\ k + 1 \in DOMAIN fifo[n][p]
            /\ fifo[n][p][i + 1] = fifo[n][p][k + 1]
        BY <1>1, <2>2, <3>1
      <4>2. i + 1 = k + 1
        BY <4>1 DEF HolderInv, FifoInv
      <4> QED
        BY <4>1, <4>2
    <3>2. CASE ~(m = n /\ x = p)
      BY <1>1, <2>2, <3>2 DEF HolderInv, FifoInv
    <3> QED
      BY <3>1, <3>2
  <2> QED
    BY <2>1, <2>2 DEF FifoInv
<1>11. ResultInv'
  BY <1>4, <1>5 DEF HolderInv, ResultInv, Outcomes, SignalStatus
<1>12. ActiveInv'
  BY <1>1, <1>2, <1>3, <1>6, <1>7, <1>8 DEF HolderInv, ActiveInv
<1>13. InlineInv'
  BY <1>2 DEF InlineInv
<1> QED
  BY <1>9, <1>10, <1>11, <1>12, <1>13 DEF HolderInv

\* The inline handler runs inside the call that stored the signal.
LEMMA EnterHolder ==
  ASSUME HistoryInv, TypeInv, HolderInv, NEW s \in Signals, ApplyEnqueue(s)
  PROVE  HolderInv'
<1> DEFINE n == call[s].node
<1>1. n \in Nodes /\ call[s].pc = "stored" /\ UNCHANGED <<status, recovery>>
  BY DEF ApplyEnqueue, TypeInv, CallType, store, rest
<1>2. CASE Async
  <2>1. Enqueue(n, s) /\ call' = [call EXCEPT ![s].pc = "answer"] /\ job' = job
    BY <1>2 DEF ApplyEnqueue
  <2>2. \A t \in Signals : call'[t].pc \in {"new", "checked"} => call[t].pc \in {"new", "checked"}
    BY <2>1, CallFacts
  <2> HIDE DEF n
  <2> QED
    BY <1>1, <1>2, <2>1, <2>2, EnqueueHolder DEF n
<1>3. CASE ~Async
  <2>1. /\ job' = [job EXCEPT ![n][s] = NewJob] /\ call' = [call EXCEPT ![s].pc = "waiting"]
        /\ UNCHANGED <<fifo, seen>>
    BY <1>3 DEF ApplyEnqueue, queue
  <2>2. /\ \A t \in Signals : t # s => call'[t] = call[t]
        /\ call'[s].pc = "waiting" /\ call'[s].node = n
    BY <2>1, CallFacts
  <2>3. \A m \in Nodes, t \in Signals :
          job'[m][t] = IF m = n /\ t = s THEN NewJob ELSE job[m][t]
    BY <1>1, <2>1 DEF HistoryInv
  <2>4. NewJob.pc = "load"
    BY DEF NewJob, NoJob
  <2>5. \A m \in Nodes, t \in Signals : Active(m, t)' <=> Active(m, t) \/ (m = n /\ t = s)
    BY <2>3, <2>4 DEF Active
  <2>6. \A m \in Nodes : ~Active(m, s)
    BY <1>1, <1>3 DEF HolderInv, ActiveInv
  <2> HIDE DEF n
  <2>7. \A m \in Nodes, t \in Signals : Seen(m, t)' <=> Seen(m, t)
    BY <2>1 DEF Seen
  <2>8. UnbornInv'
    BY <1>1, <2>2, <2>5, <2>7 DEF HolderInv, UnbornInv, Unborn
  <2>9. FifoInv'
    BY <2>1 DEF HolderInv, FifoInv, Seen
  <2>10. ResultInv'
    BY <2>3, <2>4 DEF HolderInv, ResultInv, Outcomes, SignalStatus
  <2>11. ActiveInv'
    BY <1>3, <2>2, <2>5, <2>6 DEF HolderInv, ActiveInv
  <2>12. InlineInv'
    BY <1>1, <2>1 DEF HolderInv, InlineInv
  <2> QED
    BY <2>8, <2>9, <2>10, <2>11, <2>12 DEF HolderInv
<1> QED
  BY <1>2, <1>3

\* What a crash of node n leaves: nothing of n, and everything of the others.
LEMMA CrashFacts ==
  ASSUME HistoryInv, TypeInv, NEW n \in Nodes, Crash(n)
  PROVE  /\ \A m \in Nodes, t \in Signals : Seen(m, t)' <=> m # n /\ Seen(m, t)
         /\ \A m \in Nodes, t \in Signals : InFifo(m, t)' <=> m # n /\ InFifo(m, t)
         /\ \A m \in Nodes, t \in Signals : job'[m][t] = IF m = n THEN NoJob ELSE job[m][t]
         /\ \A m \in Nodes : recovery'[m] = IF m = n THEN NoScan ELSE recovery[m]
         /\ \A m \in Nodes : fifo'[m] = IF m = n THEN EmptyQueue ELSE fifo[m]
         /\ \A t \in Signals : /\ call'[t].node = call[t].node
                               /\ call'[t].pc = IF call[t].node = n /\ call[t].pc # "new"
                                                THEN "dead" ELSE call[t].pc
         /\ \A m \in Nodes : up'[m] = (m # n /\ up[m])
         /\ UNCHANGED <<store, events, stranded>>
<1>1. /\ \A m \in Nodes : seen'[m] = IF m = n THEN <<>> ELSE seen[m]
      /\ \A m \in Nodes : fifo'[m] = IF m = n THEN EmptyQueue ELSE fifo[m]
      /\ \A m \in Nodes : recovery'[m] = IF m = n THEN NoScan ELSE recovery[m]
      /\ \A m \in Nodes : up'[m] = (m # n /\ up[m])
      /\ UNCHANGED <<store, events, stranded>>
  BY DEF Crash, TypeInv
<1>2. \A m \in Nodes, t \in Signals : job'[m][t] = IF m = n THEN NoJob ELSE job[m][t]
  BY DEF Crash, HistoryInv
<1>3. \A t \in Signals : /\ call'[t].node = call[t].node
                        /\ call'[t].pc = IF call[t].node = n /\ call[t].pc # "new"
                                         THEN "dead" ELSE call[t].pc
  BY DEF Crash, TypeInv, CallType
<1>4. \A m \in Nodes, t \in Signals : Seen(m, t)' <=> m # n /\ Seen(m, t)
  <2> SUFFICES ASSUME NEW m \in Nodes, NEW t \in Signals
               PROVE  Seen(m, t)' <=> m # n /\ Seen(m, t)
    OBVIOUS
  <2>1. CASE m = n
    <3>1. seen'[m] = <<>>
      BY <1>1, <2>1
    <3> QED
      BY <2>1, <3>1 DEF Seen
  <2>2. CASE m # n
    <3>1. seen'[m] = seen[m]
      BY <1>1, <2>2
    <3> QED
      BY <2>2, <3>1 DEF Seen
  <2> QED
    BY <2>1, <2>2
<1>5. \A m \in Nodes, t \in Signals : InFifo(m, t)' <=> m # n /\ InFifo(m, t)
  <2> SUFFICES ASSUME NEW m \in Nodes, NEW t \in Signals
               PROVE  InFifo(m, t)' <=> m # n /\ InFifo(m, t)
    OBVIOUS
  <2>1. CASE m = n
    <3>1. fifo'[m][PlanOf[t]] = <<>>
      BY <1>1, <2>1, PlanOfSignal DEF EmptyQueue
    <3> QED
      BY <2>1, <3>1 DEF InFifo, Holds
  <2>2. CASE m # n
    BY <1>1, <2>2 DEF InFifo, Holds
  <2> QED
    BY <2>1, <2>2
<1> QED
  BY <1>1, <1>2, <1>3, <1>4, <1>5

\* A crash takes the holders of its node with it, and no others.
LEMMA CrashHolder ==
  ASSUME HistoryInv, TypeInv, HolderInv, NEW n \in Nodes, Crash(n)
  PROVE  HolderInv'
<1>1. /\ \A m \in Nodes, t \in Signals : Seen(m, t)' <=> m # n /\ Seen(m, t)
      /\ \A m \in Nodes, t \in Signals : InFifo(m, t)' <=> m # n /\ InFifo(m, t)
      /\ \A m \in Nodes, t \in Signals : job'[m][t] = IF m = n THEN NoJob ELSE job[m][t]
      /\ \A m \in Nodes : recovery'[m] = IF m = n THEN NoScan ELSE recovery[m]
      /\ \A m \in Nodes : fifo'[m] = IF m = n THEN EmptyQueue ELSE fifo[m]
      /\ \A t \in Signals : /\ call'[t].node = call[t].node
                            /\ call'[t].pc = IF call[t].node = n /\ call[t].pc # "new"
                                             THEN "dead" ELSE call[t].pc
      /\ UNCHANGED store
  BY CrashFacts
<1>2. NoScan.left = {} /\ NoJob.pc = "idle"
  BY DEF NoScan, NoJob
<1>3. \A m \in Nodes, t \in Signals : Active(m, t)' <=> m # n /\ Active(m, t)
  BY <1>1, <1>2 DEF Active
<1>4. UnbornInv'
  BY <1>1, <1>2, <1>3 DEF HolderInv, UnbornInv, Unborn, store
<1>5. FifoInv'
  <2> SUFFICES ASSUME NEW m \in Nodes, NEW p \in Plans
               PROVE  /\ \A i \in DOMAIN fifo'[m][p] :
                           Seen(m, fifo[m][p][i])' /\ PlanOf[fifo'[m][p][i]] = p
                      /\ \A i, k \in DOMAIN fifo'[m][p] : fifo'[m][p][i] = fifo'[m][p][k] => i = k
    BY DEF FifoInv
  <2>1. CASE m = n
    <3>1. fifo'[m][p] = <<>>
      BY <1>1, <2>1 DEF EmptyQueue
    <3> QED
      BY <3>1
  <2>2. CASE m # n
    <3>1. fifo'[m] = fifo[m] /\ seen'[m] = seen[m]
      BY <1>1, <2>2 DEF Crash, TypeInv
    <3> QED
      BY <3>1 DEF HolderInv, FifoInv, Seen
  <2> QED
    BY <2>1, <2>2
<1>6. ResultInv'
  BY <1>1, <1>2 DEF HolderInv, ResultInv, Outcomes, SignalStatus
<1>7. ActiveInv'
  BY <1>1, <1>3 DEF HolderInv, ActiveInv
<1>8. InlineInv'
  BY <1>1 DEF HolderInv, InlineInv
<1> QED
  BY <1>4, <1>5, <1>6, <1>7, <1>8 DEF HolderInv

\* A restart and a recovery scan look only at rows that exist.
LEMMA ScanFacts ==
  ASSUME TypeInv, NEW n \in Nodes, Restart(n) \/ RecoverScan(n)
  PROVE  /\ UNCHANGED <<store, queue, call, job, events, crashes>>
         /\ \A m \in Nodes : m # n => recovery'[m] = recovery[m]
         /\ \A t \in recovery'[n].left : status[t] = "pending"
         /\ ~Async => recovery'[n] = NoScan \/ recovery[n].pc = "scan"
         /\ stranded \subseteq stranded' /\ \A m \in Nodes : up[m] => up'[m]
         /\ \/ Restart(n) /\ (Async => recovery'[n].pc = "scan")
            \/ /\ recovery[n].pc = "scan" /\ up' = up
               /\ \A t \in Signals : status[t] = "pending" => t \in recovery'[n].left \/ t \in stranded'
<1>1. CASE Restart(n)
  <2>1. recovery' = [recovery EXCEPT ![n] = StartScan] /\ up' = [up EXCEPT ![n] = TRUE]
    BY <1>1 DEF Restart
  <2>2. /\ recovery'[n] = StartScan /\ \A m \in Nodes : m # n => recovery'[m] = recovery[m]
        /\ \A m \in Nodes : up[m] => up'[m]
    BY <2>1 DEF TypeInv
  <2>3. /\ StartScan.left = {} /\ (~Async => StartScan = NoScan)
        /\ (Async => StartScan.pc = "scan")
    BY DEF StartScan, NoScan
  <2> QED
    BY <1>1, <2>2, <2>3 DEF Restart
<1>2. CASE RecoverScan(n)
  <2>1. /\ UNCHANGED <<store, queue, call, job, events, crashes, up>> /\ recovery[n].pc = "scan"
    BY <1>2 DEF RecoverScan
  <2>2. CASE /\ recovery' = [recovery EXCEPT ![n] = [pc |-> "loop", left |-> ListPendingSignals]]
             /\ stranded' = stranded \cup (Pending \ ListPendingSignals)
    <3>1. /\ recovery'[n].left = ListPendingSignals
          /\ \A m \in Nodes : m # n => recovery'[m] = recovery[m]
      BY <2>2 DEF TypeInv
    <3> QED
      BY <2>1, <2>2, <3>1 DEF ListPendingSignals, Pending
  <2>3. CASE /\ recovery' = [recovery EXCEPT ![n] = NoScan] /\ stranded' = stranded \cup Pending
    <3>1. /\ recovery'[n] = NoScan /\ NoScan.left = {}
          /\ \A m \in Nodes : m # n => recovery'[m] = recovery[m]
      BY <2>3 DEF TypeInv, NoScan
    <3> QED
      BY <2>1, <2>3, <3>1 DEF Pending
  <2> QED
    BY <1>2, <2>2, <2>3 DEF RecoverScan
<1> QED
  BY <1>1, <1>2

\* A scan becomes the holder of rows that were stored.
LEMMA ScanHolder ==
  ASSUME HistoryInv, TypeInv, HolderInv, NEW n \in Nodes, Restart(n) \/ RecoverScan(n)
  PROVE  HolderInv'
<1>1. /\ UNCHANGED <<store, queue, call, job>>
      /\ \A m \in Nodes : m # n => recovery'[m] = recovery[m]
      /\ \A t \in recovery'[n].left : status[t] = "pending"
      /\ ~Async => recovery'[n] = NoScan \/ recovery[n].pc = "scan"
  BY ScanFacts
<1>2. /\ \A m \in Nodes, t \in Signals : Seen(m, t)' <=> Seen(m, t)
      /\ \A m \in Nodes, t \in Signals : InFifo(m, t)' <=> InFifo(m, t)
      /\ \A m \in Nodes, t \in Signals : Active(m, t)' <=> Active(m, t)
  BY <1>1 DEF queue, Seen, InFifo, Holds, Active
<1>3. UnbornInv'
  BY <1>1, <1>2 DEF HolderInv, UnbornInv, Unborn, store
<1>4. FifoInv'
  BY <1>1 DEF HolderInv, FifoInv, Seen, queue
<1>5. ResultInv'
  BY <1>1 DEF HolderInv, ResultInv, Outcomes, SignalStatus
<1>6. ActiveInv'
  BY <1>1, <1>2 DEF HolderInv, ActiveInv
<1>7. InlineInv'
  <2>1. NoScan.pc # "scan"
    BY DEF NoScan
  <2> QED
    BY <1>1, <2>1 DEF HolderInv, InlineInv, queue
<1> QED
  BY <1>3, <1>4, <1>5, <1>6, <1>7 DEF HolderInv

\* One turn of the recovery loop: the row is enqueued or skipped.
LEMMA RecoverFacts ==
  ASSUME TypeInv, HolderInv, NEW n \in Nodes, RecoverNext(n)
  PROVE  /\ Async /\ UNCHANGED <<store, call, job, events, up, crashes>> /\ stranded \subseteq stranded'
         /\ \E s \in Signals :
              /\ s \in recovery[n].left /\ recovery'[n].left = recovery[n].left \ {s}
              /\ \A m \in Nodes : m # n => recovery'[m] = recovery[m]
              /\ recovery'[n].pc = recovery[n].pc
              /\ Enqueue(n, s) \/ (UNCHANGED queue /\ s \in stranded')
<1>1. PICK s \in recovery[n].left :
        /\ recovery' = [recovery EXCEPT ![n].left = @ \ {s}]
        /\ \/ Enqueue(n, s) /\ UNCHANGED <<stranded, faults>>
           \/ stranded' = stranded \cup {s} /\ UNCHANGED queue
  BY DEF RecoverNext
<1>2. /\ s \in Signals /\ recovery'[n].left = recovery[n].left \ {s}
      /\ recovery'[n].pc = recovery[n].pc /\ \A m \in Nodes : m # n => recovery'[m] = recovery[m]
  BY <1>1 DEF TypeInv, ScanType
<1>3. Async
  BY DEF RecoverNext, HolderInv, InlineInv, NoScan
<1>4. UNCHANGED <<store, call, job, events, up, crashes>>
  BY DEF RecoverNext
<1> QED
  BY <1>1, <1>2, <1>3, <1>4

\* The loop hands what it holds to the queue.
LEMMA RecoverHolder ==
  ASSUME HistoryInv, TypeInv, HolderInv, NEW n \in Nodes, RecoverNext(n)
  PROVE  HolderInv'
<1>1. Async /\ UNCHANGED <<store, call, job>>
  BY RecoverFacts
<1>2. PICK s \in Signals :
        /\ s \in recovery[n].left /\ recovery'[n].left = recovery[n].left \ {s}
        /\ \A m \in Nodes : m # n => recovery'[m] = recovery[m]
        /\ Enqueue(n, s) \/ (UNCHANGED queue /\ s \in stranded')
  BY RecoverFacts
<1>3. /\ \A m \in Nodes : recovery'[m].left \subseteq recovery[m].left
      /\ call[s].pc \notin {"new", "checked"}
  BY <1>2 DEF HolderInv, UnbornInv, Unborn
<1>4. CASE Enqueue(n, s)
  BY <1>1, <1>3, <1>4, EnqueueHolder DEF store
<1>5. CASE UNCHANGED queue
  <2>1. /\ \A m \in Nodes, t \in Signals : Seen(m, t)' <=> Seen(m, t)
        /\ \A m \in Nodes, t \in Signals : InFifo(m, t)' <=> InFifo(m, t)
        /\ \A m \in Nodes, t \in Signals : Active(m, t)' <=> Active(m, t)
    BY <1>1, <1>5 DEF queue, Seen, InFifo, Holds, Active
  <2>2. UnbornInv'
    BY <1>1, <1>3, <2>1 DEF HolderInv, UnbornInv, Unborn, store
  <2>3. FifoInv'
    BY <1>5 DEF HolderInv, FifoInv, Seen, queue
  <2>4. ResultInv'
    BY <1>1 DEF HolderInv, ResultInv, Outcomes, SignalStatus
  <2>5. ActiveInv'
    BY <1>1, <2>1 DEF HolderInv, ActiveInv
  <2>6. InlineInv'
    BY <1>1 DEF InlineInv
  <2> QED
    BY <2>2, <2>3, <2>4, <2>5, <2>6 DEF HolderInv
<1> QED
  BY <1>2, <1>4, <1>5

\* The steps that leave every holder where it is.
LEMMA IdleHolder ==
  ASSUME HolderInv, UNCHANGED <<status, call, fifo, seen, recovery, job>>
  PROVE  HolderInv'
<1>1. /\ \A m \in Nodes, t \in Signals : Seen(m, t)' <=> Seen(m, t)
      /\ \A m \in Nodes, t \in Signals : InFifo(m, t)' <=> InFifo(m, t)
      /\ \A m \in Nodes, t \in Signals : Active(m, t)' <=> Active(m, t)
  BY DEF Seen, InFifo, Holds, Active
<1>2. UnbornInv'
  BY <1>1 DEF HolderInv, UnbornInv, Unborn
<1>3. FifoInv'
  BY DEF HolderInv, FifoInv, Seen
<1>4. ResultInv'
  BY DEF HolderInv, ResultInv, Outcomes, SignalStatus
<1>5. ActiveInv'
  BY <1>1 DEF HolderInv, ActiveInv
<1>6. InlineInv'
  BY DEF HolderInv, InlineInv
<1> QED
  BY <1>2, <1>3, <1>4, <1>5, <1>6 DEF HolderInv

\* The steps of the system, by what they do to a signal's holder.
LEMMA NextCases ==
  ASSUME [Next]_vars
  PROVE  \/ \E s \in Signals : ApplyCheck(s) \/ ApplyStore(s) \/ ApplyFault(s) \/ ApplyReturn(s)
         \/ \E s \in Signals : ApplyEnqueue(s)
         \/ \E n \in Nodes, p \in Plans : BeginJob(n, p)
         \/ \E n \in Nodes, s \in Signals : HandlerMoves(n, s)
         \/ \E n \in Nodes, s \in Signals : HandlerEnds(n, s)
         \/ \E n \in Nodes : Crash(n)
         \/ \E n \in Nodes : Restart(n) \/ RecoverScan(n)
         \/ \E n \in Nodes : RecoverNext(n)
         \/ UNCHANGED <<store, queue, call, recovery, job, events, stranded, up, crashes>>
BY DEF Next, vars, CallStep, HandlerStep, HandlerMoves, HandlerEnds, SetGoalStatus, store, queue

\* Every step keeps the holders in order.
LEMMA HolderStays ==
  ASSUME HistoryInv, TypeInv, HolderInv, [Next]_vars
  PROVE  HolderInv'
<1>1. ASSUME NEW n \in Nodes, NEW s \in Signals, HandlerMoves(n, s)
      PROVE  HolderInv'
  BY <1>1, HandlerStepsMove, MoveHolder
<1>2. CASE UNCHANGED <<store, queue, call, recovery, job, events, stranded, up, crashes>>
  BY <1>2, IdleHolder DEF store, queue
<1> QED
  BY <1>1, <1>2, NextCases, CallHolder, EnterHolder, BeginHolder, EndHolder, CrashHolder, ScanHolder,
     RecoverHolder

\* At the start nobody holds anything.
LEMMA HolderInit ==
  ASSUME Init
  PROVE  HolderInv
<1>1. /\ \A m \in Nodes, t \in Signals : ~Seen(m, t) /\ ~Active(m, t) /\ job[m][t] = NoJob
      /\ \A t \in Signals : status[t] = "none"
      /\ \A m \in Nodes : recovery[m] = StartScan /\ fifo[m] = EmptyQueue
  BY DEF Init, Seen, Active, NoJob
<1>2. StartScan.left = {} /\ NoJob.pc = "idle" /\ (~Async => StartScan = NoScan)
  BY DEF StartScan, NoScan, NoJob
<1>3. \A m \in Nodes, p \in Plans : fifo[m][p] = <<>>
  BY <1>1 DEF EmptyQueue
<1>4. UnbornInv
  BY <1>1, <1>2 DEF UnbornInv, Unborn
<1>5. FifoInv
  BY <1>3 DEF FifoInv
<1> QED
  BY <1>1, <1>2, <1>4, <1>5 DEF HolderInv, ResultInv, ActiveInv, InlineInv

\* Types, history and holders, in every reachable state.
LEMMA HolderInvariant == Spec => [](TypeInv /\ HistoryInv /\ HolderInv)
<1>1. Init => TypeInv /\ HistoryInv /\ HolderInv
  BY TypeInit, HistoryInit, HolderInit
<1>2. TypeInv /\ HistoryInv /\ HolderInv /\ [Next]_vars => (TypeInv /\ HistoryInv /\ HolderInv)'
  BY TypesStay, HistoryStays, HolderStays
<1> QED
  BY <1>1, <1>2, PTL DEF Spec

-----------------------------------------------------------------------------
(* No signal is forgotten.                                                 *)

\* A handler that is done with its row has settled it or given it up.
SettledInv ==
  \A n \in Nodes, s \in Signals :
    job[n][s].pc = "emit" => status[s] # "pending" \/ s \in stranded

\* The idempotency set forgets nothing, so an accepted signal that is still pending must
\* still be on its node: nobody could enqueue it again there.
AcceptedInv ==
  \A n \in Nodes, s \in Signals :
    Seen(n, s) /\ status[s] = "pending" => s \in stranded \/ InFifo(n, s) \/ Active(n, s)

CustodyInv ==
  /\ SettledInv /\ AcceptedInv /\ NoSilentLoss
  /\ crashes \in Nat /\ (~Async => \A n \in Nodes : up[n])

\* What node n may hold of signal s.
HeldOn(n, s) ==
  \/ Active(n, s) \/ InFifo(n, s) \/ s \in recovery[n].left \/ recovery[n].pc = "scan"
  \/ Async /\ ~up[n]

\* A signal is in hand if its call or a node holds it.
LEMMA InHandIs ==
  ASSUME NEW s \in Signals
  PROVE  /\ InHand(s) <=> call[s].pc \in {"stored", "waiting"} \/ \E n \in Nodes : HeldOn(n, s)
         /\ InHand(s)' <=> call'[s].pc \in {"stored", "waiting"} \/ \E n \in Nodes : HeldOn(n, s)'
<1>1. InHand(s) <=> call[s].pc \in {"stored", "waiting"} \/ \E n \in Nodes : HeldOn(n, s)
  BY DEF InHand, HeldOn, Active, InFifo, Holds
<1>2. InHand(s)' <=> call'[s].pc \in {"stored", "waiting"} \/ \E n \in Nodes : HeldOn(n, s)'
  BY DEF InHand, HeldOn, Active, InFifo, Holds
<1> QED
  BY <1>1, <1>2

\* A running handler keeps custody of its signal until the row is settled or given up.
LEMMA MoveCustody ==
  ASSUME HistoryInv, HolderInv, CustodyInv, NEW n \in Nodes, NEW s \in Signals,
         NEW q \in JobType, Moves(n, s, q)
  PROVE  CustodyInv'
<1>1. /\ \A m \in Nodes, t \in Signals : job'[m][t] = IF m = n /\ t = s THEN q ELSE job[m][t]
      /\ \A m \in Nodes, t \in Signals : Active(m, t)' <=> Active(m, t)
      /\ \A m \in Nodes, t \in Signals : Seen(m, t)' <=> Seen(m, t)
      /\ \A m \in Nodes, t \in Signals : InFifo(m, t)' <=> InFifo(m, t)
      /\ \A t \in Signals : t # s => status'[t] = status[t]
  BY MoveFacts
<1>2. /\ UNCHANGED <<call, up, recovery, crashes>> /\ stranded \subseteq stranded'
  BY DEF Moves, rest
<1>3. /\ q.pc \in {"mark", "emit"} => q.result \in Outcomes
      /\ "pending" \notin Outcomes
  BY DEF Moves, HolderInv, ResultInv, Outcomes
<1>4. /\ q.pc = "emit" => status'[s] # "pending" \/ s \in stranded'
      /\ status'[s] = status[s] \/ status'[s] \in Outcomes
  BY <1>3 DEF Moves, HistoryInv
<1>5. \A t \in Signals : status'[t] = "pending" => status[t] = "pending"
  BY <1>1, <1>3, <1>4
<1>6. SettledInv'
  <2> SUFFICES ASSUME NEW m \in Nodes, NEW t \in Signals
               PROVE  job'[m][t].pc = "emit" => status'[t] # "pending" \/ t \in stranded'
    BY DEF SettledInv
  <2>1. CASE m = n /\ t = s
    BY <1>1, <1>4, <2>1
  <2>2. CASE ~(m = n /\ t = s)
    BY <1>1, <1>2, <1>5, <2>2 DEF CustodyInv, SettledInv
  <2> QED
    BY <2>1, <2>2
<1>7. AcceptedInv'
  BY <1>1, <1>2, <1>5 DEF CustodyInv, AcceptedInv
<1>8. NoSilentLoss'
  <2>1. \A m \in Nodes, t \in Signals : HeldOn(m, t) => HeldOn(m, t)'
    BY <1>1, <1>2 DEF HeldOn
  <2> QED
    BY <1>2, <1>5, <2>1, InHandIs DEF CustodyInv, NoSilentLoss
<1> QED
  BY <1>2, <1>6, <1>7, <1>8 DEF CustodyInv

\* A handler that is over has settled the row, or the signal is given up.
LEMMA EndCustody ==
  ASSUME HistoryInv, TypeInv, HolderInv, CustodyInv, NEW n \in Nodes, NEW s \in Signals,
         HandlerEnds(n, s)
  PROVE  CustodyInv'
<1>1. /\ \A m \in Nodes, t \in Signals : ~(m = n /\ t = s) => job'[m][t] = job[m][t]
      /\ job'[n][s].pc = "idle"
      /\ UNCHANGED <<store, fifo, seen, recovery, up, crashes>>
      /\ \A t \in Signals : t # s \/ Async => call'[t] = call[t]
  BY EndFacts
<1>2. /\ stranded \subseteq stranded' /\ (status[s] # "pending" \/ s \in stranded')
  BY DEF HandlerEnds, EmitCompleted, HandlerPanics, CustodyInv, SettledInv
<1>3. \A m \in Nodes, t \in Signals : t # s => (Active(m, t)' <=> Active(m, t))
  BY <1>1 DEF Active
<1>4. /\ \A m \in Nodes, t \in Signals : Seen(m, t)' <=> Seen(m, t)
      /\ \A m \in Nodes, t \in Signals : InFifo(m, t)' <=> InFifo(m, t)
  BY <1>1 DEF Seen, InFifo, Holds
<1>5. SettledInv'
  BY <1>1, <1>2 DEF CustodyInv, SettledInv, store
<1>6. AcceptedInv'
  BY <1>1, <1>2, <1>3, <1>4 DEF CustodyInv, AcceptedInv, store
<1>7. NoSilentLoss'
  <2> SUFFICES ASSUME NEW t \in Signals, status'[t] = "pending", t \notin stranded'
               PROVE  InHand(t)'
    BY DEF NoSilentLoss
  <2>1. t # s /\ InHand(t) /\ call'[t] = call[t]
    BY <1>1, <1>2 DEF CustodyInv, NoSilentLoss, store
  <2>2. \A m \in Nodes : HeldOn(m, t) => HeldOn(m, t)'
    BY <1>1, <1>3, <1>4, <2>1 DEF HeldOn
  <2> QED
    BY <2>1, <2>2, InHandIs
<1> QED
  BY <1>1, <1>5, <1>6, <1>7 DEF CustodyInv

\* A row that becomes pending is in the hands of the call that stored it, or the failed
\* call has given it up.
LEMMA CallCustody ==
  ASSUME HistoryInv, TypeInv, HolderInv, CustodyInv, NEW s \in Signals,
         ApplyCheck(s) \/ ApplyStore(s) \/ ApplyFault(s) \/ ApplyReturn(s)
  PROVE  CustodyInv'
<1>1. /\ UNCHANGED <<fifo, seen, recovery, up, crashes>>
      /\ \A m \in Nodes, t \in Signals : Active(m, t)' <=> Active(m, t)
  BY CallHolder
<1>2. PICK pc : /\ call' = [call EXCEPT ![s].pc = pc]
                /\ \/ pc = "stored"
                   \/ status' = status
                   \/ s \in stranded'
                /\ call[s].pc \notin {"stored", "waiting"}
                /\ status' = status \/ call[s].pc = "checked"
  BY DEF ApplyCheck, ApplyStore, ApplyFault, ApplyReturn, store
<1>3. stranded \subseteq stranded'
  BY DEF ApplyCheck, ApplyStore, ApplyFault, ApplyReturn
<1>4. /\ \A t \in Signals : t # s => call'[t] = call[t]
      /\ call'[s].pc = pc
  BY <1>2, CallFacts
<1>5. \A t \in Signals : t # s => status'[t] = status[t]
  BY DEF ApplyCheck, ApplyStore, ApplyFault, ApplyReturn, store, HistoryInv
<1>6. status' = status \/ \A m \in Nodes : ~Seen(m, s) /\ ~Active(m, s)
  BY <1>2 DEF HolderInv, UnbornInv, Unborn
<1>7. /\ \A m \in Nodes, t \in Signals : Seen(m, t)' <=> Seen(m, t)
      /\ \A m \in Nodes, t \in Signals : InFifo(m, t)' <=> InFifo(m, t)
  BY <1>1 DEF Seen, InFifo, Holds
<1>8. SettledInv'
  <2> SUFFICES ASSUME NEW m \in Nodes, NEW t \in Signals, job'[m][t].pc = "emit"
               PROVE  status'[t] # "pending" \/ t \in stranded'
    BY DEF SettledInv
  <2>1. job' = job \/ job' = [job EXCEPT ![call[s].node][s] = NoJob]
    BY DEF ApplyCheck, ApplyStore, ApplyFault, ApplyReturn
  <2>2. job[m][t].pc = "emit"
    BY <2>1 DEF HistoryInv, NoJob
  <2>3. Active(m, t)
    BY <2>2 DEF Active
  <2> QED
    BY <1>3, <1>5, <1>6, <2>2, <2>3 DEF CustodyInv, SettledInv
<1>9. AcceptedInv'
  BY <1>1, <1>3, <1>5, <1>6, <1>7 DEF CustodyInv, AcceptedInv
<1>10. NoSilentLoss'
  <2> SUFFICES ASSUME NEW t \in Signals, status'[t] = "pending", t \notin stranded'
               PROVE  InHand(t)'
    BY DEF NoSilentLoss
  <2>1. CASE t = s /\ pc = "stored"
    BY <1>4, <2>1 DEF InHand
  <2>2. CASE ~(t = s /\ pc = "stored")
    <3>1. status[t] = "pending" /\ t \notin stranded
      BY <1>2, <1>3, <1>5, <2>2
    <3>2. InHand(t)
      BY <3>1 DEF CustodyInv, NoSilentLoss
    <3>3. call[t].pc \in {"stored", "waiting"} => call'[t] = call[t]
      BY <1>2, <1>4
    <3>4. \A m \in Nodes : HeldOn(m, t) => HeldOn(m, t)'
      BY <1>1, <1>7 DEF HeldOn
    <3> QED
      BY <3>2, <3>3, <3>4, InHandIs
  <2> QED
    BY <2>1, <2>2
<1> QED
  BY <1>1, <1>8, <1>9, <1>10 DEF CustodyInv

\* Enqueue takes custody, or somebody on the node already has it.
LEMMA EnqueueCustody ==
  ASSUME HistoryInv, TypeInv, HolderInv, CustodyInv, NEW n \in Nodes, NEW s \in Signals,
         Enqueue(n, s), Async, UNCHANGED <<status, job, up, crashes>>, stranded \subseteq stranded',
         \A t \in Signals : t # s => call'[t] = call[t],
         \A m \in Nodes : recovery'[m].pc = recovery[m].pc,
         \A m \in Nodes : recovery[m].left \subseteq recovery'[m].left \cup {s}
  PROVE  CustodyInv'
<1>1. /\ \A m \in Nodes, t \in Signals : Seen(m, t)' <=> Seen(m, t) \/ (m = n /\ t = s)
      /\ \A m \in Nodes, t \in Signals :
           InFifo(m, t)' <=> InFifo(m, t) \/ (m = n /\ t = s /\ ~Seen(n, s))
  BY EnqueueFacts
<1>2. \A m \in Nodes, t \in Signals : Active(m, t)' <=> Active(m, t)
  BY DEF Active
<1>3. SettledInv'
  BY DEF CustodyInv, SettledInv
<1>4. AcceptedInv'
  BY <1>1, <1>2 DEF CustodyInv, AcceptedInv
<1>5. NoSilentLoss'
  <2> SUFFICES ASSUME NEW t \in Signals, status'[t] = "pending", t \notin stranded'
               PROVE  InHand(t)'
    BY DEF NoSilentLoss
  <2>1. CASE t = s
    <3>1. InFifo(n, s)' \/ Active(n, s)'
      BY <1>1, <1>4, <2>1 DEF AcceptedInv
    <3> QED
      BY <2>1, <3>1, InHandIs DEF HeldOn
  <2>2. CASE t # s
    <3>1. InHand(t) /\ call'[t] = call[t]
      BY <2>2 DEF CustodyInv, NoSilentLoss
    <3>2. \A m \in Nodes : HeldOn(m, t) => HeldOn(m, t)'
      BY <1>1, <1>2, <2>2 DEF HeldOn
    <3> QED
      BY <3>1, <3>2, InHandIs
  <2> QED
    BY <2>1, <2>2
<1> QED
  BY <1>3, <1>4, <1>5 DEF CustodyInv

\* queue.Enqueue from a call: custody passes to the queue, or stays with the waiting call.
LEMMA EnterCustody ==
  ASSUME HistoryInv, TypeInv, HolderInv, CustodyInv, NEW s \in Signals, ApplyEnqueue(s)
  PROVE  CustodyInv'
<1> DEFINE n == call[s].node
<1>1. /\ n \in Nodes /\ call[s].pc = "stored"
      /\ UNCHANGED <<status, recovery, up, crashes, stranded>>
  BY DEF ApplyEnqueue, TypeInv, CallType, store, rest
<1>2. CASE Async
  <2>1. Enqueue(n, s) /\ call' = [call EXCEPT ![s].pc = "answer"] /\ job' = job
    BY <1>2 DEF ApplyEnqueue
  <2>2. \A t \in Signals : t # s => call'[t] = call[t]
    BY <2>1, CallFacts
  <2> HIDE DEF n
  <2> QED
    BY <1>1, <1>2, <2>1, <2>2, EnqueueCustody
<1>3. CASE ~Async
  <2>1. /\ job' = [job EXCEPT ![n][s] = NewJob] /\ call' = [call EXCEPT ![s].pc = "waiting"]
        /\ UNCHANGED <<fifo, seen>>
    BY <1>3 DEF ApplyEnqueue, queue
  <2>2. /\ \A t \in Signals : t # s => call'[t] = call[t]
        /\ call'[s].pc = "waiting"
    BY <2>1, CallFacts
  <2>3. \A m \in Nodes, t \in Signals :
          job'[m][t] = IF m = n /\ t = s THEN NewJob ELSE job[m][t]
    BY <1>1, <2>1 DEF HistoryInv
  <2>4. NewJob.pc = "load"
    BY DEF NewJob, NoJob
  <2> HIDE DEF n
  <2>5. \A m \in Nodes, t \in Signals : Active(m, t) => Active(m, t)'
    BY <2>3, <2>4 DEF Active
  <2>6. /\ \A m \in Nodes, t \in Signals : Seen(m, t)' <=> Seen(m, t)
        /\ \A m \in Nodes, t \in Signals : InFifo(m, t)' <=> InFifo(m, t)
    BY <2>1 DEF Seen, InFifo, Holds
  <2>7. SettledInv'
    BY <1>1, <2>3, <2>4 DEF CustodyInv, SettledInv
  <2>8. AcceptedInv'
    BY <1>1, <2>5, <2>6 DEF CustodyInv, AcceptedInv
  <2>9. NoSilentLoss'
    <3>1. \A m \in Nodes, t \in Signals : HeldOn(m, t) => HeldOn(m, t)'
      BY <1>1, <2>5, <2>6 DEF HeldOn
    <3> QED
      BY <1>1, <2>2, <3>1, InHandIs DEF CustodyInv, NoSilentLoss
  <2> QED
    BY <1>1, <2>7, <2>8, <2>9 DEF CustodyInv
<1> QED
  BY <1>2, <1>3

\* Custody passes from the backlog to the worker.
LEMMA BeginCustody ==
  ASSUME HistoryInv, TypeInv, HolderInv, CustodyInv, NEW n \in Nodes, NEW p \in Plans, BeginJob(n, p)
  PROVE  CustodyInv'
<1>1. PICK h \in Signals :
        /\ job' = [job EXCEPT ![n][h] = NewJob]
        /\ \A m \in Nodes, t \in Signals : InFifo(m, t) => InFifo(m, t)' \/ (m = n /\ t = h)
  BY BeginFacts
<1>2. UNCHANGED <<store, seen, recovery, up, call, stranded, crashes>>
  BY DEF BeginJob, rest
<1>3. \A m \in Nodes, t \in Signals :
        job'[m][t] = IF m = n /\ t = h THEN NewJob ELSE job[m][t]
  BY <1>1 DEF HistoryInv
<1>4. NewJob.pc = "load"
  BY DEF NewJob, NoJob
<1>5. \A m \in Nodes, t \in Signals : Active(m, t)' <=> Active(m, t) \/ (m = n /\ t = h)
  BY <1>3, <1>4 DEF Active
<1>6. \A m \in Nodes, t \in Signals : Seen(m, t)' <=> Seen(m, t)
  BY <1>2 DEF Seen
<1>7. SettledInv'
  BY <1>2, <1>3, <1>4 DEF CustodyInv, SettledInv, store
<1>8. AcceptedInv'
  BY <1>1, <1>2, <1>5, <1>6 DEF CustodyInv, AcceptedInv, store
<1>9. NoSilentLoss'
  <2>1. \A m \in Nodes, t \in Signals : HeldOn(m, t) => HeldOn(m, t)'
    BY <1>1, <1>2, <1>5 DEF HeldOn
  <2> QED
    BY <1>2, <2>1, InHandIs DEF CustodyInv, NoSilentLoss, store
<1> QED
  BY <1>2, <1>7, <1>8, <1>9 DEF CustodyInv

\* A crash of an asynchronous node leaves everything pending to its next start.
LEMMA CrashCustody ==
  ASSUME HistoryInv, TypeInv, HolderInv, CustodyInv, Async \/ MaxCrashes = 0, NEW n \in Nodes, Crash(n)
  PROVE  CustodyInv'
<1>1. crashes < MaxCrashes /\ crashes' = crashes + 1 /\ crashes \in Nat /\ MaxCrashes \in Nat
  BY ReplanningAssumption DEF Crash, CustodyInv
<1>2. Async /\ crashes' \in Nat
  BY <1>1
<1>3. /\ \A m \in Nodes, t \in Signals : Seen(m, t)' <=> m # n /\ Seen(m, t)
      /\ \A m \in Nodes, t \in Signals : InFifo(m, t)' <=> m # n /\ InFifo(m, t)
      /\ \A m \in Nodes, t \in Signals : job'[m][t] = IF m = n THEN NoJob ELSE job[m][t]
      /\ \A m \in Nodes : up'[m] = (m # n /\ up[m])
      /\ UNCHANGED <<store, stranded>>
  BY CrashFacts
<1>4. NoJob.pc = "idle"
  BY DEF NoJob
<1>5. SettledInv'
  BY <1>3, <1>4 DEF CustodyInv, SettledInv, store
<1>6. AcceptedInv'
  BY <1>3 DEF CustodyInv, AcceptedInv, Active, store
<1>7. NoSilentLoss'
  <2>1. \A t \in Signals : HeldOn(n, t)'
    BY <1>2, <1>3 DEF HeldOn
  <2> QED
    BY <2>1, InHandIs DEF NoSilentLoss
<1> QED
  BY <1>2, <1>5, <1>6, <1>7 DEF CustodyInv

\* The scan takes custody of every pending row, or gives it up.
LEMMA ScanCustody ==
  ASSUME HistoryInv, TypeInv, HolderInv, CustodyInv, NEW n \in Nodes, Restart(n) \/ RecoverScan(n)
  PROVE  CustodyInv'
<1>1. /\ UNCHANGED <<store, queue, call, job, crashes>>
      /\ \A m \in Nodes : m # n => recovery'[m] = recovery[m]
      /\ stranded \subseteq stranded' /\ \A m \in Nodes : up[m] => up'[m]
      /\ \/ Restart(n) /\ (Async => recovery'[n].pc = "scan")
         \/ /\ recovery[n].pc = "scan" /\ up' = up
            /\ \A t \in Signals : status[t] = "pending" => t \in recovery'[n].left \/ t \in stranded'
  BY ScanFacts
<1>2. /\ \A m \in Nodes, t \in Signals : Seen(m, t)' <=> Seen(m, t)
      /\ \A m \in Nodes, t \in Signals : InFifo(m, t)' <=> InFifo(m, t)
      /\ \A m \in Nodes, t \in Signals : Active(m, t)' <=> Active(m, t)
  BY <1>1 DEF queue, Seen, InFifo, Holds, Active
<1>3. SettledInv'
  BY <1>1 DEF CustodyInv, SettledInv, store
<1>4. AcceptedInv'
  BY <1>1, <1>2 DEF CustodyInv, AcceptedInv, store
<1>5. NoSilentLoss'
  <2>1. CASE Restart(n)
    <3>1. Async /\ recovery'[n].pc = "scan"
      BY <2>1 DEF Restart, CustodyInv, TypeInv, StartScan
    <3>2. \A t \in Signals : HeldOn(n, t)'
      BY <3>1 DEF HeldOn
    <3> QED
      BY <3>2, InHandIs DEF NoSilentLoss
  <2>2. CASE /\ recovery[n].pc = "scan" /\ up' = up
             /\ \A t \in Signals : status[t] = "pending" => t \in recovery'[n].left \/ t \in stranded'
    <3>1. \A t \in Signals : status[t] = "pending" => t \in stranded' \/ HeldOn(n, t)'
      BY <2>2 DEF HeldOn
    <3> QED
      BY <1>1, <3>1, InHandIs DEF NoSilentLoss, store
  <2> QED
    BY <1>1, <2>1, <2>2
<1> QED
  BY <1>1, <1>3, <1>4, <1>5 DEF CustodyInv

\* The loop hands a row over, or gives it up.
LEMMA RecoverCustody ==
  ASSUME HistoryInv, TypeInv, HolderInv, CustodyInv, NEW n \in Nodes, RecoverNext(n)
  PROVE  CustodyInv'
<1>1. Async /\ UNCHANGED <<store, call, job, up, crashes>> /\ stranded \subseteq stranded'
  BY RecoverFacts
<1>2. PICK s \in Signals :
        /\ s \in recovery[n].left /\ recovery'[n].left = recovery[n].left \ {s}
        /\ \A m \in Nodes : m # n => recovery'[m] = recovery[m]
        /\ recovery'[n].pc = recovery[n].pc
        /\ Enqueue(n, s) \/ (UNCHANGED queue /\ s \in stranded')
  BY RecoverFacts
<1>3. /\ \A m \in Nodes : recovery'[m].pc = recovery[m].pc
      /\ \A m \in Nodes : recovery[m].left \subseteq recovery'[m].left \cup {s}
  BY <1>2
<1>4. CASE Enqueue(n, s)
  BY <1>1, <1>3, <1>4, EnqueueCustody DEF store
<1>5. CASE UNCHANGED queue /\ s \in stranded'
  <2>1. /\ \A m \in Nodes, t \in Signals : Seen(m, t)' <=> Seen(m, t)
        /\ \A m \in Nodes, t \in Signals : InFifo(m, t)' <=> InFifo(m, t)
        /\ \A m \in Nodes, t \in Signals : Active(m, t)' <=> Active(m, t)
    BY <1>1, <1>5 DEF queue, Seen, InFifo, Holds, Active
  <2>2. SettledInv'
    BY <1>1 DEF CustodyInv, SettledInv, store
  <2>3. AcceptedInv'
    BY <1>1, <2>1 DEF CustodyInv, AcceptedInv, store
  <2>4. NoSilentLoss'
    <3>1. \A m \in Nodes, t \in Signals : t # s /\ HeldOn(m, t) => HeldOn(m, t)'
      BY <1>1, <1>3, <2>1 DEF HeldOn
    <3> QED
      BY <1>1, <1>5, <3>1, InHandIs DEF CustodyInv, NoSilentLoss, store
  <2> QED
    BY <1>1, <2>2, <2>3, <2>4 DEF CustodyInv
<1> QED
  BY <1>2, <1>4, <1>5

\* The steps that change nobody's custody.
LEMMA IdleCustody ==
  ASSUME CustodyInv,
         UNCHANGED <<store, queue, call, recovery, job, events, stranded, up, crashes>>
  PROVE  CustodyInv'
<1>1. /\ \A m \in Nodes, t \in Signals : Seen(m, t)' <=> Seen(m, t)
      /\ \A m \in Nodes, t \in Signals : InFifo(m, t)' <=> InFifo(m, t)
      /\ \A m \in Nodes, t \in Signals : Active(m, t)' <=> Active(m, t)
  BY DEF Seen, InFifo, Holds, Active, queue
<1>2. SettledInv'
  BY DEF CustodyInv, SettledInv, store
<1>3. AcceptedInv'
  BY <1>1 DEF CustodyInv, AcceptedInv, store
<1>4. NoSilentLoss'
  <2>1. \A m \in Nodes, t \in Signals : HeldOn(m, t) => HeldOn(m, t)'
    BY <1>1 DEF HeldOn
  <2> QED
    BY <2>1, InHandIs DEF CustodyInv, NoSilentLoss, store
<1> QED
  BY <1>2, <1>3, <1>4 DEF CustodyInv

\* Custody at the start: no row is pending.
LEMMA CustodyInit ==
  ASSUME Init
  PROVE  CustodyInv
<1>1. /\ \A t \in Signals : status[t] = "none"
      /\ \A m \in Nodes, t \in Signals : job[m][t] = NoJob
      /\ \A m \in Nodes : up[m] = TRUE
      /\ crashes = 0
  BY DEF Init
<1>2. SettledInv /\ AcceptedInv /\ NoSilentLoss
  BY <1>1 DEF SettledInv, AcceptedInv, NoSilentLoss
<1> QED
  BY <1>1, <1>2 DEF CustodyInv

\* Every step keeps custody.
LEMMA CustodyStays ==
  ASSUME HistoryInv, TypeInv, HolderInv, CustodyInv, Async \/ MaxCrashes = 0, [Next]_vars
  PROVE  CustodyInv'
<1>1. ASSUME NEW n \in Nodes, NEW s \in Signals, HandlerMoves(n, s)
      PROVE  CustodyInv'
  BY <1>1, HandlerStepsMove, MoveCustody
<1> QED
  BY <1>1, IdleCustody, NextCases, CallCustody, EnterCustody, BeginCustody, EndCustody, CrashCustody,
     ScanCustody, RecoverCustody

\* A pending row always has somebody who will look at it - the call that stored it, a backlog,
\* a handler, a recovery scan done or still to come - or was visibly given up.  The inline
\* service recovers nothing, so there the promise ends with a crash (buildService in
\* cmd/dde/commands.go starts RecoverPending with the asynchronous queue only); with the
\* queue it holds across any number of crashes, failures, nodes and signals.
THEOREM NoSignalIsForgotten ==
  ASSUME Async \/ MaxCrashes = 0
  PROVE  Spec => []NoSilentLoss
<1>1. Init => CustodyInv
  BY CustodyInit
<1>2. HistoryInv /\ TypeInv /\ HolderInv /\ CustodyInv /\ [Next]_vars => CustodyInv'
  BY CustodyStays
<1>3. CustodyInv => NoSilentLoss
  BY DEF CustodyInv
<1> QED
  BY <1>1, <1>2, <1>3, HolderInvariant, PTL DEF Spec

-----------------------------------------------------------------------------
(* One handler per signal, where there is one node or no queue.            *)

OneNode == \A n, m \in Nodes : n = m

\* No further handler of signal s will begin, and none is elsewhere than in P.
Spent(s, P) ==
  /\ call[s].pc \notin {"new", "checked"} /\ (~Async => call[s].pc # "stored")
  /\ \A n \in Nodes :
       /\ job[n][s].pc \in P
       /\ Async => ~InFifo(n, s) /\ (Seen(n, s) \/ (s \notin recovery[n].left /\ call[s].pc # "stored"))

\* The node of a running handler is the only one that knows its signal.
LEMMA OneHandler ==
  ASSUME HolderInv, ~Async \/ OneNode, NEW n \in Nodes, NEW s \in Signals, Active(n, s)
  PROVE  /\ \A m \in Nodes : m # n => job[m][s].pc = "idle"
         /\ Async => \A m \in Nodes : Seen(m, s) /\ ~InFifo(m, s)
         /\ call[s].pc \notin {"new", "checked"} /\ (~Async => call[s].pc = "waiting")
BY DEF HolderInv, ActiveInv, UnbornInv, Unborn, OneNode, Active

\* A spent signal stays spent: the idempotency set, or the absence of any call or scan that
\* would bring it again, keeps new handlers away.
LEMMA SpentStays ==
  ASSUME HistoryInv, TypeInv, HolderInv, [Next]_vars, NEW s \in Signals, NEW P, Spent(s, P),
         "idle" \in P, "emit" \in P, "load" \notin P, "plan" \notin P, "write" \notin P,
         status[s] # "pending" \/ (Async => \A n \in Nodes : Seen(n, s)),
         ~Async \/ OneNode
  PROVE  Spent(s, P)'
<1>1. ASSUME NEW n \in Nodes, NEW t \in Signals, HandlerMoves(n, t)
      PROVE  Spent(s, P)'
  <2>1. PICK q \in JobType : Moves(n, t, q)
    BY <1>1, HandlerStepsMove
  <2>2. /\ \A m \in Nodes : job'[m][s] = IF m = n /\ s = t THEN q ELSE job[m][s]
        /\ \A m \in Nodes : Seen(m, s)' <=> Seen(m, s)
        /\ \A m \in Nodes : InFifo(m, s)' <=> InFifo(m, s)
    BY <2>1, MoveFacts
  <2>3. s = t => q.pc \in P
    <3> SUFFICES ASSUME s = t
                 PROVE  q.pc \in P
      OBVIOUS
    <3>1. job[n][s].pc \in P
      BY DEF Spent
    <3>2. job[n][s].pc = "mark" /\ q.pc \in {"mark", "emit"}
      BY <2>1, <3>1 DEF Moves
    <3> QED
      BY <3>1, <3>2
  <2>4. UNCHANGED <<call, recovery>>
    BY <2>1 DEF Moves, rest
  <2> QED
    BY <2>2, <2>3, <2>4 DEF Spent
<1>2. ASSUME NEW n \in Nodes, NEW t \in Signals, HandlerEnds(n, t)
      PROVE  Spent(s, P)'
  <2>1. /\ \A m \in Nodes, u \in Signals : ~(m = n /\ u = t) => job'[m][u] = job[m][u]
        /\ job'[n][t].pc = "idle"
        /\ UNCHANGED <<fifo, seen, recovery>>
        /\ \A u \in Signals : u # t \/ Async => call'[u] = call[u]
        /\ ~Async => call'[t].pc \in {"dead", "answer"}
    BY <1>2, EndFacts
  <2>2. /\ \A m \in Nodes : Seen(m, s)' <=> Seen(m, s)
        /\ \A m \in Nodes : InFifo(m, s)' <=> InFifo(m, s)
    BY <2>1 DEF Seen, InFifo, Holds
  <2>3. call'[s].pc \notin {"new", "checked"} /\ (call'[s].pc = "stored" => call[s].pc = "stored")
    BY <2>1 DEF Spent
  <2>4. \A m \in Nodes : job'[m][s].pc \in P
    BY <2>1 DEF Spent
  <2> QED
    BY <2>1, <2>2, <2>3, <2>4 DEF Spent
<1>3. ASSUME NEW t \in Signals, ApplyCheck(t) \/ ApplyStore(t) \/ ApplyFault(t) \/ ApplyReturn(t)
      PROVE  Spent(s, P)'
  <2>1. PICK pc : /\ call' = [call EXCEPT ![t].pc = pc]
                  /\ call[t].pc \in {"new", "checked"} \/ pc = "done"
    BY <1>3 DEF ApplyCheck, ApplyStore, ApplyFault, ApplyReturn
  <2>2. (s # t => call'[s] = call[s]) /\ (s = t => call'[s].pc = "done")
    BY <2>1, CallFacts DEF Spent
  <2>3. UNCHANGED <<fifo, seen, recovery>>
    BY <1>3, CallHolder
  <2>4. \A m \in Nodes : job'[m][s].pc \in P
    <3>1. job' = job \/ job' = [job EXCEPT ![call[t].node][t] = NoJob]
      BY <1>3 DEF ApplyCheck, ApplyStore, ApplyFault, ApplyReturn
    <3>2. NoJob.pc = "idle"
      BY DEF NoJob
    <3> QED
      BY <3>1, <3>2 DEF HistoryInv, Spent
  <2>5. /\ \A m \in Nodes : Seen(m, s)' <=> Seen(m, s)
        /\ \A m \in Nodes : InFifo(m, s)' <=> InFifo(m, s)
    BY <2>3 DEF Seen, InFifo, Holds
  <2> QED
    BY <2>2, <2>3, <2>4, <2>5 DEF Spent
<1>4. ASSUME NEW n \in Nodes, NEW t \in Signals, Enqueue(n, t), Async, job' = job,
             s # t \/ Seen(n, s),
             call'[s].pc \notin {"new", "checked"}, call'[s].pc = "stored" => call[s].pc = "stored",
             \A m \in Nodes : recovery'[m].left \subseteq recovery[m].left
      PROVE  Spent(s, P)'
  <2>1. /\ \A m \in Nodes : Seen(m, s) => Seen(m, s)'
        /\ \A m \in Nodes : InFifo(m, s)' => InFifo(m, s)
    BY <1>4, EnqueueFacts
  <2> QED
    BY <1>4, <2>1 DEF Spent
<1>5. ASSUME NEW t \in Signals, ApplyEnqueue(t)
      PROVE  Spent(s, P)'
  <2>1. call[t].node \in Nodes /\ call[t].pc = "stored" /\ recovery' = recovery
    BY <1>5 DEF ApplyEnqueue, TypeInv, CallType, rest
  <2>2. CASE Async
    <3>1. Enqueue(call[t].node, t) /\ call' = [call EXCEPT ![t].pc = "answer"] /\ job' = job
      BY <1>5, <2>2 DEF ApplyEnqueue
    <3>2. (s # t => call'[s] = call[s]) /\ (s = t => call'[s].pc = "answer")
      BY <3>1, CallFacts
    <3>3. s # t \/ Seen(call[t].node, s)
      BY <2>1, <2>2 DEF Spent
    <3>4. call'[s].pc \notin {"new", "checked"} /\ (call'[s].pc = "stored" => call[s].pc = "stored")
      BY <3>2 DEF Spent
    <3> QED
      BY <1>4, <2>1, <2>2, <3>1, <3>3, <3>4
  <2>3. CASE ~Async
    <3>1. s # t
      BY <2>1, <2>3 DEF Spent
    <3>2. /\ job' = [job EXCEPT ![call[t].node][t] = NewJob]
          /\ call' = [call EXCEPT ![t].pc = "waiting"]
      BY <1>5, <2>3 DEF ApplyEnqueue
    <3>3. call'[s] = call[s] /\ \A m \in Nodes : job'[m][s] = job[m][s]
      BY <3>1, <3>2, CallFacts DEF HistoryInv
    <3> QED
      BY <2>3, <3>3 DEF Spent
  <2> QED
    BY <2>2, <2>3
<1>6. ASSUME NEW n \in Nodes, NEW p \in Plans, BeginJob(n, p)
      PROVE  Spent(s, P)'
  <2>1. PICK h \in Signals :
          /\ h = fifo[n][p][1] /\ 1 \in DOMAIN fifo[n][p]
          /\ job' = [job EXCEPT ![n][h] = NewJob]
          /\ \A m \in Nodes, t \in Signals : InFifo(m, t)' => InFifo(m, t)
    BY <1>6, BeginFacts
  <2>2. Async /\ UNCHANGED <<seen, recovery, call>>
    BY <1>6 DEF BeginJob, rest
  <2>3. InFifo(n, h)
    BY <2>1 DEF HolderInv, FifoInv, InFifo, Holds
  <2>4. h # s
    BY <2>2, <2>3 DEF Spent
  <2>5. \A m \in Nodes : job'[m][s] = job[m][s]
    BY <2>1, <2>4 DEF HistoryInv
  <2>6. \A m \in Nodes : Seen(m, s)' <=> Seen(m, s)
    BY <2>2 DEF Seen
  <2> QED
    BY <2>1, <2>2, <2>5, <2>6 DEF Spent
<1>7. ASSUME NEW n \in Nodes, Crash(n)
      PROVE  Spent(s, P)'
  <2>1. /\ \A m \in Nodes : Seen(m, s)' <=> m # n /\ Seen(m, s)
        /\ \A m \in Nodes : InFifo(m, s)' <=> m # n /\ InFifo(m, s)
        /\ \A m \in Nodes : job'[m][s] = IF m = n THEN NoJob ELSE job[m][s]
        /\ \A m \in Nodes : recovery'[m] = IF m = n THEN NoScan ELSE recovery[m]
        /\ call'[s].pc = IF call[s].node = n /\ call[s].pc # "new" THEN "dead" ELSE call[s].pc
    BY <1>7, CrashFacts
  <2>2. NoScan.left = {} /\ NoJob.pc = "idle"
    BY DEF NoScan, NoJob
  <2>3. call[s].node \in Nodes
    BY DEF TypeInv, CallType
  <2>4. Async => call'[s].pc # "stored"
    BY <2>1, <2>3 DEF OneNode
  <2> QED
    BY <2>1, <2>2, <2>4 DEF Spent
<1>8. ASSUME NEW n \in Nodes, Restart(n) \/ RecoverScan(n)
      PROVE  Spent(s, P)'
  <2>1. /\ UNCHANGED <<store, queue, call, job>>
        /\ \A m \in Nodes : m # n => recovery'[m] = recovery[m]
        /\ \A t \in recovery'[n].left : status[t] = "pending"
    BY <1>8, ScanFacts
  <2>2. /\ \A m \in Nodes : Seen(m, s)' <=> Seen(m, s)
        /\ \A m \in Nodes : InFifo(m, s)' <=> InFifo(m, s)
    BY <2>1 DEF queue, Seen, InFifo, Holds
  <2>3. \A m \in Nodes : Async /\ ~Seen(m, s) => s \notin recovery'[m].left /\ call[s].pc # "stored"
    BY <2>1 DEF Spent
  <2> QED
    BY <2>1, <2>2, <2>3 DEF Spent
<1>9. ASSUME NEW n \in Nodes, RecoverNext(n)
      PROVE  Spent(s, P)'
  <2>1. Async /\ UNCHANGED <<store, call, job>>
    BY <1>9, RecoverFacts
  <2>2. PICK t \in Signals :
          /\ t \in recovery[n].left /\ recovery'[n].left = recovery[n].left \ {t}
          /\ \A m \in Nodes : m # n => recovery'[m] = recovery[m]
          /\ Enqueue(n, t) \/ UNCHANGED queue
    BY <1>9, RecoverFacts
  <2>3. /\ \A m \in Nodes : recovery'[m].left \subseteq recovery[m].left
        /\ s # t \/ Seen(n, s)
    BY <2>1, <2>2 DEF Spent
  <2>4. call'[s].pc \notin {"new", "checked"} /\ call'[s] = call[s]
    BY <2>1 DEF Spent
  <2>5. CASE Enqueue(n, t)
    BY <1>4, <2>1, <2>3, <2>4, <2>5
  <2>6. CASE UNCHANGED queue
    <3>1. /\ \A m \in Nodes : Seen(m, s)' <=> Seen(m, s)
          /\ \A m \in Nodes : InFifo(m, s)' <=> InFifo(m, s)
      BY <2>6 DEF queue, Seen, InFifo, Holds
    <3> QED
      BY <2>1, <2>3, <2>4, <3>1 DEF Spent
  <2> QED
    BY <2>2, <2>5, <2>6
<1>10. CASE UNCHANGED <<store, queue, call, recovery, job, events, stranded, up, crashes>>
  BY <1>10 DEF Spent, Seen, InFifo, Holds, queue
<1> QED
  BY <1>1, <1>2, <1>3, <1>5, <1>6, <1>7, <1>8, <1>9, <1>10, NextCases

-----------------------------------------------------------------------------
(* A recorded outcome is final.                                            *)

\* A row changes when CreateSignal inserts it, and when a handler at its mark overwrites it.
LEMMA StatusChanges ==
  ASSUME HistoryInv, TypeInv, HolderInv, [Next]_vars, NEW s \in Signals, status'[s] # status[s]
  PROVE  \/ call[s].pc = "checked" /\ status'[s] = "pending"
         \/ \E n \in Nodes, q \in JobType :
              Moves(n, s, q) /\ job[n][s].pc = "mark" /\ q.pc = "emit" /\ status'[s] = q.result
<1>1. ASSUME NEW n \in Nodes, NEW t \in Signals, HandlerMoves(n, t)
      PROVE  \E q \in JobType :
               Moves(n, s, q) /\ job[n][s].pc = "mark" /\ q.pc = "emit" /\ status'[s] = q.result
  <2>1. PICK q \in JobType : Moves(n, t, q)
    BY <1>1, HandlerStepsMove
  <2>2. s = t /\ status'[s] = q.result
    BY <2>1, MoveFacts
  <2>3. job[n][s].pc = "mark" /\ q.pc = "emit"
    BY <2>1, <2>2 DEF Moves
  <2> QED
    BY <2>1, <2>2, <2>3
<1>2. ASSUME NEW t \in Signals, ApplyCheck(t) \/ ApplyStore(t) \/ ApplyFault(t) \/ ApplyReturn(t)
      PROVE  call[s].pc = "checked" /\ status'[s] = "pending"
  <2>1. call[t].pc = "checked" /\ status' = [status EXCEPT ![t] = "pending"]
    BY <1>2 DEF ApplyCheck, ApplyStore, ApplyFault, ApplyReturn, store
  <2> QED
    BY <2>1 DEF HistoryInv
<1>3. ASSUME NEW t \in Signals, ApplyEnqueue(t)
      PROVE  FALSE
  BY <1>3 DEF ApplyEnqueue, store
<1>4. ASSUME NEW n \in Nodes, NEW p \in Plans, BeginJob(n, p)
      PROVE  FALSE
  BY <1>4 DEF BeginJob, store
<1>5. ASSUME NEW n \in Nodes, NEW t \in Signals, HandlerEnds(n, t)
      PROVE  FALSE
  BY <1>5, EndFacts DEF store
<1>6. ASSUME NEW n \in Nodes, Crash(n)
      PROVE  FALSE
  BY <1>6, CrashFacts DEF store
<1>7. ASSUME NEW n \in Nodes, Restart(n) \/ RecoverScan(n)
      PROVE  FALSE
  BY <1>7, ScanFacts DEF store
<1>8. ASSUME NEW n \in Nodes, RecoverNext(n)
      PROVE  FALSE
  BY <1>8, RecoverFacts DEF store
<1>9. ~UNCHANGED <<store, queue, call, recovery, job, events, stranded, up, crashes>>
  BY DEF store
<1> QED
  BY <1>1, <1>2, <1>3, <1>4, <1>5, <1>6, <1>7, <1>8, <1>9, NextCases

\* A step of the only handler of a signal leaves the signal spent, but for that handler.
LEMMA MovedIsSpent ==
  ASSUME HistoryInv, HolderInv, ~Async \/ OneNode, NEW n \in Nodes, NEW s \in Signals,
         NEW q \in JobType, Moves(n, s, q), NEW P, "idle" \in P, q.pc \in P
  PROVE  Spent(s, P)' /\ (Async => \A m \in Nodes : Seen(m, s)')
<1>1. Active(n, s)
  BY MoveFacts
<1>2. /\ \A m \in Nodes : m # n => job[m][s].pc = "idle"
      /\ Async => \A m \in Nodes : Seen(m, s) /\ ~InFifo(m, s)
      /\ call[s].pc \notin {"new", "checked"} /\ (~Async => call[s].pc = "waiting")
  BY <1>1, OneHandler
<1>3. /\ \A m \in Nodes : job'[m][s] = IF m = n THEN q ELSE job[m][s]
      /\ \A m \in Nodes : Seen(m, s)' <=> Seen(m, s)
      /\ \A m \in Nodes : InFifo(m, s)' <=> InFifo(m, s)
  BY MoveFacts
<1>4. call' = call
  BY DEF Moves
<1>5. \A m \in Nodes : job'[m][s].pc \in P
  BY <1>2, <1>3
<1> QED
  BY <1>2, <1>3, <1>4, <1>5 DEF Spent

\* A signal with an outcome has no handler left that could record another one.
FinalInv == \A s \in Signals : status[s] \in Outcomes => Spent(s, {"idle", "emit"})

\* Every step keeps an outcome, and keeps its signal spent.
LEMMA FinalStays ==
  ASSUME HistoryInv, TypeInv, HolderInv, FinalInv, ~Async \/ OneNode, [Next]_vars
  PROVE  /\ FinalInv'
         /\ \A s \in Signals : status[s] \in Outcomes => status'[s] = status[s]
<1>1. ASSUME NEW s \in Signals, status[s] \in Outcomes
      PROVE  Spent(s, {"idle", "emit"})' /\ status'[s] = status[s]
  <2>1. Spent(s, {"idle", "emit"}) /\ status[s] # "pending"
    BY <1>1 DEF FinalInv, Outcomes
  <2>2. Spent(s, {"idle", "emit"})'
    BY <2>1, SpentStays
  <2>3. status'[s] = status[s]
    BY <2>1, StatusChanges DEF Spent
  <2> QED
    BY <2>2, <2>3
<1>2. ASSUME NEW s \in Signals, status[s] \notin Outcomes, status'[s] \in Outcomes
      PROVE  Spent(s, {"idle", "emit"})'
  <2>1. status'[s] # "pending" /\ status'[s] # status[s]
    BY <1>2 DEF Outcomes
  <2>2. PICK n \in Nodes, q \in JobType : Moves(n, s, q) /\ q.pc = "emit"
    BY <2>1, StatusChanges
  <2> QED
    BY <2>2, MovedIsSpent
<1> QED
  BY <1>1, <1>2 DEF FinalInv

\* A signal's recorded outcome is never overwritten, although MarkSignalProcessed would:
\* one process (or the inline handler, on any number of nodes) accepts a signal once, and a
\* scan only brings pending rows.  Two nodes with queues of their own do overwrite each
\* other's outcome.
THEOREM OutcomesAreFinal ==
  ASSUME ~Async \/ OneNode
  PROVE  Spec => StatusFinal
<1>1. Init => FinalInv
  BY DEF Init, FinalInv, Outcomes, SignalStatus
<1>2. HistoryInv /\ TypeInv /\ HolderInv /\ FinalInv /\ [Next]_vars =>
        FinalInv' /\ [\A s \in Signals : status[s] \in Outcomes => status'[s] = status[s]]_vars
  BY FinalStays
<1>3. Spec => [][\A s \in Signals : status[s] \in Outcomes => status'[s] = status[s]]_vars
  BY <1>1, <1>2, HolderInvariant, PTL DEF Spec
<1> QED
  BY <1>3 DEF StatusFinal, Outcomes

-----------------------------------------------------------------------------
(* One version per signal.                                                 *)

\* The history of a plan changes only when a handler of one of its signals writes.
LEMMA VersionsChange ==
  ASSUME HistoryInv, TypeInv, HolderInv, [Next]_vars, versions' # versions
  PROVE  \E n \in Nodes, s \in Signals, q \in JobType :
           /\ Moves(n, s, q) /\ job[n][s].pc = "write" /\ q.pc = "mark"
           /\ \A p \in Plans : p # PlanOf[s] => versions'[p] = versions[p]
           /\ versions'[PlanOf[s]] = versions[PlanOf[s]] \cup
                {[num |-> job[n][s].base + 1, content |-> job[n][s].content, by |-> s]}
<1>1. PICK n \in Nodes, s \in Signals : HandlerMoves(n, s)
  <2>1. \A t \in Signals :
          ~(ApplyCheck(t) \/ ApplyStore(t) \/ ApplyFault(t) \/ ApplyReturn(t)) /\ ~ApplyEnqueue(t)
    BY DEF ApplyCheck, ApplyStore, ApplyFault, ApplyReturn, ApplyEnqueue, store
  <2>2. \A m \in Nodes, p \in Plans : ~BeginJob(m, p)
    BY DEF BeginJob, store
  <2>3. \A m \in Nodes, t \in Signals : ~HandlerEnds(m, t)
    BY EndFacts DEF store
  <2>4. \A m \in Nodes : ~Crash(m)
    BY CrashFacts DEF store
  <2>5. \A m \in Nodes : ~(Restart(m) \/ RecoverScan(m)) /\ ~RecoverNext(m)
    BY ScanFacts, RecoverFacts DEF store
  <2> QED
    BY <2>1, <2>2, <2>3, <2>4, <2>5, NextCases DEF store
<1>2. PICK q \in JobType : Moves(n, s, q)
  BY <1>1, HandlerStepsMove
<1>3. /\ job[n][s].pc = "write" /\ q.pc = "mark"
      /\ versions' = [versions EXCEPT ![PlanOf[s]] = @ \cup
           {[num |-> job[n][s].base + 1, content |-> job[n][s].content, by |-> s]}]
  BY <1>2 DEF Moves
<1>4. PlanOf[s] \in Plans /\ versions \in [Plans -> SUBSET Rows]
  BY PlanOfSignal DEF HistoryInv
<1>5. /\ \A p \in Plans : p # PlanOf[s] => versions'[p] = versions[p]
      /\ versions'[PlanOf[s]] = versions[PlanOf[s]] \cup
           {[num |-> job[n][s].base + 1, content |-> job[n][s].content, by |-> s]}
  BY <1>3, <1>4
<1> QED
  BY <1>2, <1>3, <1>5

\* What a node has accepted it knows until its process dies.
LEMMA SeenStays ==
  ASSUME HistoryInv, TypeInv, HolderInv, [Next]_vars, NEW n \in Nodes, NEW s \in Signals, Seen(n, s),
         ~Crash(n)
  PROVE  Seen(n, s)'
<1>1. ASSUME NEW m \in Nodes, NEW t \in Signals, Enqueue(m, t)
      PROVE  Seen(n, s)'
  BY <1>1, EnqueueFacts
<1>2. ASSUME seen'[n] = seen[n]
      PROVE  Seen(n, s)'
  BY <1>2 DEF Seen
<1>3. ASSUME NEW m \in Nodes, NEW t \in Signals, HandlerMoves(m, t)
      PROVE  Seen(n, s)'
  BY <1>3, HandlerStepsMove, MoveFacts
<1>4. ASSUME NEW t \in Signals, ApplyCheck(t) \/ ApplyStore(t) \/ ApplyFault(t) \/ ApplyReturn(t)
      PROVE  Seen(n, s)'
  BY <1>2, <1>4, CallHolder
<1>5. ASSUME NEW t \in Signals, ApplyEnqueue(t)
      PROVE  Seen(n, s)'
  <2>1. Enqueue(call[t].node, t) \/ UNCHANGED queue
    BY <1>5 DEF ApplyEnqueue
  <2>2. call[t].node \in Nodes
    BY DEF TypeInv, CallType
  <2> QED
    BY <1>1, <1>2, <2>1, <2>2 DEF queue
<1>6. ASSUME NEW m \in Nodes, NEW p \in Plans, BeginJob(m, p)
      PROVE  Seen(n, s)'
  BY <1>2, <1>6 DEF BeginJob
<1>7. ASSUME NEW m \in Nodes, NEW t \in Signals, HandlerEnds(m, t)
      PROVE  Seen(n, s)'
  BY <1>2, <1>7, EndFacts
<1>8. ASSUME NEW m \in Nodes, Crash(m)
      PROVE  Seen(n, s)'
  BY <1>8, CrashFacts
<1>9. ASSUME NEW m \in Nodes, Restart(m) \/ RecoverScan(m)
      PROVE  Seen(n, s)'
  BY <1>2, <1>9, ScanFacts DEF queue
<1>10. ASSUME NEW m \in Nodes, RecoverNext(m)
       PROVE  Seen(n, s)'
  BY <1>1, <1>2, <1>10, RecoverFacts DEF queue
<1>11. CASE UNCHANGED <<store, queue, call, recovery, job, events, stranded, up, crashes>>
  BY <1>2, <1>11 DEF queue
<1> QED
  BY <1>3, <1>4, <1>5, <1>6, <1>7, <1>8, <1>9, <1>10, <1>11, NextCases

\* A signal that wrote a version is past its write for good; versions are written for the
\* signals of their plan.
Written(s) == \E r \in versions[PlanOf[s]] : r.by = s

WrittenInv ==
  /\ \A p \in Plans : \A r \in versions[p] : r.by # NoSignal => PlanOf[r.by] = p
  /\ OneVersionPerSignal
  /\ \A s \in Signals :
       Written(s) => Spent(s, {"idle", "mark", "emit"}) /\ (Async => \A n \in Nodes : Seen(n, s))
  /\ Async => crashes = 0

\* Without crashes there is no crash to count.
LEMMA NoCrash ==
  ASSUME [Next]_vars, MaxCrashes = 0, crashes = 0
  PROVE  crashes' = 0 /\ \A n \in Nodes : ~Crash(n)
<1>1. \A n \in Nodes : ~Crash(n)
  BY DEF Crash
<1>2. CASE UNCHANGED vars
  BY <1>1, <1>2 DEF vars
<1>3. CASE Next
  <2>1. ASSUME NEW s \in Signals, ApplyCheck(s) \/ CallStep(s) \/ ApplyFault(s)
        PROVE  crashes' = crashes
    BY <2>1 DEF ApplyCheck, CallStep, ApplyStore, ApplyEnqueue, ApplyReturn, ApplyFault
  <2>2. ASSUME NEW n \in Nodes, NEW p \in Plans, BeginJob(n, p)
        PROVE  crashes' = crashes
    BY <2>2 DEF BeginJob
  <2>3. ASSUME NEW n \in Nodes, NEW s \in Signals,
               \/ HandlerStep(n, s) \/ PlannerError(n, s) \/ HandlerPanics(n, s)
               \/ CtxDone(n, s) \/ StoreFault(n, s)
        PROVE  crashes' = crashes
    BY <2>3 DEF HandlerStep, Load, Evaluate, Write, Mark, EmitCompleted, PlannerError, HandlerPanics,
       CtxDone, StoreFault, Goto
  <2>4. ASSUME NEW n \in Nodes, Restart(n) \/ RecoverScan(n) \/ RecoverNext(n)
        PROVE  crashes' = crashes
    BY <2>4 DEF Restart, RecoverScan, RecoverNext
  <2>5. ASSUME NEW p \in Plans, NEW st \in GoalMoves, SetGoalStatus(p, st)
        PROVE  crashes' = crashes
    BY <2>5 DEF SetGoalStatus
  <2> QED
    BY <1>1, <1>3, <2>1, <2>2, <2>3, <2>4, <2>5 DEF Next
<1> QED
  BY <1>1, <1>2, <1>3

\* Every step keeps at most one version per signal.
LEMMA WrittenStays ==
  ASSUME HistoryInv, TypeInv, HolderInv, WrittenInv, ~Async \/ (OneNode /\ MaxCrashes = 0), [Next]_vars
  PROVE  WrittenInv'
<1>1. Async => crashes' = 0 /\ \A n \in Nodes : ~Crash(n)
  BY NoCrash DEF WrittenInv
<1>2. ASSUME NEW s \in Signals, Written(s)
      PROVE  Spent(s, {"idle", "mark", "emit"})' /\ (Async => \A n \in Nodes : Seen(n, s)')
  <2>1. Spent(s, {"idle", "mark", "emit"}) /\ (Async => \A n \in Nodes : Seen(n, s))
    BY <1>2 DEF WrittenInv
  <2>2. Spent(s, {"idle", "mark", "emit"})'
    BY <2>1, SpentStays
  <2>3. Async => \A n \in Nodes : Seen(n, s)'
    BY <1>1, <2>1, SeenStays
  <2> QED
    BY <2>2, <2>3
<1>3. CASE versions' = versions
  <2>1. \A s \in Signals : Written(s)' <=> Written(s)
    BY <1>3 DEF Written
  <2>2. OneVersionPerSignal' /\ \A p \in Plans : \A r \in versions'[p] : r.by # NoSignal => PlanOf[r.by] = p
    BY <1>3 DEF WrittenInv, OneVersionPerSignal
  <2> QED
    BY <1>1, <1>2, <2>1, <2>2 DEF WrittenInv
<1>4. CASE versions' # versions
  <2>1. PICK n \in Nodes, s \in Signals, q \in JobType :
          /\ Moves(n, s, q) /\ job[n][s].pc = "write" /\ q.pc = "mark"
          /\ \A p \in Plans : p # PlanOf[s] => versions'[p] = versions[p]
          /\ versions'[PlanOf[s]] = versions[PlanOf[s]] \cup
               {[num |-> job[n][s].base + 1, content |-> job[n][s].content, by |-> s]}
    BY <1>4, VersionsChange
  <2>2. PICK w : w = [num |-> job[n][s].base + 1, content |-> job[n][s].content, by |-> s]
    OBVIOUS
  <2>3. w.by = s /\ versions'[PlanOf[s]] = versions[PlanOf[s]] \cup {w}
    BY <2>1, <2>2
  <2>4. Spent(s, {"idle", "mark", "emit"})' /\ (Async => \A m \in Nodes : Seen(m, s)')
    BY <2>1, MovedIsSpent
  <2>5. ~Written(s)
    BY <2>1 DEF WrittenInv, Spent
  <2>6. \A t \in Signals : t # s => (Written(t)' <=> Written(t))
    BY <2>1, <2>3, PlanOfSignal DEF Written
  <2>7. \A p \in Plans : \A r \in versions'[p] : r.by # NoSignal => PlanOf[r.by] = p
    BY <2>1, <2>3 DEF WrittenInv
  <2>8. OneVersionPerSignal'
    <3>1. \A p \in Plans : \A r, x \in versions[p] : r.by = x.by /\ r.by # NoSignal => r = x
      BY DEF WrittenInv, OneVersionPerSignal
    <3>2. \A r \in versions[PlanOf[s]] : r.by # s
      BY <2>5 DEF Written
    <3> QED
      BY <2>1, <2>3, <3>1, <3>2 DEF OneVersionPerSignal
  <2> QED
    BY <1>1, <1>2, <2>4, <2>6, <2>7, <2>8 DEF WrittenInv
<1> QED
  BY <1>3, <1>4

\* A signal contributes at most one version: with the inline handler on any number of nodes
\* and across crashes, with the queue in one process that does not crash.  After a crash the
\* scan replays a signal whose version was written and whose row was not marked, and two
\* nodes may both take it.
THEOREM SignalsWriteOnce ==
  ASSUME ~Async \/ (OneNode /\ MaxCrashes = 0)
  PROVE  Spec => []OneVersionPerSignal
<1>1. Init => WrittenInv
  <2>1. ASSUME Init
        PROVE  WrittenInv
    <3>1. \A p \in Plans : \A r \in versions[p] :
            r = [num |-> 1, content |-> InitialContent, by |-> NoSignal]
      BY <2>1 DEF Init
    <3>2. \A s \in Signals : ~Written(s)
      BY <3>1, PlanOfSignal, ReplanningAssumption DEF Written
    <3>3. OneVersionPerSignal
      BY <3>1 DEF OneVersionPerSignal
    <3>4. crashes = 0
      BY <2>1 DEF Init
    <3>5. \A p \in Plans : \A r \in versions[p] : r.by = NoSignal
      BY <3>1
    <3> QED
      BY <3>2, <3>3, <3>4, <3>5 DEF WrittenInv
  <2> QED
    BY <2>1
<1>2. HistoryInv /\ TypeInv /\ HolderInv /\ WrittenInv /\ [Next]_vars => WrittenInv'
  BY WrittenStays
<1>3. WrittenInv => OneVersionPerSignal
  BY DEF WrittenInv
<1> QED
  BY <1>1, <1>2, <1>3, HolderInvariant, PTL DEF Spec

-----------------------------------------------------------------------------
(* What a replan.completed event says is in the store.                     *)

\* A handler's local state moves in a step of the handler, or it is fresh: idle or begun.
LEMMA JobSteps ==
  ASSUME HistoryInv, TypeInv, HolderInv, [Next]_vars, NEW n \in Nodes, NEW s \in Signals
  PROVE  \/ job'[n][s] = job[n][s]
         \/ job'[n][s].pc \in {"idle", "load"} /\ ~job'[n][s].expired
         \/ \E q \in JobType : Moves(n, s, q) /\ job'[n][s] = q
<1> DEFINE Fresh(j) == j.pc \in {"idle", "load"} /\ ~j.expired
<1>1. Fresh(NoJob) /\ Fresh(NewJob)
  BY DEF NoJob, NewJob
<1>2. ASSUME NEW m \in Nodes, NEW t \in Signals, NEW j, Fresh(j), job' = [job EXCEPT ![m][t] = j]
      PROVE  job'[n][s] = job[n][s] \/ Fresh(job'[n][s])
  BY <1>2 DEF HistoryInv
<1> HIDE DEF Fresh
<1>3. ASSUME NEW m \in Nodes, NEW t \in Signals, HandlerMoves(m, t)
      PROVE  job'[n][s] = job[n][s] \/ \E q \in JobType : Moves(n, s, q) /\ job'[n][s] = q
  BY <1>3, HandlerStepsMove, MoveFacts
<1>4. ASSUME NEW t \in Signals, ApplyCheck(t) \/ ApplyStore(t) \/ ApplyFault(t) \/ ApplyReturn(t)
      PROVE  job'[n][s] = job[n][s] \/ Fresh(job'[n][s])
  <2>1. job' = job \/ job' = [job EXCEPT ![call[t].node][t] = NoJob]
    BY <1>4 DEF ApplyCheck, ApplyStore, ApplyFault, ApplyReturn
  <2>2. call[t].node \in Nodes
    BY DEF TypeInv, CallType
  <2> QED
    BY <1>1, <1>2, <2>1, <2>2
<1>5. ASSUME NEW t \in Signals, ApplyEnqueue(t)
      PROVE  job'[n][s] = job[n][s] \/ Fresh(job'[n][s])
  <2>1. job' = job \/ job' = [job EXCEPT ![call[t].node][t] = NewJob]
    BY <1>5 DEF ApplyEnqueue
  <2>2. call[t].node \in Nodes
    BY DEF TypeInv, CallType
  <2> QED
    BY <1>1, <1>2, <2>1, <2>2
<1>6. ASSUME NEW m \in Nodes, NEW p \in Plans, BeginJob(m, p)
      PROVE  job'[n][s] = job[n][s] \/ Fresh(job'[n][s])
  <2>1. PICK h \in Signals : job' = [job EXCEPT ![m][h] = NewJob]
    BY <1>6, BeginFacts
  <2> QED
    BY <1>1, <1>2, <2>1
<1>7. ASSUME NEW m \in Nodes, NEW t \in Signals, HandlerEnds(m, t)
      PROVE  job'[n][s] = job[n][s] \/ Fresh(job'[n][s])
  <2>1. (m = n /\ s = t) => Fresh(job'[n][s])
    BY <1>7, EndFacts DEF Fresh
  <2>2. \A i \in Nodes, u \in Signals : ~(i = m /\ u = t) => job'[i][u] = job[i][u]
    BY <1>7, EndFacts
  <2> QED
    BY <2>1, <2>2
<1>8. ASSUME NEW m \in Nodes, Crash(m)
      PROVE  job'[n][s] = job[n][s] \/ Fresh(job'[n][s])
  BY <1>1, <1>8, CrashFacts
<1>9. ASSUME NEW m \in Nodes, Restart(m) \/ RecoverScan(m) \/ RecoverNext(m)
      PROVE  job' = job
  BY <1>9, ScanFacts, RecoverFacts
<1>10. (job'[n][s] = job[n][s] \/ Fresh(job'[n][s])) \/ (\E q \in JobType : Moves(n, s, q) /\ job'[n][s] = q)
  BY <1>3, <1>4, <1>5, <1>6, <1>7, <1>8, <1>9, NextCases
<1> QED
  BY <1>10 DEF Fresh

\* A replan.completed event comes from a handler that is past its mark, and reports its result.
LEMMA EventSteps ==
  ASSUME HistoryInv, TypeInv, HolderInv, [Next]_vars, NEW s \in Signals, NEW st \in SignalStatus,
         Completed(s, st) \in events', Completed(s, st) \notin events
  PROVE  \E n \in Nodes : job[n][s].pc = "emit" /\ st = job[n][s].result
<1>1. ASSUME NEW n \in Nodes, NEW t \in Signals, HandlerEnds(n, t)
      PROVE  job[n][s].pc = "emit" /\ st = job[n][s].result
  <2>1. ASSUME EmitCompleted(n, t)
        PROVE  job[n][s].pc = "emit" /\ st = job[n][s].result
    <3>1. job[n][t].pc = "emit" /\ events' = events \cup {Completed(t, job[n][t].result)}
      BY <2>1 DEF EmitCompleted
    <3>2. PICK out : out = job[n][t].result
      OBVIOUS
    <3>3. Completed(s, st) = Completed(t, out)
      BY <3>1, <3>2
    <3>4. s = t /\ st = out
      BY <3>3 DEF Completed
    <3> QED
      BY <3>1, <3>2, <3>4
  <2>2. ~HandlerPanics(n, t)
    BY DEF HandlerPanics
  <2> QED
    BY <1>1, <2>1, <2>2 DEF HandlerEnds
<1>2. ASSUME NEW t \in Signals, ApplyCheck(t) \/ ApplyStore(t) \/ ApplyFault(t) \/ ApplyReturn(t)
      PROVE  FALSE
  BY <1>2 DEF ApplyCheck, ApplyStore, ApplyFault, ApplyReturn, Completed, Received
<1>3. ASSUME NEW t \in Signals, ApplyEnqueue(t)
      PROVE  FALSE
  BY <1>3 DEF ApplyEnqueue
<1>4. ASSUME NEW n \in Nodes, NEW p \in Plans, BeginJob(n, p)
      PROVE  FALSE
  BY <1>4 DEF BeginJob
<1>5. ASSUME NEW n \in Nodes, NEW t \in Signals, HandlerMoves(n, t)
      PROVE  FALSE
  BY <1>5, HandlerStepsMove DEF Moves
<1>6. ASSUME NEW n \in Nodes, Crash(n) \/ Restart(n) \/ RecoverScan(n) \/ RecoverNext(n)
      PROVE  FALSE
  BY <1>6, CrashFacts, ScanFacts, RecoverFacts
<1> QED
  BY <1>1, <1>2, <1>3, <1>4, <1>5, <1>6, NextCases

\* Past the mark the row has the handler's result, and so has every event, unless the mark
\* failed.
CompletedInv ==
  /\ \A n \in Nodes, s \in Signals :
       job[n][s].pc = "emit" => status[s] = job[n][s].result \/ s \in stranded
  /\ \A s \in Signals, st \in SignalStatus :
       Completed(s, st) \in events => (status[s] = st /\ st \in Outcomes) \/ s \in stranded

\* What was given up stays on record.
LEMMA StrandedGrows ==
  ASSUME HistoryInv, [Next]_vars
  PROVE  stranded \subseteq stranded'
<1>1. ASSUME NEW s \in Signals,
             ApplyCheck(s) \/ ApplyStore(s) \/ ApplyFault(s) \/ ApplyReturn(s) \/ ApplyEnqueue(s)
      PROVE  stranded \subseteq stranded'
  BY <1>1 DEF ApplyCheck, ApplyStore, ApplyEnqueue, ApplyReturn, ApplyFault
<1>2. ASSUME NEW n \in Nodes, NEW p \in Plans, BeginJob(n, p)
      PROVE  stranded \subseteq stranded'
  BY <1>2 DEF BeginJob
<1>3. ASSUME NEW n \in Nodes, NEW s \in Signals, HandlerMoves(n, s)
      PROVE  stranded \subseteq stranded'
  BY <1>3, HandlerStepsMove DEF Moves
<1>4. ASSUME NEW n \in Nodes, NEW s \in Signals, HandlerEnds(n, s)
      PROVE  stranded \subseteq stranded'
  BY <1>4 DEF HandlerEnds, EmitCompleted, HandlerPanics
<1>5. ASSUME NEW n \in Nodes, Crash(n) \/ Restart(n)
      PROVE  stranded \subseteq stranded'
  BY <1>5 DEF Crash, Restart
<1>6. ASSUME NEW n \in Nodes, RecoverScan(n) \/ RecoverNext(n)
      PROVE  stranded \subseteq stranded'
  BY <1>6 DEF RecoverScan, RecoverNext
<1> QED
  BY <1>1, <1>2, <1>3, <1>4, <1>5, <1>6, NextCases

\* Every step keeps events and rows in agreement: the outcome an event reports cannot be
\* overwritten afterwards, and a mark that failed is on record.
LEMMA CompletedStays ==
  ASSUME HistoryInv, TypeInv, HolderInv, FinalInv, CompletedInv, ~Async \/ OneNode, [Next]_vars
  PROVE  CompletedInv'
<1>1. stranded \subseteq stranded'
  BY StrandedGrows
<1>2. \A s \in Signals : status[s] \in Outcomes => status'[s] = status[s]
  BY FinalStays
<1>3. ASSUME NEW n \in Nodes, NEW s \in Signals, job[n][s].pc = "emit"
      PROVE  \/ status[s] = job[n][s].result /\ status[s] \in Outcomes /\ status'[s] = status[s]
             \/ s \in stranded
  BY <1>2, <1>3 DEF CompletedInv, HolderInv, ResultInv
<1>4. ASSUME NEW n \in Nodes, NEW s \in Signals, job'[n][s].pc = "emit"
      PROVE  status'[s] = job'[n][s].result \/ s \in stranded'
  <2>1. CASE job'[n][s] = job[n][s]
    BY <1>1, <1>3, <1>4, <2>1
  <2>2. CASE job'[n][s].pc \in {"idle", "load"} /\ ~job'[n][s].expired
    BY <1>4, <2>2
  <2>3. ASSUME NEW q \in JobType, Moves(n, s, q), job'[n][s] = q
        PROVE  status'[s] = job'[n][s].result \/ s \in stranded'
    <3>1. status' = [status EXCEPT ![s] = q.result] \/ s \in stranded'
      BY <1>4, <2>3 DEF Moves
    <3> QED
      BY <2>3, <3>1 DEF HistoryInv
  <2> QED
    BY <2>1, <2>2, <2>3, JobSteps
<1>5. ASSUME NEW s \in Signals, NEW st \in SignalStatus, Completed(s, st) \in events'
      PROVE  (status'[s] = st /\ st \in Outcomes) \/ s \in stranded'
  <2>1. CASE Completed(s, st) \in events
    BY <1>1, <1>2, <2>1 DEF CompletedInv
  <2>2. CASE Completed(s, st) \notin events
    <3>1. PICK n \in Nodes : job[n][s].pc = "emit" /\ st = job[n][s].result
      BY <1>5, <2>2, EventSteps
    <3> QED
      BY <1>1, <1>3, <3>1
  <2> QED
    BY <2>1, <2>2
<1>6. \A s \in Signals, st \in SignalStatus :
        (Completed(s, st) \in events)' => ((status[s])' = st /\ st \in Outcomes) \/ s \in stranded'
  BY <1>5 DEF Completed
<1> QED
  BY <1>4, <1>6 DEF CompletedInv

\* A replan.completed event is true of the store when it goes out and stays true, also across
\* crashes, failing calls and contexts that end, unless marking its signal failed: markSignal
\* only logs that, and the event goes out all the same.  Two nodes with queues of their own
\* do overwrite each other's outcome after the event.
THEOREM CompletedEventsAreRecorded ==
  ASSUME ~Async \/ OneNode
  PROVE  Spec => []CompletedOrLogged
<1>1. Init => FinalInv /\ CompletedInv
  <2>1. ASSUME Init
        PROVE  FinalInv /\ CompletedInv
    <3>1. /\ \A n \in Nodes, s \in Signals : job[n][s] = NoJob
          /\ \A s \in Signals : status[s] = "none"
          /\ events = {}
      BY <2>1 DEF Init
    <3>2. NoJob.pc = "idle"
      BY DEF NoJob
    <3> QED
      BY <3>1, <3>2 DEF FinalInv, CompletedInv, Outcomes, SignalStatus
  <2> QED
    BY <2>1
<1>2. HistoryInv /\ TypeInv /\ HolderInv /\ FinalInv /\ CompletedInv /\ [Next]_vars => FinalInv' /\ CompletedInv'
  BY FinalStays, CompletedStays
<1>3. CompletedInv => CompletedOrLogged
  BY DEF CompletedInv, CompletedOrLogged
<1> QED
  BY <1>1, <1>2, <1>3, HolderInvariant, PTL DEF Spec
=============================================================================
