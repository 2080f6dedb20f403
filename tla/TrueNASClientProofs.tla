------------------------ MODULE TrueNASClientProofs ------------------------
(***************************************************************************)
(* Proofs about TrueNASClient for any sets of jobs.  IInv is inductive:    *)
(* one lemma per action, one step per conjunct.  The last part is the      *)
(* refinement of SharedRpc.                                                *)
(***************************************************************************)
EXTENDS TrueNASClient, SequenceTheorems, TLAPS

USE DEF None, ConnState, ReqState, Outcome, PC

\* A client that was just constructed satisfies it.
LEMMA InitInv == ASSUME Init PROVE IInv
  BY JobsAssumption DEF Init, IInv, TypeOK, RoleInv, OpenerFirst, LockDiscipline, Locked,
     AttemptInv, AttemptsOf, InstallNeverOverwrites, FreshInv, RetryLeavesFailedConnection, Jobs

\* A job that ends, changing no connection, keeps the invariant.
LEMMA FinishStep ==
  ASSUME IInv, NEW j \in Jobs, NEW o \in Outcome \ {"connected"},
         pc[j] \notin {"new", "done"}, Finish(j, o), UNCHANGED <<client, conns, via, req>>
  PROVE  IInv'
<1> USE DEF Finish, Goto
<1>1. TypeOK'
  BY DEF IInv, TypeOK
<1>2. RoleInv'
  BY JobsAssumption DEF IInv, TypeOK, RoleInv, Jobs
<1>3. OpenerFirst'
  BY DEF IInv, OpenerFirst
<1>4. LockDiscipline'
  BY JobsAssumption DEF IInv, TypeOK, RoleInv, LockDiscipline, Locked, Jobs
<1>5. AttemptInv'
  BY DEF IInv, TypeOK, AttemptInv, AttemptsOf
<1>6. InstallNeverOverwrites'
  BY DEF IInv, InstallNeverOverwrites
<1>7. FreshInv'
  BY SMTT(30) DEF IInv, TypeOK, FreshInv
<1>8. RetryLeavesFailedConnection'
  BY DEF IInv, RetryLeavesFailedConnection
<1> QED
  BY <1>1, <1>2, <1>3, <1>4, <1>5, <1>6, <1>7, <1>8 DEF IInv

\* So does a raw call that failed while waiting for its answer.
LEMMA WaitFailsStep ==
  ASSUME IInv, NEW j \in Jobs, pc[j] = "wait",
         RawConnectionError(j, Len(via[j])), UNCHANGED <<client, conns, via, req>>
  PROVE  IInv'
<1>1. CASE ~(j \in Calls /\ Len(via[j]) = 1)
  <2>1. Finish(j, "connection")
    BY <1>1 DEF RawConnectionError
  <2> QED
    BY <2>1, FinishStep
<1>2. CASE j \in Calls /\ Len(via[j]) = 1
  <2>0. /\ pc' = [pc EXCEPT ![j] = "read"]
        /\ held' = [held EXCEPT ![j] = None]
        /\ UNCHANGED <<lock, outcome, client, conns, via, req>>
    BY <1>2 DEF RawConnectionError, Goto
  <2>1. TypeOK'
    BY <1>2, <2>0 DEF IInv, TypeOK
  <2>2. RoleInv'
    BY JobsAssumption, <1>2, <2>0 DEF IInv, TypeOK, RoleInv, Jobs
  <2>3. OpenerFirst'
    BY <1>2, <2>0 DEF IInv, OpenerFirst
  <2>4. LockDiscipline'
    BY <1>2, <2>0 DEF IInv, LockDiscipline, Locked
  <2>5. AttemptInv'
    BY <1>2, <2>0 DEF IInv, TypeOK, AttemptInv, AttemptsOf
  <2>6. InstallNeverOverwrites'
    BY <1>2, <2>0 DEF IInv, InstallNeverOverwrites
  <2>7. FreshInv'
    BY <1>2, <2>0 DEF IInv, FreshInv
  <2>8. RetryLeavesFailedConnection'
    BY <1>2, <2>0 DEF IInv, RetryLeavesFailedConnection
  <2> QED
    BY <2>1, <2>2, <2>3, <2>4, <2>5, <2>6, <2>7, <2>8 DEF IInv
<1> QED
  BY <1>1, <1>2

\* A Begin step keeps the inductive invariant.
LEMMA BeginStep ==
  ASSUME IInv, NEW j \in Jobs, Begin(j)
  PROVE  IInv'
<1> USE DEF Begin, MayBegin, Goto
<1>1. TypeOK'
  BY DEF IInv, TypeOK
<1>2. RoleInv'
  BY JobsAssumption DEF IInv, TypeOK, RoleInv, Jobs
<1>3. OpenerFirst'
  BY JobsAssumption DEF IInv, TypeOK, RoleInv, OpenerFirst, Jobs
<1>4. LockDiscipline'
  BY JobsAssumption DEF IInv, TypeOK, RoleInv, LockDiscipline, Locked, Jobs
<1>5. AttemptInv'
  BY JobsAssumption DEF IInv, TypeOK, RoleInv, AttemptInv, AttemptsOf, Jobs
<1>6. InstallNeverOverwrites'
  BY JobsAssumption, OneOpener
     DEF IInv, TypeOK, RoleInv, OpenerFirst, LockDiscipline, Locked,
     InstallNeverOverwrites, FreshInv, Jobs
<1>7. FreshInv'
  BY DEF IInv, FreshInv
<1>8. RetryLeavesFailedConnection'
  BY DEF IInv, RetryLeavesFailedConnection
<1> QED
  BY <1>1, <1>2, <1>3, <1>4, <1>5, <1>6, <1>7, <1>8 DEF IInv

\* A Acquire step keeps the inductive invariant.
LEMMA AcquireStep ==
  ASSUME IInv, NEW j \in Jobs, Acquire(j)
  PROVE  IInv'
<1> USE DEF Acquire, Goto
<1>1. TypeOK'
  BY DEF IInv, TypeOK
<1>2. RoleInv'
  BY DEF IInv, RoleInv
<1>3. OpenerFirst'
  BY DEF IInv, OpenerFirst
<1>4. LockDiscipline'
  BY JobsAssumption DEF IInv, TypeOK, RoleInv, LockDiscipline, Locked, Jobs
<1>5. AttemptInv'
  BY DEF IInv, AttemptInv, AttemptsOf
<1>6. InstallNeverOverwrites'
  BY DEF IInv, InstallNeverOverwrites
<1>7. FreshInv'
  BY DEF IInv, FreshInv
<1>8. RetryLeavesFailedConnection'
  BY DEF IInv, RetryLeavesFailedConnection
<1> QED
  BY <1>1, <1>2, <1>3, <1>4, <1>5, <1>6, <1>7, <1>8 DEF IInv

\* A Check step keeps the inductive invariant.
LEMMA CheckStep ==
  ASSUME IInv, NEW j \in Jobs, Check(j)
  PROVE  IInv'
<1> USE DEF Check, Goto
<1>1. TypeOK'
  BY DEF IInv, TypeOK
<1>2. RoleInv'
  BY DEF IInv, RoleInv
<1>3. OpenerFirst'
  BY DEF IInv, OpenerFirst
<1>4. LockDiscipline'
  BY DEF IInv, LockDiscipline, Locked
<1>5. AttemptInv'
  BY DEF IInv, AttemptInv, AttemptsOf
<1>6. InstallNeverOverwrites'
  BY DEF IInv, InstallNeverOverwrites
<1>7. FreshInv'
  BY JobsAssumption DEF IInv, TypeOK, RoleInv, AttemptInv, AttemptsOf, FreshInv, Jobs
<1>8. RetryLeavesFailedConnection'
  BY DEF IInv, RetryLeavesFailedConnection
<1> QED
  BY <1>1, <1>2, <1>3, <1>4, <1>5, <1>6, <1>7, <1>8 DEF IInv

\* Construct: the new connection is newer than every one used so far.
LEMMA ConstructStep ==
  ASSUME IInv, NEW j \in Jobs, Construct(j)
  PROVE  IInv'
<1> USE DEF Construct, Goto
<1>1. TypeOK'
  BY SMTT(30) DEF IInv, TypeOK
<1>2. RoleInv'
  BY DEF IInv, RoleInv
<1>3. OpenerFirst'
  BY DEF IInv, OpenerFirst
<1>4. LockDiscipline'
  BY DEF IInv, LockDiscipline, Locked
<1>5. AttemptInv'
  BY DEF IInv, TypeOK, AttemptInv, AttemptsOf
<1>6. InstallNeverOverwrites'
  BY DEF IInv, InstallNeverOverwrites
<1>7. FreshInv'
  <2>1. /\ held' = [held EXCEPT ![j] = Len(conns) + 1]
        /\ pc' = [pc EXCEPT ![j] = "login"]
        /\ UNCHANGED <<client, via>>
    BY DEF IInv, TypeOK
  <2>2. \A i \in Jobs : \A k \in 1..Len(via[i]) : via[i][k] # Len(conns) + 1 /\ Len(conns) + 1 > via[i][k]
    BY SMTT(30) DEF IInv, TypeOK
  <2>3. ASSUME NEW i \in Jobs, NEW h \in Jobs, pc'[i] = "login", NEW k \in 1..Len(via[h])
        PROVE  via[h][k] # held'[i]
    BY <2>1, <2>2, <2>3, SMTT(30) DEF IInv, TypeOK, FreshInv
  <2>4. ASSUME NEW i \in Calls, Len(via[i]) = 1
        PROVE  /\ pc'[i] = "socket" => client = None
               /\ pc'[i] = "login" => held'[i] > via[i][1]
               /\ pc'[i] = "raw" => client = None \/ client > via[i][1]
    BY <2>1, <2>2, <2>4, SMTT(30) DEF IInv, TypeOK, FreshInv, Jobs
  <2> QED
    BY <2>1, <2>3, <2>4 DEF FreshInv
<1>8. RetryLeavesFailedConnection'
  BY DEF IInv, RetryLeavesFailedConnection
<1> QED
  BY <1>1, <1>2, <1>3, <1>4, <1>5, <1>6, <1>7, <1>8 DEF IInv

\* ConstructFails: a leaked connection is referred to by nobody.
LEMMA ConstructFailsStep ==
  ASSUME IInv, NEW j \in Jobs, ConstructFails(j)
  PROVE  IInv'
<1> USE DEF ConstructFails
<1>1. CASE UNCHANGED conns
  BY <1>1, FinishStep
<1>2. CASE conns' = Append(conns, "open")
  <2> USE DEF Finish, Goto
  <2>1. TypeOK'
    BY <1>2 DEF IInv, TypeOK
  <2>2. RoleInv'
    BY JobsAssumption, <1>2 DEF IInv, TypeOK, RoleInv, Jobs
  <2>3. OpenerFirst'
    BY <1>2 DEF IInv, OpenerFirst
  <2>4. LockDiscipline'
    BY JobsAssumption, <1>2 DEF IInv, TypeOK, RoleInv, LockDiscipline, Locked, Jobs
  <2>5. AttemptInv'
    BY <1>2 DEF IInv, AttemptInv, AttemptsOf
  <2>6. InstallNeverOverwrites'
    BY <1>2 DEF IInv, InstallNeverOverwrites
  <2>7. FreshInv'
    BY <1>2 DEF IInv, FreshInv
  <2>8. RetryLeavesFailedConnection'
    BY <1>2 DEF IInv, RetryLeavesFailedConnection
  <2> QED
    BY <2>1, <2>2, <2>3, <2>4, <2>5, <2>6, <2>7, <2>8 DEF IInv
<1> QED
  BY <1>1, <1>2

\* LoginOk: nobody else is constructing or logging in, and the connection that
\* becomes self._client has served no raw call.
LEMMA LoginOkStep ==
  ASSUME IInv, NEW j \in Jobs, LoginOk(j)
  PROVE  IInv'
<1>1. client = None /\ client' = held[j] /\ held[j] \in 1..Len(conns) /\ UNCHANGED <<conns, via, req>>
  BY DEF LoginOk, IInv, TypeOK, AttemptInv, AttemptsOf, InstallNeverOverwrites
<1>2. ASSUME NEW i \in Jobs, i # j
      PROVE  pc[i] \notin {"construct", "login"}
  <2>a. pc[j] = "login"
    BY DEF LoginOk
  <2>1. CASE j \in Openers
    <3>1. \A k \in Calls \cup Pings \cup Closers : pc[k] = "new"
      BY <2>a, <2>1 DEF IInv, OpenerFirst
    <3> QED
      BY <1>2, <2>1, <3>1, OneOpener DEF Jobs
  <2>2. CASE j \notin Openers
    <3>1. j \in Calls \cup Pings /\ lock = j
      BY <2>a, <2>2 DEF IInv, RoleInv, LockDiscipline, Locked, Jobs
    <3>2. CASE i \in Openers
      BY <2>a, <3>1, <3>2 DEF IInv, RoleInv, OpenerFirst
    <3>3. CASE i \in Calls \cup Pings
      BY <1>2, <3>1, <3>3 DEF IInv, LockDiscipline, Locked
    <3>4. CASE i \in Closers
      BY <3>4 DEF IInv, RoleInv
    <3> QED
      BY <3>2, <3>3, <3>4 DEF Jobs
  <2> QED
    BY <2>1, <2>2
<1>3. CASE j \in Openers
  <2>0. /\ pc' = [pc EXCEPT ![j] = "done"]
        /\ outcome' = [outcome EXCEPT ![j] = "connected"]
        /\ held' = [held EXCEPT ![j] = None]
        /\ UNCHANGED lock
    BY <1>3, JobsAssumption DEF LoginOk, Finish, Goto, IInv, RoleInv
  <2>a. pc[j] = "login"
    BY DEF LoginOk
  <2>1. TypeOK'
    BY <1>1, <1>2, <1>3, <2>0, <2>a DEF IInv, TypeOK
  <2>2. RoleInv'
    BY <1>1, <1>2, <1>3, <2>0, <2>a DEF IInv, RoleInv
  <2>3. OpenerFirst'
    BY JobsAssumption, OneOpener, <1>1, <1>2, <1>3, <2>0, <2>a
       DEF IInv, TypeOK, RoleInv, OpenerFirst, Jobs
  <2>4. LockDiscipline'
    BY JobsAssumption, <1>1, <1>2, <1>3, <2>0, <2>a
       DEF IInv, TypeOK, RoleInv, LockDiscipline, Locked, Jobs
  <2>5. AttemptInv'
    BY <1>1, <1>2, <1>3, <2>0, <2>a DEF IInv, TypeOK, AttemptInv, AttemptsOf
  <2>6. InstallNeverOverwrites'
    BY <1>1, <1>2, <1>3, <2>0, <2>a DEF IInv, TypeOK, InstallNeverOverwrites
  <2>7. FreshInv'
    BY JobsAssumption, OneOpener, <1>1, <1>2, <1>3, <2>0, <2>a
       DEF IInv, TypeOK, RoleInv, OpenerFirst, LockDiscipline, Locked, AttemptInv,
       AttemptsOf, InstallNeverOverwrites, FreshInv, Jobs
  <2>8. RetryLeavesFailedConnection'
    BY JobsAssumption, <1>1, <1>2, <1>3, <2>0, <2>a
       DEF IInv, TypeOK, RoleInv, AttemptInv, AttemptsOf, FreshInv,
       RetryLeavesFailedConnection, Jobs
  <2> QED
    BY <2>1, <2>2, <2>3, <2>4, <2>5, <2>6, <2>7, <2>8 DEF IInv
<1>4. CASE j \notin Openers
  <2>0. /\ pc' = [pc EXCEPT ![j] = "raw"]
        /\ held' = [held EXCEPT ![j] = None]
        /\ UNCHANGED <<lock, outcome>>
    BY <1>4 DEF LoginOk, Goto
  <2>a. pc[j] = "login" /\ j \in Calls \cup Pings /\ lock = j
    BY <1>4 DEF LoginOk, IInv, RoleInv, LockDiscipline, Locked, Jobs
  <2>1. TypeOK'
    BY <1>1, <1>2, <1>4, <2>0, <2>a DEF IInv, TypeOK
  <2>2. RoleInv'
    BY <1>1, <1>2, <1>4, <2>0, <2>a DEF IInv, RoleInv
  <2>3. OpenerFirst'
    BY <1>1, <1>2, <1>4, <2>0, <2>a DEF IInv, OpenerFirst
  <2>4. LockDiscipline'
    BY <1>1, <1>2, <1>4, <2>0, <2>a DEF IInv, LockDiscipline, Locked
  <2>5. AttemptInv'
    BY <1>1, <1>2, <1>4, <2>0, <2>a DEF IInv, TypeOK, AttemptInv, AttemptsOf
  <2>6. InstallNeverOverwrites'
    BY <1>1, <1>2, <1>4, <2>0, <2>a DEF IInv, TypeOK, InstallNeverOverwrites
  <2>7. FreshInv'
    BY JobsAssumption, OneOpener, <1>1, <1>2, <1>4, <2>0, <2>a
       DEF IInv, TypeOK, RoleInv, OpenerFirst, LockDiscipline, Locked, AttemptInv,
       AttemptsOf, InstallNeverOverwrites, FreshInv, Jobs
  <2>8. RetryLeavesFailedConnection'
    BY JobsAssumption, <1>1, <1>2, <1>4, <2>0, <2>a
       DEF IInv, TypeOK, RoleInv, AttemptInv, AttemptsOf, FreshInv,
       RetryLeavesFailedConnection, Jobs
  <2> QED
    BY <2>1, <2>2, <2>3, <2>4, <2>5, <2>6, <2>7, <2>8 DEF IInv
<1> QED
  BY <1>3, <1>4

\* A LoginFails step keeps the inductive invariant.
LEMMA LoginFailsStep ==
  ASSUME IInv, NEW j \in Jobs, LoginFails(j)
  PROVE  IInv'
<1> USE DEF LoginFails, Goto
<1>1. TypeOK'
  BY DEF IInv, TypeOK
<1>2. RoleInv'
  BY DEF IInv, RoleInv
<1>3. OpenerFirst'
  BY DEF IInv, TypeOK, OpenerFirst, Jobs
<1>4. LockDiscipline'
  BY DEF IInv, LockDiscipline, Locked
<1>5. AttemptInv'
  BY DEF IInv, AttemptInv, AttemptsOf
<1>6. InstallNeverOverwrites'
  BY DEF IInv, InstallNeverOverwrites
<1>7. FreshInv'
  BY DEF IInv, FreshInv
<1>8. RetryLeavesFailedConnection'
  BY DEF IInv, RetryLeavesFailedConnection
<1> QED
  BY <1>1, <1>2, <1>3, <1>4, <1>5, <1>6, <1>7, <1>8 DEF IInv

\* A Abandon step keeps the inductive invariant.
LEMMA AbandonStep ==
  ASSUME IInv, NEW j \in Jobs, Abandon(j)
  PROVE  IInv'
<1> USE DEF Abandon, Finish, Goto
<1>1. TypeOK'
  BY JobsAssumption DEF IInv, TypeOK, AttemptInv, AttemptsOf
<1>2. RoleInv'
  BY JobsAssumption DEF IInv, TypeOK, RoleInv, Jobs
<1>3. OpenerFirst'
  BY DEF IInv, OpenerFirst
<1>4. LockDiscipline'
  BY JobsAssumption DEF IInv, TypeOK, RoleInv, LockDiscipline, Locked, Jobs
<1>5. AttemptInv'
  BY DEF IInv, TypeOK, AttemptInv, AttemptsOf
<1>6. InstallNeverOverwrites'
  BY DEF IInv, InstallNeverOverwrites
<1>7. FreshInv'
  BY DEF IInv, FreshInv
<1>8. RetryLeavesFailedConnection'
  BY DEF IInv, RetryLeavesFailedConnection
<1> QED
  BY <1>1, <1>2, <1>3, <1>4, <1>5, <1>6, <1>7, <1>8 DEF IInv

\* A LoginCrashes step keeps the inductive invariant.
LEMMA LoginCrashesStep ==
  ASSUME IInv, NEW j \in Jobs, LoginCrashes(j)
  PROVE  IInv'
  BY FinishStep DEF LoginCrashes

\* A RawNoClient step keeps the inductive invariant.
LEMMA RawNoClientStep ==
  ASSUME IInv, NEW j \in Jobs, RawNoClient(j)
  PROVE  IInv'
  BY FinishStep DEF RawNoClient

\* A JobCrashes step keeps the inductive invariant.
LEMMA JobCrashesStep ==
  ASSUME IInv, NEW j \in Jobs, JobCrashes(j)
  PROVE  IInv'
  BY FinishStep DEF JobCrashes

\* A RawSend step keeps the inductive invariant.
LEMMA RawSendStep ==
  ASSUME IInv, NEW j \in Jobs, RawSend(j)
  PROVE  IInv'
<1>a. /\ via' = [via EXCEPT ![j] = Append(via[j], client)]
      /\ client \in 1..Len(conns)
      /\ UNCHANGED <<client, conns>>
  BY DEF RawSend, IInv, TypeOK
<1>b. /\ via[j] \in Seq(Nat) /\ Len(via[j]) \in Nat
      /\ via'[j] \in Seq(Nat)
      /\ Len(via'[j]) = Len(via[j]) + 1
      /\ via'[j][Len(via[j]) + 1] = client
      /\ \A k \in 1..Len(via[j]) : via'[j][k] = via[j][k]
      /\ \A i \in Jobs \ {j} : via'[i] = via[i]
  BY <1>a DEF IInv, TypeOK
<1>c. req' \in [Jobs -> Seq(ReqState)] /\ \A i \in Jobs : Len(req'[i]) = Len(via'[i])
  BY <1>a, <1>b DEF IInv, TypeOK, AttemptInv, AttemptsOf, RawSend
<1>d. \A i \in Jobs : \A k \in 1..Len(via'[i]) : via'[i][k] \in 1..Len(conns)
  BY <1>a, <1>b DEF IInv, TypeOK
<1>e. pc[j] = "raw" /\ j \in Calls \cup Pings /\ lock = j
  BY JobsAssumption DEF RawSend, IInv, TypeOK, RoleInv, LockDiscipline, Locked, Jobs
<1>f. \A i \in Jobs : pc[i] # "login"
  BY <1>a, <1>e DEF RawSend, IInv, InstallNeverOverwrites
<1>g. RetryLeavesFailedConnection'
  <2> SUFFICES ASSUME NEW i \in Calls, Len(via'[i]) = 2
               PROVE  via'[i][1] < via'[i][2] /\ client # via'[i][1]
    BY <1>a DEF RetryLeavesFailedConnection
  <2>1. CASE i = j
    <3>0. Len(via[j]) = 1
      <4>1. Len(via'[j]) = 2
        BY <2>1
      <4>2. Len(via'[j]) = Len(via[j]) + 1
        BY <1>b
      <4>3. Len(via[j]) \in Nat
        BY <1>b
      <4>4. \A n \in Nat : n + 1 = 2 => n = 1
        OBVIOUS
      <4> QED
        BY <4>1, <4>2, <4>3, <4>4
    <3>1. 1 \in 1..Len(via[j]) /\ via[j][1] \in 1..Len(conns)
      BY <3>0 DEF IInv, TypeOK
    <3>2. client > via[j][1]
      BY <1>a, <1>e, <2>1, <3>0, <3>1 DEF IInv, TypeOK, FreshInv
    <3> QED
      BY <1>a, <1>b, <2>1, <3>0, <3>1, <3>2
  <2>2. CASE i # j
    BY <1>b, <2>2 DEF IInv, RetryLeavesFailedConnection, Jobs
  <2> QED
    BY <2>1, <2>2
<1>h. /\ pc' = [pc EXCEPT ![j] = "wait"]
      /\ held' = [held EXCEPT ![j] = client]
      /\ UNCHANGED <<lock, outcome>>
  BY DEF RawSend, Goto
<1>1. TypeOK'
  BY <1>a, <1>b, <1>c, <1>d, <1>e, <1>f, <1>h DEF IInv, TypeOK
<1>2. RoleInv'
  BY <1>a, <1>b, <1>c, <1>d, <1>e, <1>f, <1>h DEF IInv, RoleInv
<1>3. OpenerFirst'
  BY <1>a, <1>b, <1>c, <1>d, <1>e, <1>f, <1>h DEF IInv, OpenerFirst
<1>4. LockDiscipline'
  BY <1>a, <1>b, <1>c, <1>d, <1>e, <1>f, <1>h DEF IInv, LockDiscipline, Locked
<1>5. AttemptInv'
  BY <1>a, <1>b, <1>c, <1>d, <1>e, <1>f, <1>h DEF IInv, TypeOK, AttemptInv, AttemptsOf
<1>6. InstallNeverOverwrites'
  BY <1>a, <1>b, <1>c, <1>d, <1>e, <1>f, <1>h DEF IInv, InstallNeverOverwrites
<1>7. FreshInv'
  BY <1>a, <1>b, <1>c, <1>d, <1>e, <1>f, <1>h DEF IInv, TypeOK, FreshInv
<1> QED
  BY <1>g, <1>1, <1>2, <1>3, <1>4, <1>5, <1>6, <1>7 DEF IInv

\* A RawSendFails step keeps the inductive invariant.
LEMMA RawSendFailsStep ==
  ASSUME IInv, NEW j \in Jobs, RawSendFails(j)
  PROVE  IInv'
<1>a. /\ via' = [via EXCEPT ![j] = Append(via[j], client)]
      /\ client \in 1..Len(conns)
      /\ UNCHANGED <<client, conns>>
  BY DEF RawSendFails, IInv, TypeOK
<1>b. /\ via[j] \in Seq(Nat) /\ Len(via[j]) \in Nat
      /\ via'[j] \in Seq(Nat)
      /\ Len(via'[j]) = Len(via[j]) + 1
      /\ via'[j][Len(via[j]) + 1] = client
      /\ \A k \in 1..Len(via[j]) : via'[j][k] = via[j][k]
      /\ \A i \in Jobs \ {j} : via'[i] = via[i]
  BY <1>a DEF IInv, TypeOK
<1>c. req' \in [Jobs -> Seq(ReqState)] /\ \A i \in Jobs : Len(req'[i]) = Len(via'[i])
  BY <1>a, <1>b DEF IInv, TypeOK, AttemptInv, AttemptsOf, RawSendFails
<1>d. \A i \in Jobs : \A k \in 1..Len(via'[i]) : via'[i][k] \in 1..Len(conns)
  BY <1>a, <1>b DEF IInv, TypeOK
<1>e. pc[j] = "raw" /\ j \in Calls \cup Pings /\ lock = j
  BY JobsAssumption DEF RawSendFails, IInv, TypeOK, RoleInv, LockDiscipline, Locked, Jobs
<1>f. \A i \in Jobs : pc[i] # "login"
  BY <1>a, <1>e DEF RawSendFails, IInv, InstallNeverOverwrites
<1>g. RetryLeavesFailedConnection'
  <2> SUFFICES ASSUME NEW i \in Calls, Len(via'[i]) = 2
               PROVE  via'[i][1] < via'[i][2] /\ client # via'[i][1]
    BY <1>a DEF RetryLeavesFailedConnection
  <2>1. CASE i = j
    <3>0. Len(via[j]) = 1
      <4>1. Len(via'[j]) = 2
        BY <2>1
      <4>2. Len(via'[j]) = Len(via[j]) + 1
        BY <1>b
      <4>3. Len(via[j]) \in Nat
        BY <1>b
      <4>4. \A n \in Nat : n + 1 = 2 => n = 1
        OBVIOUS
      <4> QED
        BY <4>1, <4>2, <4>3, <4>4
    <3>1. 1 \in 1..Len(via[j]) /\ via[j][1] \in 1..Len(conns)
      BY <3>0 DEF IInv, TypeOK
    <3>2. client > via[j][1]
      BY <1>a, <1>e, <2>1, <3>0, <3>1 DEF IInv, TypeOK, FreshInv
    <3> QED
      BY <1>a, <1>b, <2>1, <3>0, <3>1, <3>2
  <2>2. CASE i # j
    BY <1>b, <2>2 DEF IInv, RetryLeavesFailedConnection, Jobs
  <2> QED
    BY <2>1, <2>2
<1>p. pc \in [Jobs -> PC]
  BY DEF IInv, TypeOK
<1>h. CASE j \in Calls /\ Len(via[j]) = 0 /\ RawConnectionError(j, Len(via[j]) + 1)
  <2>a. /\ pc' = [pc EXCEPT ![j] = "read"]
        /\ held' = [held EXCEPT ![j] = None]
        /\ UNCHANGED <<lock, outcome>>
    BY <1>h DEF RawConnectionError, Goto
  <2>1. TypeOK'
    BY <1>a, <1>b, <1>c, <1>d, <1>e, <1>f, <1>h, <2>a DEF IInv, TypeOK
  <2>2. RoleInv'
    BY JobsAssumption, <1>a, <1>b, <1>c, <1>d, <1>e, <1>f, <1>h, <2>a
       DEF IInv, TypeOK, RoleInv, Jobs
  <2>3. OpenerFirst'
    BY <1>a, <1>b, <1>c, <1>d, <1>e, <1>f, <1>h, <2>a DEF IInv, OpenerFirst
  <2>4. LockDiscipline'
    BY <1>a, <1>b, <1>c, <1>d, <1>e, <1>f, <1>h, <2>a DEF IInv, LockDiscipline, Locked
  <2>5. AttemptInv'
    <3>1. Len(via'[j]) = 1
      BY <1>b, <1>h
    <3>2. ASSUME NEW i \in Jobs, i # j
          PROVE  Len(via'[i]) = Len(via[i]) /\ pc'[i] = pc[i] /\ held'[i] = held[i] /\ via'[i] = via[i]
      BY <1>b, <2>a, <3>2 DEF IInv, TypeOK
    <3>3. pc'[j] = "read"
      BY <2>a, <1>p
    <3>4. j \notin Pings
      BY <1>h, JobsAssumption
    <3>5. AttemptsOf(j)'
      BY <1>c, <1>h, <3>1, <3>3, <3>4 DEF AttemptsOf
    <3>6. ASSUME NEW i \in Jobs, i # j
          PROVE  AttemptsOf(i)'
      BY <1>c, <3>2, <3>6 DEF IInv, AttemptInv, AttemptsOf
    <3> QED
      BY <3>5, <3>6 DEF AttemptInv
  <2>6. InstallNeverOverwrites'
    BY <1>a, <1>b, <1>c, <1>d, <1>e, <1>f, <1>h, <2>a DEF IInv, InstallNeverOverwrites
  <2>7. FreshInv'
    BY <1>a, <1>b, <1>c, <1>d, <1>e, <1>f, <1>h, <2>a DEF IInv, TypeOK, FreshInv
  <2> QED
    BY <1>g, <2>1, <2>2, <2>3, <2>4, <2>5, <2>6, <2>7 DEF IInv
<1>i. ASSUME NEW o \in {"connection", "auth"}, Finish(j, o)
      PROVE  IInv'
  <2>a. /\ pc' = [pc EXCEPT ![j] = "done"]
        /\ outcome' = [outcome EXCEPT ![j] = o]
        /\ held' = [held EXCEPT ![j] = None]
        /\ lock' = NoJob
    BY <1>e, <1>i DEF Finish, Goto
  <2>b. o \in Outcome /\ o # "connected"
    BY <1>i
  <2>1. TypeOK'
    BY JobsAssumption, <1>a, <1>b, <1>c, <1>d, <1>e, <2>a, <2>b DEF IInv, TypeOK, Jobs
  <2>2. RoleInv'
    BY JobsAssumption, <1>a, <1>b, <1>c, <1>d, <1>e, <1>f, <1>i, <2>a
       DEF IInv, TypeOK, RoleInv, Jobs
  <2>3. OpenerFirst'
    BY <1>a, <1>b, <1>c, <1>d, <1>e, <1>f, <1>i, <2>a, <2>b DEF IInv, OpenerFirst
  <2>4. LockDiscipline'
    BY JobsAssumption, <1>a, <1>b, <1>c, <1>d, <1>e, <1>f, <1>i, <2>a
       DEF IInv, TypeOK, RoleInv, LockDiscipline, Locked, Jobs
  <2>5. AttemptInv'
    BY <1>a, <1>b, <1>c, <1>d, <1>e, <1>f, <1>i, <2>a DEF IInv, TypeOK, AttemptInv, AttemptsOf
  <2>6. InstallNeverOverwrites'
    BY <1>a, <1>b, <1>c, <1>d, <1>e, <1>f, <1>i, <2>a DEF IInv, InstallNeverOverwrites
  <2>c. /\ pc'[j] = "done"
        /\ \A i \in Jobs \ {j} : pc'[i] = pc[i] /\ held'[i] = held[i] /\ via'[i] = via[i]
    BY <1>b, <1>p, <2>a DEF IInv, TypeOK
  <2>7. FreshInv'
    <3>1. \A i \in Jobs : pc'[i] # "login"
      BY <1>f, <2>c
    <3> QED
      BY <1>a, <2>c, <3>1 DEF IInv, FreshInv, Jobs
  <2> QED
    BY <1>g, <2>1, <2>2, <2>3, <2>4, <2>5, <2>6, <2>7 DEF IInv
<1>j. \/ j \in Calls /\ Len(via[j]) = 0 /\ RawConnectionError(j, Len(via[j]) + 1)
      \/ Finish(j, "connection") \/ Finish(j, "auth")
  BY <1>b DEF RawSendFails, RawConnectionError
<1> QED
  BY <1>h, <1>i, <1>j

\* A Receive step keeps the inductive invariant.
LEMMA ReceiveStep ==
  ASSUME IInv, NEW j \in Jobs, Receive(j)
  PROVE  IInv'
<1>1. CASE Finish(j, "result")
  BY <1>1, FinishStep DEF Receive
<1>2. CASE Finish(j, "auth")
  BY <1>2, FinishStep DEF Receive
<1>3. CASE RawConnectionError(j, Len(via[j]))
  BY <1>3, WaitFailsStep DEF Receive
<1> QED
  BY <1>1, <1>2, <1>3 DEF Receive

\* A Dropped step keeps the inductive invariant.
LEMMA DroppedStep ==
  ASSUME IInv, NEW j \in Jobs, Dropped(j)
  PROVE  IInv'
  BY WaitFailsStep DEF Dropped

\* A PingTimeout step keeps the inductive invariant.
LEMMA PingTimeoutStep ==
  ASSUME IInv, NEW j \in Jobs, PingTimeout(j)
  PROVE  IInv'
  BY WaitFailsStep DEF PingTimeout

\* A CloseRead step keeps the inductive invariant.
LEMMA CloseReadStep ==
  ASSUME IInv, NEW j \in Jobs, CloseRead(j)
  PROVE  IInv'
<1> USE DEF CloseRead, Goto
<1>1. TypeOK'
  BY DEF IInv, TypeOK
<1>2. RoleInv'
  BY DEF IInv, RoleInv
<1>3. OpenerFirst'
  BY DEF IInv, OpenerFirst
<1>4. LockDiscipline'
  BY DEF IInv, LockDiscipline, Locked
<1>5. AttemptInv'
  BY DEF IInv, AttemptInv, AttemptsOf
<1>6. InstallNeverOverwrites'
  BY DEF IInv, InstallNeverOverwrites
<1>7. FreshInv'
  BY DEF IInv, FreshInv
<1>8. RetryLeavesFailedConnection'
  BY DEF IInv, RetryLeavesFailedConnection
<1> QED
  BY <1>1, <1>2, <1>3, <1>4, <1>5, <1>6, <1>7, <1>8 DEF IInv

\* A CloseDrop step keeps the inductive invariant.
LEMMA CloseDropStep ==
  ASSUME IInv, NEW j \in Jobs, CloseDrop(j)
  PROVE  IInv'
<1> USE DEF CloseDrop, Goto
<1>1. TypeOK'
  BY DEF IInv, TypeOK
<1>2. RoleInv'
  BY DEF IInv, RoleInv
<1>3. OpenerFirst'
  BY DEF IInv, OpenerFirst
<1>4. LockDiscipline'
  BY DEF IInv, LockDiscipline, Locked
<1>5. AttemptInv'
  BY DEF IInv, AttemptInv, AttemptsOf
<1>6. InstallNeverOverwrites'
  BY DEF IInv, InstallNeverOverwrites
<1>7. FreshInv'
  BY DEF IInv, FreshInv
<1>8. RetryLeavesFailedConnection'
  <2> SUFFICES ASSUME NEW i \in Calls, Len(via[i]) = 2
               PROVE  via[i][1] < via[i][2] /\ None # via[i][1]
    BY DEF RetryLeavesFailedConnection
  <2>1. 1 \in 1..Len(via[i]) /\ i \in Jobs
    BY DEF Jobs
  <2>2. via[i][1] \in 1..Len(conns)
    BY <2>1 DEF IInv, TypeOK
  <2> QED
    BY <2>2, SMTT(30) DEF IInv, TypeOK, RetryLeavesFailedConnection
<1> QED
  BY <1>1, <1>2, <1>3, <1>4, <1>5, <1>6, <1>7, <1>8 DEF IInv

\* A CloseSocket step keeps the inductive invariant.
LEMMA CloseSocketStep ==
  ASSUME IInv, NEW j \in Jobs, CloseSocket(j)
  PROVE  IInv'
<1>a. /\ conns' \in Seq(ConnState)
      /\ Len(conns') = Len(conns)
      /\ UNCHANGED <<client, via, req>>
  <2>1. CASE held[j] = None
    BY <2>1 DEF CloseSocket, IInv, TypeOK
  <2>2. CASE held[j] # None
    <3>1. conns' = [conns EXCEPT ![held[j]] = "closed"] /\ held[j] \in 1..Len(conns)
      BY <2>2 DEF CloseSocket, IInv, TypeOK
    <3>2. UNCHANGED <<client, via, req>>
      BY DEF CloseSocket
    <3>3. conns \in Seq(ConnState)
      BY DEF IInv, TypeOK
    <3> QED
      BY <3>1, <3>2, <3>3
  <2> QED
    BY <2>1, <2>2
<1>b. pc[j] = "socket"
  BY DEF CloseSocket
<1>h. CASE j \in Closers
  <2>a. /\ pc' = [pc EXCEPT ![j] = "done"]
        /\ outcome' = [outcome EXCEPT ![j] = "closed"]
        /\ held' = [held EXCEPT ![j] = None]
        /\ UNCHANGED lock
    BY <1>h, JobsAssumption DEF CloseSocket, Finish, Goto, IInv, RoleInv
  <2>1. TypeOK'
    BY <1>a, <1>b, <1>h, <2>a DEF IInv, TypeOK
  <2>2. RoleInv'
    BY <1>a, <1>b, <1>h, <2>a DEF IInv, RoleInv
  <2>3. OpenerFirst'
    BY <1>a, <1>b, <1>h, <2>a DEF IInv, OpenerFirst
  <2>4. LockDiscipline'
    BY JobsAssumption, <1>a, <1>b, <1>h, <2>a
       DEF IInv, TypeOK, RoleInv, LockDiscipline, Locked, Jobs
  <2>5. AttemptInv'
    BY <1>a, <1>b, <1>h, <2>a DEF IInv, AttemptInv, AttemptsOf
  <2>6. InstallNeverOverwrites'
    BY <1>a, <1>b, <1>h, <2>a DEF IInv, InstallNeverOverwrites
  <2>7. FreshInv'
    BY <1>a, <1>b, <1>h, <2>a DEF IInv, FreshInv
  <2>8. RetryLeavesFailedConnection'
    BY <1>a, <1>b, <1>h, <2>a DEF IInv, RetryLeavesFailedConnection
  <2> QED
    BY <2>1, <2>2, <2>3, <2>4, <2>5, <2>6, <2>7, <2>8 DEF IInv
<1>i. CASE j \notin Closers
  <2>a. /\ pc' = [pc EXCEPT ![j] = "construct"]
        /\ held' = [held EXCEPT ![j] = None]
        /\ UNCHANGED <<lock, outcome>>
    BY <1>i DEF CloseSocket, Goto
  <2>b. j \in Calls /\ client = None
    BY <1>b, <1>i DEF IInv, RoleInv, AttemptInv, AttemptsOf, FreshInv, Jobs
  <2>1. TypeOK'
    BY <1>a, <1>b, <1>i, <2>a, <2>b DEF IInv, TypeOK
  <2>2. RoleInv'
    BY <1>a, <1>b, <1>i, <2>a, <2>b DEF IInv, RoleInv
  <2>3. OpenerFirst'
    BY <1>a, <1>b, <1>i, <2>a, <2>b DEF IInv, OpenerFirst
  <2>4. LockDiscipline'
    BY <1>a, <1>b, <1>i, <2>a, <2>b DEF IInv, LockDiscipline, Locked
  <2>5. AttemptInv'
    BY JobsAssumption, <1>a, <1>b, <1>i, <2>a, <2>b
       DEF IInv, TypeOK, RoleInv, AttemptInv, AttemptsOf, Jobs
  <2>6. InstallNeverOverwrites'
    BY <1>a, <1>b, <1>i, <2>a, <2>b DEF IInv, InstallNeverOverwrites
  <2>7. FreshInv'
    BY <1>a, <1>b, <1>i, <2>a, <2>b DEF IInv, FreshInv
  <2>8. RetryLeavesFailedConnection'
    BY <1>a, <1>b, <1>i, <2>a, <2>b DEF IInv, RetryLeavesFailedConnection
  <2> QED
    BY <2>1, <2>2, <2>3, <2>4, <2>5, <2>6, <2>7, <2>8 DEF IInv
<1> QED
  BY <1>h, <1>i

\* A Serve step keeps the inductive invariant.
LEMMA ServeStep ==
  ASSUME IInv, NEW j \in Jobs, Serve(j)
  PROVE  IInv'
<1> USE DEF Serve
<1>1. TypeOK'
  BY SMTT(30) DEF IInv, TypeOK
<1>2. RoleInv'
  BY DEF IInv, RoleInv
<1>3. OpenerFirst'
  BY DEF IInv, OpenerFirst
<1>4. LockDiscipline'
  BY DEF IInv, LockDiscipline, Locked
<1>5. AttemptInv'
  BY DEF IInv, AttemptInv, AttemptsOf
<1>6. InstallNeverOverwrites'
  BY DEF IInv, InstallNeverOverwrites
<1>7. FreshInv'
  BY DEF IInv, FreshInv
<1>8. RetryLeavesFailedConnection'
  BY DEF IInv, RetryLeavesFailedConnection
<1> QED
  BY <1>1, <1>2, <1>3, <1>4, <1>5, <1>6, <1>7, <1>8 DEF IInv

\* The peer's steps: a connection is being closed, a connection drops.
LEMMA ConnectionLostStep ==
  ASSUME IInv, NEW c \in DOMAIN conns, ClosesDown(c) \/ ConnectionLost(c)
  PROVE  IInv'
<1>1. /\ conns' \in Seq(ConnState)
      /\ Len(conns') = Len(conns)
      /\ UNCHANGED <<lock, client, pc, held, via, req, outcome>>
  <2>1. conns \in Seq(ConnState) /\ c \in 1..Len(conns)
    BY DEF IInv, TypeOK
  <2>2. \E s \in {"closing", "lost"} : conns' = [conns EXCEPT ![c] = s]
    BY DEF ClosesDown, ConnectionLost
  <2> QED
    BY <2>1, <2>2 DEF ClosesDown, ConnectionLost
<1> QED
  BY <1>1 DEF IInv, TypeOK, RoleInv, OpenerFirst, LockDiscipline, AttemptInv, AttemptsOf,
     InstallNeverOverwrites, FreshInv, RetryLeavesFailedConnection

\* So does a step that changes nothing.
LEMMA StutterStep == ASSUME IInv, UNCHANGED vars PROVE IInv'
  BY DEF vars, IInv, TypeOK, RoleInv, OpenerFirst, LockDiscipline, AttemptInv, AttemptsOf,
     InstallNeverOverwrites, FreshInv, RetryLeavesFailedConnection

\* Every step of every job, of the server and of the network keeps it.
LEMMA NextInv == IInv /\ [Next]_vars => IInv'
<1> SUFFICES ASSUME IInv, [Next]_vars
             PROVE  IInv'
  OBVIOUS
<1>1. ASSUME NEW j \in Jobs, LocalStep(j)
      PROVE  IInv'
  BY <1>1, AcquireStep, CheckStep, ConstructStep, ConstructFailsStep, LoginOkStep,
     LoginFailsStep, LoginCrashesStep, AbandonStep, RawNoClientStep, RawSendStep, RawSendFailsStep,
     PingTimeoutStep, CloseReadStep, CloseDropStep, CloseSocketStep
     DEF LocalStep
<1>2. ASSUME NEW j \in Jobs, Begin(j) \/ Receive(j) \/ Dropped(j) \/ JobCrashes(j) \/ Serve(j)
      PROVE  IInv'
  BY <1>2, BeginStep, ReceiveStep, DroppedStep, JobCrashesStep, ServeStep
<1>3. ASSUME NEW c \in DOMAIN conns, ClosesDown(c) \/ ConnectionLost(c)
      PROVE  IInv'
  BY <1>3, ConnectionLostStep
<1>4. CASE Rest
  BY <1>4, StutterStep DEF Rest
<1>5. CASE UNCHANGED vars
  BY <1>5, StutterStep
<1> QED
  BY <1>1, <1>2, <1>3, <1>4, <1>5 DEF Next

-----------------------------------------------------------------------------
\* Every reachable state satisfies the inductive invariant (client.py 94-147).
THEOREM Invariance == Spec => []IInv
<1>1. Init => IInv
  BY InitInv
<1> QED
  BY <1>1, NextInv, PTL DEF Spec

\* The state keeps its shape: no index of a connection that was never made.
THEOREM TypeCorrect == Spec => []TypeOK
<1>1. IInv => TypeOK
  BY DEF IInv
<1> QED
  BY <1>1, Invariance, PTL

\* Whatever connect() and close() do without the lock, and however a method
\* ends, the lock is held by the call or ping that is inside it and no other.
THEOREM LockIsReleased == Spec => []LockDiscipline
<1>1. IInv => LockDiscipline
  BY DEF IInv
<1> QED
  BY <1>1, Invariance, PTL

\* Any number of entities share the client, and at most one request is on the
\* wire (client.py 131, 143).
THEOREM MutualExclusion == Spec => []OneRequestAtATime
<1>1. IInv => OneRequestAtATime
  <2> SUFFICES ASSUME IInv, NEW i \in Jobs, NEW j \in Jobs, pc[i] = "wait", pc[j] = "wait"
               PROVE  i = j
    BY DEF OneRequestAtATime
  <2>1. i \in Calls \cup Pings /\ j \in Calls \cup Pings
    BY DEF IInv, RoleInv, Jobs
  <2> QED
    BY <2>1 DEF IInv, LockDiscipline, Locked
<1> QED
  BY <1>1, Invariance, PTL

\* connect() installs a connection only where there is none, so no connection
\* is dropped by being overwritten (client.py 110).
THEOREM NoOverwrite == Spec => []InstallNeverOverwrites
<1>1. IInv => InstallNeverOverwrites
  BY DEF IInv
<1> QED
  BY <1>1, Invariance, PTL

\* The retry of a call uses a newer connection than the attempt that failed,
\* and that one never comes back (client.py 136-139).
THEOREM RetryIsFresh == Spec => []RetryLeavesFailedConnection
<1>1. IInv => RetryLeavesFailedConnection
  BY DEF IInv
<1> QED
  BY <1>1, Invariance, PTL
-----------------------------------------------------------------------------
\* What LeaksOnlyByKnownPaths says of one step.
KnownLeaks ==
  \A c \in Leaked' \ Leaked : \E j \in Jobs :
    \/ pc[j] = "construct" /\ outcome'[j] = "connection"
    \/ pc[j] = "login" /\ outcome'[j] = "crash"
    \/ pc[j] = "drop" /\ held[j] # c /\ client = c

\* The steps at which a job has a connection in hand that it will install or close.
Minding == {"login", "abandon", "drop", "socket"}

\* A job that had no connection in hand takes none from the others.
LEMMA NoLeakStep ==
  ASSUME IInv, NEW j \in Jobs, pc[j] \notin Minding, client' = client,
         \A c \in DOMAIN conns' : c \in DOMAIN conns /\ (conns'[c] = "open" => conns[c] = "open"),
         \A i \in Jobs \ {j} : pc'[i] = pc[i] /\ held'[i] = held[i]
  PROVE  KnownLeaks
<1> SUFFICES ASSUME NEW c \in Leaked', c \notin Leaked  PROVE FALSE
  BY DEF KnownLeaks
<1>1. /\ c \in DOMAIN conns /\ conns[c] = "open" /\ c # client
      /\ \A i \in Jobs : held'[i] = c => pc'[i] \notin Minding
  BY DEF Leaked, Minding
<1>2. PICK i \in Jobs : held[i] = c /\ pc[i] \in Minding
  BY <1>1 DEF Leaked, Minding
<1> QED
  BY <1>1, <1>2

\* A job that ends at a step without one.
LEMMA NoLeakFinish ==
  ASSUME IInv, NEW j \in Jobs, pc[j] \notin Minding, UNCHANGED <<client, conns>>,
         (\E o : Finish(j, o)) \/ (\E n : RawConnectionError(j, n))
  PROVE  KnownLeaks
<1>1. \A i \in Jobs \ {j} : pc'[i] = pc[i] /\ held'[i] = held[i]
  BY DEF Finish, RawConnectionError, Goto, IInv, TypeOK
<1> QED
  BY <1>1, NoLeakStep

\* Every step of a job.
LEMMA LocalLeaks == ASSUME IInv, NEW j \in Jobs, LocalStep(j)  PROVE KnownLeaks
<1> USE DEF Goto, Minding
<1>0. /\ pc \in [Jobs -> PC] /\ outcome \in [Jobs -> Outcome] /\ conns \in Seq(ConnState)
      /\ held \in [Jobs -> 0..Len(conns)] /\ client \in 0..Len(conns)
  BY DEF IInv, TypeOK
<1>1. CASE Acquire(j) \/ Check(j) \/ RawSend(j) \/ CloseRead(j)
  <2>1. /\ UNCHANGED <<client, conns>> /\ pc[j] \notin Minding
        /\ \A i \in Jobs \ {j} : pc'[i] = pc[i] /\ held'[i] = held[i]
    BY <1>0, <1>1 DEF Acquire, Check, RawSend, CloseRead
  <2> QED
    BY <2>1, NoLeakStep
<1>2. CASE RawNoClient(j) \/ RawSendFails(j) \/ PingTimeout(j)
  <2>1. /\ UNCHANGED <<client, conns>> /\ pc[j] \notin Minding
        /\ (\E o : Finish(j, o)) \/ (\E n : RawConnectionError(j, n))
    BY <1>2 DEF RawNoClient, RawSendFails, PingTimeout
  <2> QED
    BY <2>1, NoLeakFinish
<1>3. CASE Construct(j)
  <2>1. /\ conns' = Append(conns, "open") /\ client' = client
        /\ held' = [held EXCEPT ![j] = Len(conns) + 1]
        /\ pc[j] = "construct" /\ pc' = [pc EXCEPT ![j] = "login"]
    BY <1>0, <1>3 DEF Construct
  <2> SUFFICES ASSUME NEW c \in Leaked', c \notin Leaked  PROVE FALSE
    BY DEF KnownLeaks
  <2>2. c # Len(conns) + 1
    BY <1>0, <2>1 DEF Leaked
  <2>3. c \in DOMAIN conns /\ conns[c] = "open" /\ c # client
    BY <1>0, <2>1, <2>2 DEF Leaked
  <2>4. PICK i \in Jobs : held[i] = c /\ pc[i] \in Minding
    BY <2>3 DEF Leaked
  <2>5. held'[i] = c /\ pc'[i] \in Minding
    BY <1>0, <2>1, <2>4
  <2> QED
    BY <2>5 DEF Leaked
<1>4. CASE ConstructFails(j)
  BY <1>0, <1>4 DEF ConstructFails, Finish, KnownLeaks
<1>5. CASE LoginCrashes(j)
  BY <1>0, <1>5 DEF LoginCrashes, Finish, KnownLeaks
<1>6. CASE LoginOk(j)
  <2>1. client = None /\ client' = held[j] /\ conns' = conns
        /\ \A i \in Jobs \ {j} : pc'[i] = pc[i] /\ held'[i] = held[i]
    BY <1>0, <1>6 DEF LoginOk, Finish, IInv, InstallNeverOverwrites
  <2> SUFFICES ASSUME NEW c \in Leaked', c \notin Leaked  PROVE FALSE
    BY DEF KnownLeaks
  <2>2. c \in DOMAIN conns /\ conns[c] = "open" /\ c # client /\ c # held[j]
    BY <1>0, <2>1 DEF Leaked
  <2>3. PICK i \in Jobs : held[i] = c /\ pc[i] \in Minding
    BY <2>2 DEF Leaked
  <2> QED
    BY <2>1, <2>2, <2>3 DEF Leaked
<1>7. CASE LoginFails(j) \/ CloseDrop(j)
  <2>1. /\ conns' = conns /\ held' = held
        /\ pc[j] \in Minding /\ pc' = [pc EXCEPT ![j] = IF pc[j] = "login" THEN "abandon" ELSE "socket"]
        /\ client' = client \/ (pc[j] = "drop" /\ client' = None)
    BY <1>7 DEF LoginFails, CloseDrop
  <2> SUFFICES ASSUME NEW c \in Leaked', c \notin Leaked
               PROVE  pc[j] = "drop" /\ held[j] # c /\ client = c
    BY DEF KnownLeaks
  <2>2. c \in DOMAIN conns /\ conns[c] = "open"
    BY <2>1 DEF Leaked
  <2>3. \A i \in Jobs : pc[i] \in Minding => pc'[i] \in Minding
    BY <1>0, <2>1
  <2>4. \A i \in Jobs : held[i] = c => pc[i] \notin Minding
    BY <2>1, <2>3 DEF Leaked
  <2>5. c = client
    BY <2>2, <2>4 DEF Leaked
  <2>6. c # client'
    BY DEF Leaked
  <2> QED
    BY <2>1, <2>4, <2>5, <2>6
<1>8. CASE Abandon(j) \/ CloseSocket(j)
  <2>1. /\ client' = client
        /\ \/ held[j] = None /\ conns' = conns
           \/ conns' = [conns EXCEPT ![held[j]] = "closed"]
        /\ \A i \in Jobs \ {j} : pc'[i] = pc[i] /\ held'[i] = held[i]
    BY <1>0, <1>8 DEF Abandon, CloseSocket, Finish
  <2> SUFFICES ASSUME NEW c \in Leaked', c \notin Leaked  PROVE FALSE
    BY DEF KnownLeaks
  <2>2. c \in DOMAIN conns /\ conns[c] = "open" /\ c # client /\ c # held[j]
    BY <1>0, <2>1 DEF Leaked
  <2>3. PICK i \in Jobs : held[i] = c /\ pc[i] \in Minding
    BY <2>2 DEF Leaked
  <2> QED
    BY <2>1, <2>2, <2>3 DEF Leaked
<1> QED
  BY <1>1, <1>2, <1>3, <1>4, <1>5, <1>6, <1>7, <1>8 DEF LocalStep

\* A connection is lost to everyone in the three known ways only: a handshake
\* timeout, an unmapped exception of the login, and a close() that resets a
\* newer connection than it read (client.py 94-123).
THEOREM LeaksAreKnown == Spec => LeaksOnlyByKnownPaths
<1>1. ASSUME IInv, [Next]_vars  PROVE KnownLeaks
  <2>1. ASSUME NEW j \in Jobs, Begin(j) \/ Serve(j)  PROVE KnownLeaks
    <3>1. /\ UNCHANGED <<client, conns, held>>
          /\ pc' = pc \/ (pc[j] = "new" /\ \E l : Goto(j, l))
      BY <2>1 DEF Begin, Serve
    <3>2. CASE pc' = pc
      BY <3>1, <3>2 DEF KnownLeaks, Leaked
    <3>3. CASE pc[j] = "new" /\ \E l : Goto(j, l)
      <4>1. pc[j] \notin Minding /\ \A i \in Jobs \ {j} : pc'[i] = pc[i] /\ held'[i] = held[i]
        BY <3>1, <3>3 DEF Goto, Minding, IInv, TypeOK
      <4> QED
        BY <1>1, <3>1, <4>1, NoLeakStep
    <3> QED
      BY <3>1, <3>2, <3>3
  <2>2. ASSUME NEW j \in Jobs, Receive(j) \/ Dropped(j) \/ JobCrashes(j)  PROVE KnownLeaks
    <3>1. /\ UNCHANGED <<client, conns>> /\ pc[j] \notin Minding
          /\ (\E o : Finish(j, o)) \/ (\E n : RawConnectionError(j, n))
      BY <2>2 DEF Receive, Dropped, JobCrashes, Minding
    <3> QED
      BY <1>1, <3>1, NoLeakFinish
  <2>3. ASSUME NEW c \in DOMAIN conns, ClosesDown(c) \/ ConnectionLost(c)  PROVE KnownLeaks
    <3>1. /\ UNCHANGED <<client, held, pc>>
          /\ \E s \in {"closing", "lost"} : conns' = [conns EXCEPT ![c] = s]
      BY <2>3 DEF ClosesDown, ConnectionLost
    <3>2. Leaked' \subseteq Leaked
      BY <3>1 DEF Leaked, IInv, TypeOK
    <3> QED
      BY <3>2 DEF KnownLeaks
  <2>4. CASE UNCHANGED vars
    BY <2>4 DEF vars, KnownLeaks, Leaked
  <2> QED
    BY <1>1, <2>1, <2>2, <2>3, <2>4, LocalLeaks DEF Next, Rest
<1>2. IInv /\ [Next]_vars => [KnownLeaks]_vars
  BY <1>1
<1> QED
  BY <1>2, Invariance, PTL DEF Spec, LeaksOnlyByKnownPaths, KnownLeaks

-----------------------------------------------------------------------------
(* The refinement: what call() promises the entities holds whatever        *)
(* connect(), close() and the network do.                                  *)

\* A job that is about to close the connection it could not log in on will
\* raise what the login raised.
AbandonInv ==
  \A j \in Jobs : pc[j] = "abandon" => outcome[j] \in {"auth", "connection"}

\* The state of SharedRpc: the calls,
RpcStatus == [c \in Calls |-> CASE pc[c] = "new"     -> "idle"
                                [] pc[c] = "acquire" -> "waiting"
                                [] pc[c] = "done"    -> outcome[c]
                                [] OTHER             -> "active"]

\* and which of their requests the server carried out.
RpcRan == [c \in Calls |-> {k \in DOMAIN req[c] : req[c][k] = "ran"}]

\* A step of another job, or one inside a call: SharedRpc does not see it.
Quiet ==
  \A c \in Calls :
    /\ \/ pc'[c] = pc[c] /\ outcome'[c] = outcome[c]
       \/ {pc[c], pc'[c]} \cap {"new", "acquire", "done"} = {}
    /\ RpcRan'[c] = RpcRan[c]

\* A quiet step stutters.
LEMMA QuietStep == Quiet => UNCHANGED <<RpcStatus, RpcRan>>
<1> SUFFICES ASSUME Quiet  PROVE RpcStatus' = RpcStatus /\ RpcRan' = RpcRan
  OBVIOUS
<1>1. \A c \in Calls : RpcStatus'[c] = RpcStatus[c]
  BY DEF Quiet, RpcStatus
<1>2. RpcStatus' = RpcStatus
  BY <1>1 DEF RpcStatus
<1>3. RpcRan' = RpcRan
  BY DEF Quiet, RpcRan
<1> QED
  BY <1>2, <1>3

\* A job that ends: a call returns, and the others are not seen.
LEMMA FinishRefines ==
  ASSUME IInv, NEW j \in Jobs, NEW o \in {"result", "auth", "connection", "crash"},
         pc[j] \notin {"new", "acquire", "done"}, Finish(j, o), RpcRan' = RpcRan,
         o = "result" /\ j \in Calls => RpcRan[j] # {}
  PROVE  Rpc!RpcNext \/ UNCHANGED <<RpcStatus, RpcRan>>
<1>1. \A c \in Calls : c # j => pc'[c] = pc[c] /\ outcome'[c] = outcome[c]
  BY DEF Finish, Goto, IInv, TypeOK
<1>2. CASE j \notin Calls
  BY <1>1, <1>2, QuietStep DEF Quiet
<1>3. CASE j \in Calls
  <2>1. pc'[j] = "done" /\ outcome'[j] = o
    BY DEF Finish, Goto, IInv, TypeOK
  <2>2. RpcStatus[j] = "active"
    BY <1>3 DEF RpcStatus
  <2>3. RpcStatus' = [RpcStatus EXCEPT ![j] = o]
    BY <1>1, <1>3, <2>1 DEF RpcStatus
  <2>4. Rpc!Return(j)
    BY <1>3, <2>2, <2>3 DEF Rpc!Return, Rpc!Ending, RpcStatus, RpcRan
  <2> QED
    BY <1>3, <2>4 DEF Rpc!RpcNext
<1> QED
  BY <1>2, <1>3
\* The raw call of a job failed: it closes and connects again, or ends.
LEMMA ConnectionErrorRefines ==
  ASSUME IInv, NEW j \in Jobs, NEW n, pc[j] \in {"raw", "wait"}, RawConnectionError(j, n),
         RpcRan' = RpcRan
  PROVE  Rpc!RpcNext \/ UNCHANGED <<RpcStatus, RpcRan>>
<1>1. CASE Finish(j, "connection")
  BY <1>1, FinishRefines
<1>2. CASE Goto(j, "read") /\ UNCHANGED outcome
  <2>1. Quiet
    BY <1>2 DEF Goto, Quiet, IInv, TypeOK
  <2> QED
    BY <2>1, QuietStep
<1> QED
  BY <1>1, <1>2 DEF RawConnectionError

\* A job begins: a call is submitted.
LEMMA BeginRefines ==
  ASSUME IInv, NEW j \in Jobs, Begin(j)
  PROVE  Rpc!RpcNext \/ UNCHANGED <<RpcStatus, RpcRan>>
<1>0. /\ pc[j] = "new" /\ UNCHANGED <<outcome, req>>
      /\ pc' = [pc EXCEPT ![j] = IF j \in Openers THEN "construct"
                                 ELSE IF j \in Closers THEN "read" ELSE "acquire"]
  BY DEF Begin, Goto
<1>1. CASE j \notin Calls
  <2>1. Quiet
    BY <1>0, <1>1 DEF Quiet, RpcRan, IInv, TypeOK
  <2> QED
    BY <2>1, QuietStep
<1>2. CASE j \in Calls
  <2>1. pc' = [pc EXCEPT ![j] = "acquire"]
    BY <1>0, <1>2, JobsAssumption
  <2>2. RpcStatus[j] = "idle" /\ RpcStatus' = [RpcStatus EXCEPT ![j] = "waiting"]
    BY <1>0, <1>2, <2>1 DEF RpcStatus, IInv, TypeOK, Jobs
  <2>3. Rpc!Submit(j)
    BY <1>0, <2>2 DEF Rpc!Submit, RpcStatus, RpcRan
  <2> QED
    BY <1>2, <2>3 DEF Rpc!RpcNext
<1> QED
  BY <1>1, <1>2

\* A call gets the lock when no other has it.
LEMMA AcquireRefines ==
  ASSUME IInv, NEW j \in Jobs, Acquire(j)
  PROVE  Rpc!RpcNext \/ UNCHANGED <<RpcStatus, RpcRan>>
<1>0. /\ pc[j] = "acquire" /\ lock = NoJob /\ UNCHANGED <<outcome, req>>
      /\ pc' = [pc EXCEPT ![j] = "check"]
  BY DEF Acquire, Goto
<1>1. CASE j \notin Calls
  <2>1. Quiet
    BY <1>0, <1>1 DEF Quiet, RpcRan, IInv, TypeOK
  <2> QED
    BY <2>1, QuietStep
<1>2. CASE j \in Calls
  <2>1. RpcStatus[j] = "waiting" /\ RpcStatus' = [RpcStatus EXCEPT ![j] = "active"]
    BY <1>0, <1>2 DEF RpcStatus, IInv, TypeOK, Jobs
  <2>2. ASSUME NEW d \in Calls  PROVE RpcStatus[d] # "active"
    <3>1. d \in Jobs /\ lock # d
      BY <1>0, JobsAssumption DEF Jobs
    <3>2. pc[d] \in {"new", "acquire", "done"}
      BY <3>1 DEF IInv, TypeOK, PC, LockDiscipline, Locked
    <3>3. outcome[d] # "active"
      BY <3>1 DEF IInv, TypeOK, Outcome
    <3> QED
      BY <3>2, <3>3 DEF RpcStatus
  <2>3. Rpc!TakeTurn(j)
    BY <1>0, <2>1, <2>2 DEF Rpc!TakeTurn, RpcStatus, RpcRan
  <2> QED
    BY <1>2, <2>3 DEF Rpc!RpcNext
<1> QED
  BY <1>1, <1>2

\* The server carries out a request, which the call has sent.
LEMMA ServeRefines ==
  ASSUME IInv, NEW j \in Jobs, Serve(j)
  PROVE  Rpc!RpcNext \/ UNCHANGED <<RpcStatus, RpcRan>>
<1>0. PICK k \in DOMAIN req[j], s \in {"ran", "failed", "unauth"} :
        req[j][k] = "sent" /\ req' = [req EXCEPT ![j][k] = s]
  BY DEF Serve
<1>1. UNCHANGED <<pc, outcome>>
  BY DEF Serve
<1>2. \A c \in Calls : c # j => req'[c] = req[c]
  BY <1>0 DEF IInv, TypeOK
<1>3. /\ req'[j] = [req[j] EXCEPT ![k] = s]
      /\ DOMAIN req'[j] = DOMAIN req[j]
  BY <1>0 DEF IInv, TypeOK
<1>4. CASE j \notin Calls
  <2>1. Quiet
    BY <1>1, <1>2, <1>4 DEF Quiet, RpcRan
  <2> QED
    BY <2>1, QuietStep
<1>5. CASE j \in Calls /\ s # "ran"
  <2>1. \A i \in DOMAIN req[j] : req'[j][i] = "ran" <=> req[j][i] = "ran"
    BY <1>0, <1>3, <1>5
  <2>2. RpcRan'[j] = RpcRan[j]
    BY <1>3, <1>5, <2>1 DEF RpcRan
  <2>3. Quiet
    BY <1>1, <1>2, <2>2 DEF Quiet, RpcRan
  <2> QED
    BY <2>3, QuietStep
<1>6. CASE j \in Calls /\ s = "ran"
  <2>1. \A i \in DOMAIN req[j] : req'[j][i] = "ran" <=> req[j][i] = "ran" \/ i = k
    BY <1>0, <1>3, <1>6
  <2>2. RpcRan'[j] = RpcRan[j] \cup {k} /\ k \notin RpcRan[j]
    BY <1>0, <1>3, <1>6, <2>1 DEF RpcRan
  <2>3. RpcRan' = [RpcRan EXCEPT ![j] = @ \cup {k}]
    BY <1>2, <1>6, <2>2 DEF RpcRan
  <2>4. k \in {1, 2} /\ pc[j] \notin {"new", "acquire"}
    <3>1. Len(req[j]) = Len(via[j]) /\ Len(via[j]) <= 2 /\ k \in 1..Len(req[j])
      BY <1>0, <1>6 DEF IInv, TypeOK, AttemptInv, AttemptsOf
    <3>2. pc[j] \in {"new", "acquire"} => Len(via[j]) = 0
      BY DEF IInv, AttemptInv, AttemptsOf
    <3>3. Len(via[j]) \in Nat
      BY DEF IInv, TypeOK
    <3> QED
      BY <3>1, <3>2, <3>3
  <2>5. RpcStatus[j] \notin {"idle", "waiting"}
    BY <1>6, <2>4 DEF RpcStatus, IInv, TypeOK, Outcome
  <2>6. RpcStatus' = RpcStatus
    BY <1>1 DEF RpcStatus
  <2>7. Rpc!CarryOut(j)
    BY <2>2, <2>3, <2>4, <2>5, <2>6 DEF Rpc!CarryOut, RpcStatus, RpcRan
  <2> QED
    BY <1>6, <2>7 DEF Rpc!RpcNext
<1> QED
  BY <1>4, <1>5, <1>6
\* What a login in progress leaves for the job to raise.
LEMMA AbandonKept == IInv /\ AbandonInv /\ [Next]_vars => AbandonInv'
<1> SUFFICES ASSUME IInv, AbandonInv, [Next]_vars, NEW j \in Jobs, pc'[j] = "abandon"
             PROVE  outcome'[j] \in {"auth", "connection"}
  BY DEF AbandonInv
<1> USE DEF Goto
<1>0. pc \in [Jobs -> PC] /\ outcome \in [Jobs -> Outcome]
  BY DEF IInv, TypeOK
<1>1. ASSUME NEW i \in Jobs, LoginFails(i)  PROVE outcome'[j] \in {"auth", "connection"}
  <2>1. PICK o \in {"auth", "connection"} : outcome' = [outcome EXCEPT ![i] = o]
    BY <1>1 DEF LoginFails
  <2>2. pc' = [pc EXCEPT ![i] = "abandon"]
    BY <1>1 DEF LoginFails
  <2> QED
    BY <1>0, <2>1, <2>2 DEF AbandonInv
<1>2. ASSUME NEW i \in Jobs, NEW o, Finish(i, o)  PROVE outcome'[j] \in {"auth", "connection"}
  BY <1>0, <1>2 DEF Finish, AbandonInv
<1>3. ASSUME NEW i \in Jobs, NEW l \in PC \ {"abandon"}, Goto(i, l), UNCHANGED outcome
      PROVE  outcome'[j] \in {"auth", "connection"}
  BY <1>0, <1>3 DEF AbandonInv
<1>4. ASSUME NEW i \in Jobs, NEW n, RawConnectionError(i, n)
      PROVE  outcome'[j] \in {"auth", "connection"}
  <2>1. CASE Finish(i, "connection")
    BY <1>2, <2>1
  <2>2. CASE Goto(i, "read") /\ UNCHANGED outcome
    <3>1. "read" \in PC \ {"abandon"}
      BY DEF PC
    <3> QED
      BY <1>3, <2>2, <3>1
  <2> QED
    BY <1>4, <2>1, <2>2 DEF RawConnectionError
<1>5. ASSUME UNCHANGED <<pc, outcome>>  PROVE outcome'[j] \in {"auth", "connection"}
  BY <1>5 DEF AbandonInv
<1>6. ASSUME NEW i \in Jobs, Begin(i) \/ Acquire(i) \/ Check(i) \/ Construct(i) \/ RawSend(i)
                             \/ CloseRead(i) \/ CloseDrop(i)
      PROVE  outcome'[j] \in {"auth", "connection"}
  <2>1. /\ UNCHANGED outcome
        /\ \E l \in PC \ {"abandon"} : Goto(i, l)
    BY <1>6, Zenon DEF Begin, Acquire, Check, Construct, RawSend, CloseRead, CloseDrop, PC
  <2> QED
    BY <1>3, <2>1
<1>7. ASSUME NEW i \in Jobs, ConstructFails(i) \/ Abandon(i) \/ LoginCrashes(i) \/ RawNoClient(i)
      PROVE  outcome'[j] \in {"auth", "connection"}
  <2>1. \E o : Finish(i, o)
    BY <1>7 DEF ConstructFails, Abandon, LoginCrashes, RawNoClient
  <2> QED
    BY <1>2, <2>1
<1>8. ASSUME NEW i \in Jobs,
             RawSendFails(i) \/ Receive(i) \/ Dropped(i) \/ JobCrashes(i) \/ PingTimeout(i)
      PROVE  outcome'[j] \in {"auth", "connection"}
  <2>1. (\E o : Finish(i, o)) \/ (\E n : RawConnectionError(i, n))
    BY <1>8 DEF RawSendFails, Receive, Dropped, JobCrashes, PingTimeout
  <2> QED
    BY <1>2, <1>4, <2>1
<1>9. ASSUME NEW i \in Jobs, LoginOk(i) \/ CloseSocket(i)
      PROVE  outcome'[j] \in {"auth", "connection"}
  <2>1. \/ \E o : Finish(i, o)
        \/ UNCHANGED outcome /\ \E l \in {"raw", "construct"} : Goto(i, l)
    BY <1>9, Zenon DEF LoginOk, CloseSocket
  <2>2. {"raw", "construct"} \subseteq PC \ {"abandon"}
    BY DEF PC
  <2> QED
    BY <1>2, <1>3, <2>1, <2>2
<1>10. ASSUME NEW i \in Jobs, Serve(i)  PROVE outcome'[j] \in {"auth", "connection"}
  BY <1>5, <1>10 DEF Serve
<1>11. ASSUME NEW c \in DOMAIN conns, ClosesDown(c) \/ ConnectionLost(c)
       PROVE  outcome'[j] \in {"auth", "connection"}
  BY <1>5, <1>11 DEF ClosesDown, ConnectionLost
<1>12. CASE UNCHANGED vars
  BY <1>5, <1>12 DEF vars
<1> QED
  BY <1>1, <1>6, <1>7, <1>8, <1>9, <1>10, <1>11, <1>12 DEF Next, LocalStep, Rest
\* A request that goes out, or does not, has not been carried out.
LEMMA AppendRan ==
  ASSUME IInv, NEW j \in Jobs, NEW s \in {"sent", "unsent"},
         req' = [req EXCEPT ![j] = Append(@, s)]
  PROVE  RpcRan' = RpcRan
<1>1. ASSUME NEW c \in Calls
      PROVE  {k \in DOMAIN req'[c] : req'[c][k] = "ran"} = {k \in DOMAIN req[c] : req[c][k] = "ran"}
  <2>1. CASE c # j
    <3>1. req'[c] = req[c]
      BY <2>1 DEF IInv, TypeOK
    <3> QED
      BY <3>1
  <2>2. CASE c = j
    <3>1. req[j] \in Seq(ReqState) /\ req'[j] = Append(req[j], s)
      BY DEF IInv, TypeOK
    <3>2. /\ DOMAIN req[j] = 1..Len(req[j]) /\ Len(req[j]) \in Nat
          /\ DOMAIN req'[j] = 1..(Len(req[j]) + 1)
          /\ \A k \in 1..Len(req[j]) : req'[j][k] = req[j][k]
          /\ req'[j][Len(req[j]) + 1] = s
      BY <3>1 DEF ReqState
    <3>3. \A k \in DOMAIN req'[j] : k \in DOMAIN req[j] \/ k = Len(req[j]) + 1
      BY <3>2
    <3> QED
      BY <2>2, <3>2, <3>3
  <2> QED
    BY <2>1, <2>2
<1> QED
  BY <1>1 DEF RpcRan

\* The other steps of the jobs.
LEMMA LocalRefines ==
  ASSUME IInv, AbandonInv, NEW j \in Jobs, LocalStep(j)
  PROVE  Rpc!RpcNext \/ UNCHANGED <<RpcStatus, RpcRan>>
<1>0. pc \in [Jobs -> PC] /\ outcome \in [Jobs -> Outcome] /\ Calls \subseteq Jobs
  BY DEF IInv, TypeOK, Jobs
<1>1. ASSUME NEW l \in PC \ {"new", "acquire", "done"}, Goto(j, l), UNCHANGED outcome,
             RpcRan' = RpcRan, pc[j] \notin {"new", "acquire", "done"}
      PROVE  UNCHANGED <<RpcStatus, RpcRan>>
  <2>1. Quiet
    BY <1>0, <1>1 DEF Goto, Quiet
  <2> QED
    BY <2>1, QuietStep
<1>2. CASE Acquire(j)
  BY <1>2, AcquireRefines
<1>3. CASE Check(j) \/ Construct(j) \/ CloseRead(j) \/ CloseDrop(j)
  <2>1. /\ UNCHANGED <<outcome, req>> /\ pc[j] \notin {"new", "acquire", "done"}
        /\ \E l \in {"construct", "raw", "login", "drop", "socket"} : Goto(j, l)
    BY <1>3 DEF Check, Construct, CloseRead, CloseDrop
  <2>2. RpcRan' = RpcRan
    BY <2>1 DEF RpcRan
  <2> QED
    BY <1>1, <2>1, <2>2 DEF PC
<1>4. CASE RawSend(j)
  <2>1. RpcRan' = RpcRan
    BY <1>4, AppendRan DEF RawSend
  <2> QED
    BY <1>1, <1>4, <2>1 DEF RawSend, PC
<1>5. CASE RawSendFails(j)
  <2>1. RpcRan' = RpcRan
    BY <1>5, AppendRan DEF RawSendFails
  <2>2. pc[j] = "raw"
    BY <1>5 DEF RawSendFails
  <2>3. CASE RawConnectionError(j, Len(via[j]) + 1)
    BY <2>1, <2>2, <2>3, ConnectionErrorRefines
  <2>4. CASE Finish(j, "auth")
    BY <2>1, <2>2, <2>4, FinishRefines
  <2> QED
    BY <1>5, <2>3, <2>4 DEF RawSendFails
<1>6. CASE LoginFails(j)
  <2>1. /\ UNCHANGED req /\ Goto(j, "abandon") /\ pc[j] = "login"
        /\ \A c \in Calls : c # j => outcome'[c] = outcome[c]
    BY <1>0, <1>6 DEF LoginFails
  <2>2. Quiet
    BY <1>0, <2>1 DEF Goto, Quiet, RpcRan
  <2> QED
    BY <2>2, QuietStep
<1>7. CASE LoginOk(j) \/ CloseSocket(j)
  <2>1. UNCHANGED req /\ RpcRan' = RpcRan /\ pc[j] \in {"login", "socket"}
    BY <1>7 DEF LoginOk, CloseSocket, RpcRan
  <2>2. CASE j \in Openers \cup Closers
    <3>1. \E o : Finish(j, o)
      <4>1. CASE LoginOk(j)
        BY <2>2, <4>1 DEF LoginOk, IInv, RoleInv
      <4>2. CASE CloseSocket(j)
        BY <2>2, <4>2 DEF CloseSocket, IInv, RoleInv
      <4> QED
        BY <1>7, <4>1, <4>2
    <3>2. j \notin Calls
      BY <2>2, JobsAssumption
    <3>3. Quiet
      BY <1>0, <2>1, <3>1, <3>2 DEF Finish, Goto, Quiet
    <3> QED
      BY <3>3, QuietStep
  <2>3. CASE j \notin Openers \cup Closers
    <3>1. UNCHANGED outcome /\ \E l \in {"raw", "construct"} : Goto(j, l)
      BY <1>7, <2>3, Zenon DEF LoginOk, CloseSocket
    <3> QED
      BY <1>1, <2>1, <3>1 DEF PC
  <2> QED
    BY <2>2, <2>3
<1>8. CASE ConstructFails(j) \/ Abandon(j) \/ LoginCrashes(j) \/ RawNoClient(j)
  <2>1. RpcRan' = RpcRan /\ pc[j] \notin {"new", "acquire", "done"}
    BY <1>8 DEF ConstructFails, Abandon, LoginCrashes, RawNoClient, RpcRan
  <2>2. \E o \in {"auth", "connection", "crash"} : Finish(j, o)
    BY <1>8 DEF ConstructFails, Abandon, LoginCrashes, RawNoClient, AbandonInv
  <2> QED
    BY <2>1, <2>2, FinishRefines
<1>9. CASE PingTimeout(j)
  <2>1. RpcRan' = RpcRan
    BY <1>9 DEF PingTimeout, RpcRan
  <2> QED
    BY <1>9, <2>1, ConnectionErrorRefines DEF PingTimeout
<1> QED
  BY <1>2, <1>3, <1>4, <1>5, <1>6, <1>7, <1>8, <1>9 DEF LocalStep

\* The ends of a wait.
LEMMA WaitRefines ==
  ASSUME IInv, NEW j \in Jobs, Receive(j) \/ Dropped(j) \/ JobCrashes(j)
  PROVE  Rpc!RpcNext \/ UNCHANGED <<RpcStatus, RpcRan>>
<1>1. RpcRan' = RpcRan /\ pc[j] = "wait"
  BY DEF Receive, Dropped, JobCrashes, RpcRan
<1>2. CASE RawConnectionError(j, Len(via[j]))
  BY <1>1, <1>2, ConnectionErrorRefines
<1>3. CASE Finish(j, "auth") \/ Finish(j, "crash")
  BY <1>1, <1>3, FinishRefines
<1>4. CASE req[j][Len(req[j])] = "ran" /\ Finish(j, "result")
  <2>1. ASSUME j \in Calls  PROVE RpcRan[j] # {}
    <3>1. Len(req[j]) = Len(via[j]) /\ Len(via[j]) >= 1
      BY <1>1 DEF IInv, AttemptInv, AttemptsOf
    <3>2. Len(req[j]) \in DOMAIN req[j]
      BY <3>1 DEF IInv, TypeOK
    <3> QED
      BY <1>4, <2>1, <3>2 DEF RpcRan
  <2> QED
    BY <1>1, <1>4, <2>1, FinishRefines
<1> QED
  BY <1>2, <1>3, <1>4 DEF Receive, Dropped, JobCrashes

\* Every step of the client is one of SharedRpc, or none.
LEMMA NextRefines ==
  ASSUME IInv, AbandonInv, [Next]_vars
  PROVE  [Rpc!RpcNext]_(Rpc!rpcVars)
<1>1. Rpc!RpcNext \/ UNCHANGED <<RpcStatus, RpcRan>>
  <2>1. ASSUME NEW c \in DOMAIN conns, ClosesDown(c) \/ ConnectionLost(c)
        PROVE  UNCHANGED <<RpcStatus, RpcRan>>
    BY <2>1 DEF ClosesDown, ConnectionLost, RpcStatus, RpcRan
  <2>2. CASE UNCHANGED vars
    BY <2>2 DEF vars, RpcStatus, RpcRan
  <2> QED
    BY <2>1, <2>2, BeginRefines, LocalRefines, WaitRefines, ServeRefines DEF Next, Rest
<1> QED
  BY <1>1 DEF Rpc!rpcVars, RpcStatus, RpcRan

\* At the start no call has begun.
LEMMA InitRefines == Init => Rpc!RpcInit /\ AbandonInv
<1> SUFFICES ASSUME Init  PROVE Rpc!RpcInit /\ AbandonInv
  OBVIOUS
<1>1. \A c \in Calls : pc[c] = "new" /\ req[c] = <<>>
  BY DEF Init, Jobs
<1>2. RpcStatus = [c \in Calls |-> "idle"] /\ RpcRan = [c \in Calls |-> {}]
  BY <1>1 DEF RpcStatus, RpcRan
<1>3. AbandonInv
  BY DEF Init, AbandonInv
<1> QED
  BY <1>2, <1>3 DEF Rpc!RpcInit, RpcStatus, RpcRan

-----------------------------------------------------------------------------
\* call() is what its users take it for: calls take turns, each is carried out
\* at most twice, and a result means that it was (client.py 126-141).
THEOREM CallIsSharedRpc == Spec => ImplementsSharedRpc
<1>1. IInv /\ AbandonInv /\ [Next]_vars => AbandonInv' /\ [Rpc!RpcNext]_(Rpc!rpcVars)
  BY AbandonKept, NextRefines
<1> QED
  BY <1>1, InitRefines, Invariance, PTL DEF Spec, ImplementsSharedRpc, Rpc!RpcSpec
=============================================================================
