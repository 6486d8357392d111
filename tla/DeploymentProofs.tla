--------------------------- MODULE DeploymentProofs ---------------------------
(***************************************************************************)
(* Deployment for any number of migrating processes, releases, migrations,  *)
(* profiles and crashes: what the advisory lock and the order of the steps  *)
(* of start_results.sh are worth.                                           *)
(***************************************************************************)
EXTENDS Deployment, TLAPS

Step == {"idle", "prepare", "writing", "migrate", "locked", "applying", "seeding",
         "roles", "build", "up_api", "up_worker", "done"}
Process == [at : Step, release : Nat, password : Nat, again : BOOLEAN,
            todo : SUBSET Int, ran : Seq(Int)]

InTransaction(m) == session[m].at \in {"locked", "applying", "seeding"}

(* The database holds the migrations of a release and its profiles.         *)
Fits(r) ==
  /\ Scripts[r] <= Len(schema)
  /\ \A p \in DOMAIN Profiles[r] : p \in DOMAIN stored /\ stored[p] = Profiles[r][p]

Typed ==
  /\ session \in [Session -> Process]
  /\ schema \in Seq(Int)
  /\ file \in Nat /\ drawn \in Nat /\ role \in Nat
  /\ {image, api.release, worker.release} \subseteq Release \cup {0}

InOrder == \A i \in 1..Len(schema) : schema[i] = i

(* A transaction owns the lock, and what it has executed continues the      *)
(* migrations that were there when it read them.                            *)
Sound(m) ==
  LET now == session[m] IN
  /\ now.at \notin {"idle", "done"} => now.release \in Release
  /\ InTransaction(m) => lock = m
  /\ now.at \in {"prepare", "writing", "migrate", "locked"} => now.ran = <<>>
  /\ now.at \in {"applying", "seeding"} =>
       \A i \in 1..Len(now.ran) : now.ran[i] = Len(schema) + i
  /\ now.at = "applying" =>
       now.todo = (Len(schema) + Len(now.ran) + 1)..Scripts[now.release]
  /\ now.at = "seeding" => Scripts[now.release] <= Len(schema) + Len(now.ran)

(* Whatever is built, running or about to be fits the database.             *)
AllFit ==
  /\ session[Script].at \in {"roles", "build", "up_api", "up_worker"} =>
       Fits(session[Script].release)
  /\ \A r \in {image, api.release, worker.release} : r # 0 => Fits(r)

(* How far the password of this run has come.                               *)
PasswordOnItsWay ==
  LET now == session[Script] IN
  /\ now.at = "writing" => now.password # 0
  /\ now.at \in {"migrate", "locked", "applying", "seeding", "roles"} =>
       file = now.password /\ file # 0
  /\ now.at \in {"build", "up_api", "up_worker", "done"} => file = role /\ file # 0
  /\ now.at \in {"up_worker", "done"} => api.password = role
  /\ now.at = "done" => worker.password = role

DeploymentInv ==
  Typed /\ InOrder /\ (\A m \in Session : Sound(m)) /\ AllFit /\ PasswordOnItsWay

(* A step of m, as far as the processes see it.                             *)
StepOf(m) ==
  /\ session' \in [Session -> Process]
  /\ \A o \in Session \ {m} : session'[o] = session[o]

-----------------------------------------------------------------------------
(* Nothing has been deployed: the invariant holds.                          *)
LEMMA InitInv == DeploymentInit => DeploymentInv
<1> SUFFICES ASSUME DeploymentInit PROVE DeploymentInv
  OBVIOUS
<1>1. Idle \in Process /\ Idle.at = "idle"
  BY DEF Idle, Process, Step
<1>2. session = [m \in Session |-> Idle] /\ \A m \in Session : session[m].at = "idle"
  BY <1>1 DEF DeploymentInit
<1>3. Typed
  BY <1>1, <1>2, DeploymentAssumption DEF DeploymentInit, Typed, Stopped
<1>4. Script \in Session
  BY DEF Session
<1>5. InOrder /\ AllFit /\ PasswordOnItsWay
  BY <1>2, <1>4 DEF DeploymentInit, InOrder, AllFit, PasswordOnItsWay, Stopped
<1>6. \A m \in Session : Sound(m)
  BY <1>2 DEF Sound, InTransaction
<1> QED
  BY <1>3, <1>5, <1>6 DEF DeploymentInv

(* A process is disturbed by the steps of others only as far as they own    *)
(* the lock, and then it is not in a transaction.                           *)
LEMMA OthersStaySound ==
  ASSUME NEW m \in Session, \A o \in Session : Sound(o), StepOf(m),
         lock' \in {lock, m, None}, lock' # lock => lock \in {m, None},
         schema' # schema => lock = m
  PROVE  \A o \in Session \ {m} : Sound(o)'
<1> SUFFICES ASSUME NEW o \in Session \ {m} PROVE Sound(o)'
  OBVIOUS
<1>1. Sound(o) /\ session'[o] = session[o]
  BY DEF StepOf
<1>2. CASE InTransaction(o)
  <2>1. lock = o /\ o # m /\ o # None
    BY <1>1, <1>2, DeploymentAssumption DEF Sound
  <2>2. lock' = lock /\ schema' = schema
    BY <2>1
  <2> QED
    BY <1>1, <2>2 DEF Sound, InTransaction
<1>3. CASE ~InTransaction(o)
  BY <1>1, <1>3 DEF Sound, InTransaction
<1> QED
  BY <1>2, <1>3

(* The record of a process that has read what was applied.                  *)
LEMMA ReadingRecord ==
  ASSUME NEW before \in Process, NEW left \in SUBSET Int
  PROVE  LET now == [before EXCEPT !.at = "applying", !.todo = left] IN
         /\ now \in Process /\ now.at = "applying" /\ now.release = before.release
         /\ now.todo = left /\ now.ran = before.ran /\ now.password = before.password
BY DEF Process, Step

(* Appending the next number to a sequence of numbers in order keeps the    *)
(* order.                                                                   *)
LEMMA OneMore ==
  ASSUME NEW done \in Seq(Int), NEW n \in Nat,
         \A i \in 1..Len(done) : done[i] = n + i
  PROVE  LET next == Append(done, n + Len(done) + 1) IN
         /\ next \in Seq(Int) /\ Len(next) = Len(done) + 1
         /\ \A i \in 1..Len(next) : next[i] = n + i
<1> DEFINE k == Len(done)
           next == Append(done, n + k + 1)
<1>1. k \in Nat /\ n + k + 1 \in Int
  OBVIOUS
<1> HIDE DEF k
<1>2. next \in Seq(Int) /\ Len(next) = k + 1 /\ next[k + 1] = n + k + 1
  BY <1>1 DEF k
<1>3. \A i \in 1..k : next[i] = done[i]
  BY <1>1 DEF k
<1> HIDE DEF next
<1>4. \A i \in 1..k : next[i] = n + i
  BY <1>3 DEF k
<1>5. \A i \in 1..k + 1 : next[i] = n + i
  <2> SUFFICES ASSUME NEW i \in 1..k + 1 PROVE next[i] = n + i
    OBVIOUS
  <2>1. CASE i \in 1..k
    BY <1>4, <2>1
  <2>2. CASE i = k + 1
    BY <1>1, <1>2, <2>2
  <2> QED
    BY <1>1, <2>1, <2>2
<1> QED
  BY <1>2, <1>5 DEF next, k

(* The least element of an interval, and the interval without it.           *)
LEMMA LeastOfInterval ==
  ASSUME NEW a \in Int, NEW b \in Int, a..b # {}
  PROVE  a <= b /\ Min(a..b) = a /\ (a..b) \ {a} = (a + 1)..b
<1>1. a <= b /\ a \in a..b /\ \A y \in a..b : a <= y
  OBVIOUS
<1>2. \A x \in a..b : (\A y \in a..b : x <= y) => x = a
  BY <1>1
<1>3. Min(a..b) = a
  BY <1>1, <1>2 DEF Min
<1>4. (a..b) \ {a} = (a + 1)..b
  BY <1>1
<1> QED
  BY <1>1, <1>3, <1>4

(* What an assignment to the record of one process amounts to.              *)
LEMMA Moved ==
  ASSUME Typed, NEW m \in Session, NEW now \in Process,
         session' = [session EXCEPT ![m] = now]
  PROVE  StepOf(m) /\ session'[m] = now
BY DEF Typed, StepOf

(* A process that moves on keeps all else it knows.                         *)
LEMMA GotoMoves ==
  ASSUME Typed, NEW m \in Session, NEW step \in Step, Goto(m, step)
  PROVE  /\ StepOf(m)
         /\ session'[m] = [session[m] EXCEPT !.at = step]
         /\ session'[m].at = step
         /\ session'[m].release = session[m].release
         /\ session'[m].password = session[m].password
         /\ session'[m].todo = session[m].todo /\ session'[m].ran = session[m].ran
<1>1. session[m] \in Process
  BY DEF Typed
<1> DEFINE now == [session[m] EXCEPT !.at = step]
<1>2. now \in Process
  BY <1>1 DEF Process
<1>3. session' = [session EXCEPT ![m] = now]
  BY DEF Goto
<1>4. StepOf(m) /\ session'[m] = now
  BY <1>2, <1>3, Moved, Zenon
<1> QED
  BY <1>1, <1>4 DEF Process

(* A process that ends knows nothing, and is sound.                         *)
LEMMA StopMoves ==
  ASSUME Typed, NEW m \in Session, NEW at \in {"idle", "done"},
         session' = [session EXCEPT ![m] = [Idle EXCEPT !.at = at]]
  PROVE  StepOf(m) /\ session'[m].at = at
<1> DEFINE now == [Idle EXCEPT !.at = at]
<1>1. Idle \in Process
  BY DEF Idle, Process, Step
<1>2. at \in Step
  BY DEF Step
<1>3. now \in Process /\ now.at = at
  BY <1>1, <1>2 DEF Process
<1> HIDE DEF now
<1> QED
  BY <1>3, Moved DEF now

(* The step of another process leaves the script where it is.               *)
LEMMA OthersLeaveTheScript ==
  ASSUME AllFit, PasswordOnItsWay, NEW m \in Session \ {Script}, StepOf(m),
         UNCHANGED <<file, role, image, api, worker>>,
         Typed, Sound(Script), \A r \in Release : Fits(r) => Fits(r)'
  PROVE  AllFit' /\ PasswordOnItsWay'
<1>1. session'[Script] = session[Script]
  BY DEF StepOf, Session
<1>2. PasswordOnItsWay'
  BY <1>1 DEF PasswordOnItsWay
<1>3. ASSUME session[Script].at \in {"roles", "build", "up_api", "up_worker"}
      PROVE  Fits(session[Script].release)'
  <2>1. session[Script].release \in Release /\ Fits(session[Script].release)
    BY <1>3 DEF AllFit, Sound
  <2>2. PICK r \in Release : r = session[Script].release
    BY <2>1
  <2> QED
    BY <1>1, <2>1, <2>2 DEF Fits
<1>4. \A r \in {image', api'.release, worker'.release} : r # 0 => Fits(r)'
  BY DEF AllFit, Typed
<1> QED
  BY <1>1, <1>2, <1>3, <1>4 DEF AllFit

(* What fits the database still does when only migrations and profiles are  *)
(* added.                                                                   *)
LEMMA FitsStays ==
  ASSUME UNCHANGED <<schema, stored>> PROVE \A r \in Release : Fits(r) => Fits(r)'
BY DEF Fits

-----------------------------------------------------------------------------
(* Where a migrating process goes without the database being changed.       *)
LEMMA TransactionInv ==
  ASSUME DeploymentInv, NEW m \in Session, StepOf(m), Sound(m)',
         UNCHANGED <<file, drawn, schema, stored, role, services>>,
         lock' \in {lock, m, None}, lock' # lock => lock \in {m, None},
         m = Script =>
           /\ session'[m].password = session[m].password
           /\ session[m].at \in {"migrate", "locked", "applying"}
           /\ session'[m].at \in {"locked", "applying", "seeding"}
  PROVE  DeploymentInv'
<1> USE DEF DeploymentInv
<1>1. \A o \in Session : Sound(o)'
  BY OthersStaySound
<1>2. Typed' /\ InOrder'
  BY DEF Typed, InOrder, StepOf, services
<1>3. AllFit' /\ PasswordOnItsWay'
  <2>1. CASE m # Script
    BY <2>1, OthersLeaveTheScript, FitsStays DEF services, Session
  <2>2. CASE m = Script
    <3>1. PasswordOnItsWay'
      BY <2>2 DEF services, PasswordOnItsWay
    <3>2. AllFit'
      BY <2>2, FitsStays DEF services, AllFit, Typed
    <3> QED
      BY <3>1, <3>2
  <2> QED
    BY <2>1, <2>2
<1> QED
  BY <1>1, <1>2, <1>3

(* One step after the other keeps the invariant: taking the lock,           *)
LEMMA LockInv ==
  ASSUME DeploymentInv, NEW m \in Session, Lock(m) PROVE DeploymentInv'
<1>1. /\ session[m].at = "migrate" /\ lock = None /\ lock' = m
      /\ Goto(m, "locked")
      /\ UNCHANGED <<file, drawn, schema, stored, role, services>>
  BY DEF Lock, At
<1>2. /\ StepOf(m) /\ session'[m].at = "locked"
      /\ session'[m].release = session[m].release
      /\ session'[m].password = session[m].password /\ session'[m].ran = session[m].ran
  BY <1>1, GotoMoves DEF DeploymentInv, Step
<1>3. Sound(m)'
  BY <1>1, <1>2 DEF DeploymentInv, Sound, InTransaction
<1> QED
  BY <1>1, <1>2, <1>3, TransactionInv

(* Without gaps in what was applied, what is left is an interval.           *)
LEMMA AppliedIsAnInterval ==
  ASSUME Typed, InOrder PROVE Range(schema) = 1..Len(schema)
BY DEF Typed, InOrder, Range

(* ... reading what was applied,                                            *)
LEMMA ReadAppliedInv ==
  ASSUME DeploymentInv, NEW m \in Session, ReadApplied(m) PROVE DeploymentInv'
<1> USE DEF DeploymentInv
<1> DEFINE r == session[m].release
           now == [session[m] EXCEPT !.at = "applying", !.todo = (1..Scripts[r]) \ Range(schema)]
<1>1. /\ session[m].at = "locked" /\ session' = [session EXCEPT ![m] = now]
      /\ UNCHANGED <<file, drawn, schema, stored, lock, role, services>>
  BY DEF ReadApplied, At, database
<1>2. session[m] \in Process /\ Scripts[r] \in Nat /\ Len(schema) \in Nat
  <2>1. r \in Release
    BY <1>1 DEF Sound
  <2>2. \A release \in Release : Scripts[release] \in Nat
    BY DeploymentAssumption
  <2>3. session[m] \in Process /\ Len(schema) \in Nat
    BY DEF Typed
  <2> QED
    BY <2>1, <2>2, <2>3
<1>3. (1..Scripts[r]) \ Range(schema) = (Len(schema) + 1)..Scripts[r]
  BY <1>2, AppliedIsAnInterval
<1>4. now \in Process /\ now.at = "applying" /\ now.release = r
      /\ now.todo = (Len(schema) + 1)..Scripts[r] /\ now.ran = session[m].ran
      /\ now.password = session[m].password
  <2>1. (1..Scripts[r]) \ Range(schema) \in SUBSET Int
    BY <1>2, <1>3
  <2> QED
    BY <1>2, <1>3, <2>1, ReadingRecord, Zenon
<1> HIDE DEF now
<1>5. StepOf(m) /\ session'[m] = now
  BY <1>1, <1>4, Moved
<1>6. session[m].ran = <<>> /\ lock = m /\ session[m].release \in Release
  BY <1>1 DEF Sound, InTransaction
<1>7. Sound(m)'
  BY <1>1, <1>2, <1>4, <1>5, <1>6 DEF Sound, InTransaction
<1> QED
  BY <1>1, <1>4, <1>5, <1>7, TransactionInv

(* ... executing a migration,                                               *)
LEMMA ApplyScriptInv ==
  ASSUME DeploymentInv, NEW m \in Session, ApplyScript(m) PROVE DeploymentInv'
<1> USE DEF DeploymentInv
<1> DEFINE before == session[m]
           n == Len(schema)
           k == Len(before.ran)
           last == Scripts[before.release]
<1>1. /\ before.at = "applying" /\ before \in Process
      /\ UNCHANGED <<file, drawn, schema, stored, lock, role, services>>
  BY DEF ApplyScript, At, database, Typed
<1>2. before.ran \in Seq(Int) /\ n \in Nat /\ k \in Nat
  BY <1>1 DEF Typed, Process
<1>3. before.release \in Release /\ last \in Nat /\ lock = m
  BY <1>1, DeploymentAssumption DEF Sound, InTransaction
<1>4. before.todo = (n + k + 1)..last /\ \A i \in 1..k : before.ran[i] = n + i
  BY <1>1 DEF Sound
<1> HIDE DEF before, n, k, last
<1>5. CASE before.todo = {}
  <2>1. Goto(m, "seeding")
    BY <1>5 DEF ApplyScript, before
  <2>2. last <= n + k
    <3>1. n + k + 1 \notin (n + k + 1)..last
      BY <1>4, <1>5
    <3> QED
      BY <1>2, <1>3, <3>1
  <2>3. /\ StepOf(m) /\ session'[m].at = "seeding"
        /\ session'[m].release = before.release
        /\ session'[m].password = before.password /\ session'[m].ran = before.ran
    BY <2>1, GotoMoves DEF Step, before
  <2>4. Sound(m)'
    BY <1>1, <1>3, <1>4, <2>2, <2>3 DEF Sound, InTransaction, n, k, last
  <2> QED
    BY <1>1, <2>3, <2>4, TransactionInv DEF before
<1>6. CASE before.todo # {}
  <2>1. Min(before.todo) = n + k + 1
        /\ before.todo \ {n + k + 1} = (n + k + 1 + 1)..last
    BY <1>2, <1>3, <1>4, <1>6, LeastOfInterval
  <2> DEFINE done == Append(before.ran, n + k + 1)
             left == before.todo \ {n + k + 1}
             now == [before EXCEPT !.todo = left, !.ran = done]
  <2>2. session' = [session EXCEPT ![m] = now]
    BY <1>6, <2>1 DEF ApplyScript, before
  <2>3. done \in Seq(Int) /\ Len(done) = k + 1 /\ \A i \in 1..Len(done) : done[i] = n + i
    BY <1>2, <1>4, OneMore DEF k
  <2>4. left \in SUBSET Int /\ left = (n + k + 1 + 1)..last
    BY <1>2, <1>3, <2>1
  <2> HIDE DEF done, left
  <2>5. now \in Process /\ now.at = "applying" /\ now.release = before.release
        /\ now.password = before.password
        /\ now.todo = (n + k + 1 + 1)..last /\ now.ran = done
    <3>1. before \in Process /\ done \in Seq(Int) /\ left \in SUBSET Int
      BY <1>1, <2>3, <2>4
    <3>2. /\ now \in Process /\ now.at = before.at /\ now.release = before.release
          /\ now.todo = left /\ now.ran = done /\ now.password = before.password
      BY <3>1 DEF Process
    <3> QED
      BY <1>1, <2>4, <3>2
  <2> HIDE DEF now
  <2>6. StepOf(m) /\ session'[m] = now
    BY <2>2, <2>5, Moved
  <2>7. n + k + 1 + 1 = n + Len(done) + 1
    BY <1>2, <2>3
  <2>8. Sound(m)'
    BY <1>1, <1>3, <2>3, <2>5, <2>6, <2>7 DEF Sound, InTransaction, n, last
  <2> QED
    BY <1>1, <2>5, <2>6, <2>8, TransactionInv DEF before
<1> QED
  BY <1>5, <1>6

-----------------------------------------------------------------------------
(* Seeding adds the profiles of a release and keeps all others.             *)
LEMMA SeededKeeps ==
  ASSUME NEW mine, \A p \in DOMAIN mine \cap DOMAIN stored : mine[p] = stored[p]
  PROVE  /\ DOMAIN Seeded(mine) = DOMAIN stored \cup DOMAIN mine
         /\ \A p \in DOMAIN stored : Seeded(mine)[p] = stored[p]
         /\ \A p \in DOMAIN mine : Seeded(mine)[p] = mine[p]
<1> DEFINE both == DOMAIN stored \cup DOMAIN mine
<1>1. Seeded(mine) = [p \in both |-> IF p \in DOMAIN stored THEN stored[p] ELSE mine[p]]
  BY DEF Seeded
<1>2. DOMAIN Seeded(mine) = both
  BY <1>1
<1>3. \A p \in both : Seeded(mine)[p] = IF p \in DOMAIN stored THEN stored[p] ELSE mine[p]
  BY <1>1
<1> QED
  BY <1>2, <1>3

(* The commit: migrations continue in order, profiles only come in addition.*)
LEMMA Continued ==
  ASSUME Typed, InOrder, NEW ran \in Seq(Int),
         \A i \in 1..Len(ran) : ran[i] = Len(schema) + i
  PROVE  LET all == schema \o ran IN
         /\ all \in Seq(Int) /\ Len(all) = Len(schema) + Len(ran)
         /\ \A i \in 1..Len(all) : all[i] = i
<1> DEFINE n == Len(schema)
           k == Len(ran)
           all == schema \o ran
<1>1. n \in Nat /\ k \in Nat /\ schema \in Seq(Int)
  BY DEF Typed
<1>2. all \in Seq(Int) /\ Len(all) = n + k
  BY <1>1
<1>3. /\ \A i \in 1..n : all[i] = schema[i]
      /\ \A i \in (n + 1)..(n + k) : all[i] = ran[i - n]
  BY <1>1
<1>4. \A i \in 1..n : schema[i] = i
  BY DEF InOrder
<1>5. \A i \in 1..k : ran[i] = n + i
  OBVIOUS
<1> HIDE DEF n, k, all
<1>6. \A i \in 1..(n + k) : all[i] = i
  <2> SUFFICES ASSUME NEW i \in 1..(n + k) PROVE all[i] = i
    OBVIOUS
  <2>1. CASE i <= n
    BY <1>1, <1>3, <1>4, <2>1
  <2>2. CASE i > n
    <3>1. i \in (n + 1)..(n + k) /\ i - n \in 1..k
      BY <1>1, <2>2
    <3> QED
      BY <1>1, <1>3, <1>5, <3>1
  <2> QED
    BY <1>1, <2>1, <2>2
<1> QED
  BY <1>2, <1>6 DEF all, n, k

(* Seeding keeps the invariant, whether it commits or rolls back.           *)
LEMMA SeedInv ==
  ASSUME DeploymentInv, NEW m \in Session, Seed(m) PROVE DeploymentInv'
<1> USE DEF DeploymentInv
<1> DEFINE before == session[m]
           mine == Profiles[before.release]
           changed == {p \in DOMAIN mine \cap DOMAIN stored : mine[p] # stored[p]}
<1>1. /\ before.at = "seeding" /\ before \in Process
      /\ lock' = Unlocked(m)
      /\ UNCHANGED <<file, drawn, role, image, api, worker>>
  BY DEF Seed, At, services, Typed
<1>2. lock = m /\ lock' = None
  BY <1>1 DEF Sound, InTransaction, Unlocked
<1>3. CASE changed # {}
  <2>1. session' = [session EXCEPT ![m] = Idle] /\ UNCHANGED <<schema, stored>>
    BY <1>3 DEF Seed
  <2>2. Idle \in Process /\ Idle.at = "idle"
    BY DEF Idle, Process, Step
  <2>3. StepOf(m) /\ session'[m].at = "idle"
    BY <2>1, <2>2, Moved
  <2>4. Sound(m)'
    BY <2>3 DEF Sound, InTransaction
  <2>5. \A o \in Session : Sound(o)'
    BY <1>2, <2>1, <2>3, <2>4, OthersStaySound
  <2>6. Typed' /\ InOrder'
    BY <1>1, <2>1, <2>3 DEF Typed, InOrder, StepOf
  <2>7. AllFit' /\ PasswordOnItsWay'
    <3>1. CASE m # Script
      BY <1>1, <2>1, <2>3, <3>1, OthersLeaveTheScript, FitsStays DEF Session
    <3>2. CASE m = Script
      <4>1. PasswordOnItsWay'
        BY <1>1, <2>3, <3>2 DEF PasswordOnItsWay
      <4>2. AllFit'
        BY <1>1, <2>1, <2>3, <3>2, FitsStays DEF AllFit, Typed
      <4> QED
        BY <4>1, <4>2
    <3> QED
      BY <3>1, <3>2
  <2> QED
    BY <2>5, <2>6, <2>7
<1>4. CASE changed = {}
  <2>1. /\ schema' = schema \o before.ran /\ stored' = Seeded(mine)
        /\ session' = [session EXCEPT
             ![m] = IF m = Script THEN [before EXCEPT !.at = "roles"] ELSE Idle]
    BY <1>4 DEF Seed
  <2>2. /\ before.ran \in Seq(Int) /\ before.release \in Release
        /\ \A i \in 1..Len(before.ran) : before.ran[i] = Len(schema) + i
        /\ Scripts[before.release] <= Len(schema) + Len(before.ran)
    BY <1>1 DEF Process, Sound
  <2>3. /\ schema' \in Seq(Int) /\ Len(schema') = Len(schema) + Len(before.ran)
        /\ \A i \in 1..Len(schema') : schema'[i] = i
    BY <2>1, <2>2, Continued
  <2>4. /\ DOMAIN stored' = DOMAIN stored \cup DOMAIN mine
        /\ \A p \in DOMAIN stored : stored'[p] = stored[p]
        /\ \A p \in DOMAIN mine : stored'[p] = mine[p]
    <3>1. \A p \in DOMAIN mine \cap DOMAIN stored : mine[p] = stored[p]
      BY <1>4
    <3> QED
      BY <2>1, <3>1, SeededKeeps
  <2>5. /\ Len(schema) <= Len(schema') /\ Len(schema) \in Int /\ Len(schema') \in Int
        /\ Scripts \in [Release -> Int]
    BY <2>2, <2>3, DeploymentAssumption DEF Typed
  <2>6. \A r \in Release : Fits(r) => Fits(r)'
    BY <2>4, <2>5 DEF Fits
  <2>7. \A r \in Release : r = before.release => Fits(r)'
    BY <2>2, <2>3, <2>4, <2>5 DEF Fits
  <2>8. CASE m = Script
    <3>1. session' = [session EXCEPT ![m] = [before EXCEPT !.at = "roles"]]
      BY <2>1, <2>8
    <3> DEFINE now == [before EXCEPT !.at = "roles"]
    <3>2. /\ now \in Process /\ now.at = "roles" /\ now.release = before.release
          /\ now.password = before.password
      BY <1>1 DEF Process, Step
    <3> HIDE DEF now
    <3>3. /\ StepOf(m) /\ session'[m].at = "roles"
          /\ session'[m].release = before.release /\ session'[m].password = before.password
      <4>1. StepOf(m) /\ session'[m] = now
        BY <3>1, <3>2, Moved DEF now
      <4> QED
        BY <3>2, <4>1
    <3>4. Sound(m)'
      BY <2>2, <3>3 DEF Sound, InTransaction
    <3>5. \A o \in Session : Sound(o)'
      BY <1>2, <3>3, <3>4, OthersStaySound
    <3>6. Typed' /\ InOrder'
      BY <1>1, <2>3, <3>3 DEF Typed, InOrder, StepOf
    <3>7. PasswordOnItsWay'
      BY <1>1, <2>8, <3>3 DEF PasswordOnItsWay
    <3>8. AllFit'
      <4>1. Fits(session[Script].release)'
        <5>1. session'[Script].release = before.release
          BY <2>8, <3>3
        <5> QED
          BY <2>2, <2>7, <5>1 DEF Fits
      <4>2. \A r \in {image', api'.release, worker'.release} : r # 0 => Fits(r)'
        BY <1>1, <2>6 DEF AllFit, Typed
      <4> QED
        BY <4>1, <4>2 DEF AllFit
    <3> QED
      BY <3>5, <3>6, <3>7, <3>8
  <2>9. CASE m # Script
    <3>1. session' = [session EXCEPT ![m] = Idle] /\ Idle \in Process /\ Idle.at = "idle"
      BY <2>1, <2>9 DEF Idle, Process, Step
    <3>2. StepOf(m) /\ session'[m].at = "idle"
      BY <3>1, Moved
    <3>3. Sound(m)'
      BY <3>2 DEF Sound, InTransaction
    <3>4. \A o \in Session : Sound(o)'
      BY <1>2, <3>2, <3>3, OthersStaySound
    <3>5. Typed' /\ InOrder'
      BY <1>1, <2>3, <3>2 DEF Typed, InOrder, StepOf
    <3>6. Script \in Session
      BY DEF Session
    <3>7. AllFit' /\ PasswordOnItsWay'
      BY <1>1, <2>9, <2>6, <3>2, <3>6, OthersLeaveTheScript
    <3> QED
      BY <3>4, <3>5, <3>7
  <2> QED
    BY <2>8, <2>9
<1> QED
  BY <1>3, <1>4

-----------------------------------------------------------------------------
(* start_results.sh around its migration.                                   *)

(* The script outside of its transaction: what is left to show.             *)
LEMMA ScriptInv ==
  ASSUME DeploymentInv, StepOf(Script), UNCHANGED <<schema, stored, lock>>,
         session'[Script].at \notin {"locked", "applying", "seeding"},
         session'[Script].at \notin {"idle", "done"} => session'[Script].release \in Release,
         session'[Script].at \in {"prepare", "writing", "migrate"} =>
           session'[Script].ran = <<>>,
         file' \in Nat, drawn' \in Nat, role' \in Nat,
         {image', api'.release, worker'.release} \subseteq Release \cup {0},
         AllFit', PasswordOnItsWay'
  PROVE  DeploymentInv'
<1>1. Sound(Script)'
  BY DEF Sound, InTransaction
<1>2. \A o \in Session : Sound(o)'
  BY <1>1, OthersStaySound DEF DeploymentInv, Session
<1>3. Typed' /\ InOrder'
  BY DEF DeploymentInv, Typed, InOrder, StepOf
<1> QED
  BY <1>2, <1>3 DEF DeploymentInv

(* So does starting the script,                                             *)
LEMMA RunScriptInv ==
  ASSUME DeploymentInv, NEW r \in Release, RunScript(r) PROVE DeploymentInv'
<1> USE DEF DeploymentInv
<1> DEFINE now == [Idle EXCEPT !.at = "prepare", !.release = r]
<1>1. now \in Process /\ now.at = "prepare" /\ now.release = r /\ now.ran = <<>>
  <2>1. Idle \in Process /\ r \in Nat /\ Idle.ran = <<>>
    BY DeploymentAssumption DEF Idle, Process, Step
  <2> QED
    BY <2>1 DEF Process, Step
<1> HIDE DEF now
<1>2. /\ session' = [session EXCEPT ![Script] = now]
      /\ UNCHANGED <<file, drawn, schema, stored, lock, role, image, api, worker>>
  BY DEF RunScript, now, database, services
<1>3. StepOf(Script) /\ session'[Script] = now
  BY <1>1, <1>2, Moved DEF Session
<1>4. PasswordOnItsWay'
  BY <1>1, <1>3 DEF PasswordOnItsWay
<1>5. AllFit'
  BY <1>1, <1>2, <1>3, FitsStays DEF AllFit, Typed
<1> QED
  BY <1>1, <1>2, <1>3, <1>4, <1>5, ScriptInv DEF Typed

(* ... drawing or reading a password,                                       *)
LEMMA OpenInv == DeploymentInv /\ OpenRuntimeFile => DeploymentInv'
<1> SUFFICES ASSUME DeploymentInv, OpenRuntimeFile PROVE DeploymentInv'
  OBVIOUS
<1> USE DEF DeploymentInv
<1> DEFINE before == session[Script]
           fresh == file = 0 /\ Supplied = 0
           p == IF file # 0 THEN file ELSE IF fresh THEN drawn + 1 ELSE Supplied
           now == [before EXCEPT !.at = "writing", !.password = p]
<1>1. /\ before.at = "prepare" /\ before \in Process /\ before.release \in Release
      /\ before.ran = <<>>
      /\ file' = 0 /\ drawn' \in {drawn, drawn + 1}
      /\ UNCHANGED <<schema, stored, lock, role, image, api, worker>>
  BY DEF OpenRuntimeFile, At, database, services, Typed, Session, Sound
<1>2. session' = [session EXCEPT ![Script] = now]
  BY DEF OpenRuntimeFile
<1>3. p \in Nat /\ p # 0
  BY DeploymentAssumption DEF Typed
<1> HIDE DEF p
<1>4. now \in Process /\ now.at = "writing" /\ now.release = before.release
      /\ now.password = p /\ now.ran = <<>>
  BY <1>1, <1>3 DEF Process, Step
<1> HIDE DEF now
<1>5. StepOf(Script) /\ session'[Script] = now
  BY <1>2, <1>4, Moved DEF Session
<1>6. PasswordOnItsWay'
  BY <1>3, <1>4, <1>5 DEF PasswordOnItsWay
<1>7. AllFit'
  BY <1>1, <1>4, <1>5, FitsStays DEF AllFit, Typed
<1> QED
  BY <1>1, <1>4, <1>5, <1>6, <1>7, ScriptInv DEF Typed

(* ... writing it,                                                          *)
LEMMA WriteInv == DeploymentInv /\ WriteRuntimeFile => DeploymentInv'
<1> SUFFICES ASSUME DeploymentInv, WriteRuntimeFile PROVE DeploymentInv'
  OBVIOUS
<1> USE DEF DeploymentInv
<1> DEFINE before == session[Script]
           step == IF before.again THEN "migrate" ELSE "prepare"
           now == [before EXCEPT !.at = step, !.again = TRUE]
<1>1. /\ before.at = "writing" /\ before \in Process /\ before.release \in Release
      /\ before.ran = <<>> /\ before.password \in Nat \ {0} /\ file' = before.password
      /\ UNCHANGED <<drawn, schema, stored, lock, role, image, api, worker>>
  BY DEF WriteRuntimeFile, At, database, services, Typed, Session, Sound, PasswordOnItsWay,
         Process
<1>2. session' = [session EXCEPT ![Script] = now]
  BY DEF WriteRuntimeFile
<1>3. step \in {"migrate", "prepare"}
  OBVIOUS
<1> HIDE DEF step
<1>4. now \in Process /\ now.at = step /\ now.release = before.release
      /\ now.password = before.password /\ now.ran = <<>>
  BY <1>1, <1>3 DEF Process, Step
<1> HIDE DEF now
<1>5. StepOf(Script) /\ session'[Script] = now
  BY <1>2, <1>4, Moved DEF Session
<1>6. PasswordOnItsWay'
  BY <1>1, <1>3, <1>4, <1>5 DEF PasswordOnItsWay
<1>7. AllFit'
  BY <1>1, <1>3, <1>4, <1>5, FitsStays DEF AllFit, Typed
<1> QED
  BY <1>1, <1>3, <1>4, <1>5, <1>6, <1>7, ScriptInv DEF Typed

(* Roles, image, and the two containers.                                    *)
LEMMA DeployInv ==
  ASSUME DeploymentInv, SetRoles \/ Build \/ UpApi PROVE DeploymentInv'
<1> USE DEF DeploymentInv
<1> DEFINE before == session[Script]
<1>1. Script \in Session /\ before.release \in Release
      /\ before.at \in {"roles", "build", "up_api"}
  BY DEF SetRoles, Build, UpApi, At, Session, Sound
<1>2. Fits(before.release) /\ before.password \in Nat
  BY <1>1 DEF AllFit, Typed, Process
<1>3. /\ StepOf(Script) /\ session'[Script].release = before.release
      /\ session'[Script].at \in {"build", "up_api", "up_worker"}
      /\ SetRoles => session'[Script].at = "build"
      /\ Build => session'[Script].at = "up_api"
  BY <1>1, GotoMoves DEF SetRoles, Build, UpApi, Step
<1>4. UNCHANGED <<file, drawn, schema, stored, lock, worker>>
  BY DEF SetRoles, Build, UpApi, services, database
<1>5. PasswordOnItsWay'
  BY <1>1, <1>3, <1>4 DEF SetRoles, Build, UpApi, At, database, services, Container,
                         PasswordOnItsWay
<1>6. {image', api'.release, worker'.release} \subseteq {image, api.release, worker.release,
                                                       before.release}
  BY <1>4 DEF SetRoles, Build, UpApi, services, Container
<1>7. AllFit'
  <2>1. \A r \in Release : Fits(r) => Fits(r)'
    BY <1>4, FitsStays
  <2>2. \A r \in {image', api'.release, worker'.release} : r # 0 => r \in Release /\ Fits(r)
    BY <1>1, <1>2, <1>6 DEF AllFit, Typed
  <2>3. session'[Script].release \in Release /\ Fits(session[Script].release)
    BY <1>1, <1>2, <1>3
  <2>4. Fits(session[Script].release)'
    BY <1>3, <1>4, <2>3 DEF Fits
  <2> QED
    BY <2>1, <2>2, <2>4 DEF AllFit
<1>8. role' \in Nat /\ {image', api'.release, worker'.release} \subseteq Release \cup {0}
  BY <1>1, <1>2, <1>6 DEF SetRoles, Build, UpApi, database, Typed
<1> QED
  BY <1>1, <1>3, <1>4, <1>5, <1>7, <1>8, ScriptInv DEF Typed

(* ... recreating the worker, which ends a deployment,                      *)
LEMMA UpWorkerInv == DeploymentInv /\ UpWorker => DeploymentInv'
<1> SUFFICES ASSUME DeploymentInv, UpWorker PROVE DeploymentInv'
  OBVIOUS
<1> USE DEF DeploymentInv
<1>1. /\ session[Script].at = "up_worker" /\ worker' = Container
      /\ session' = [session EXCEPT ![Script] = [Idle EXCEPT !.at = "done"]]
      /\ UNCHANGED <<file, drawn, schema, stored, lock, role, image, api>>
  BY DEF UpWorker, At, database
<1>2. StepOf(Script) /\ session'[Script].at = "done"
  BY <1>1, StopMoves DEF Session
<1>3. PasswordOnItsWay'
  BY <1>1, <1>2 DEF Container, PasswordOnItsWay
<1>4. AllFit'
  BY <1>1, <1>2, FitsStays DEF Container, AllFit, Typed
<1> QED
  BY <1>1, <1>2, <1>3, <1>4, ScriptInv DEF Container, Typed

(* ... dying anywhere,                                                      *)
LEMMA CrashInv ==
  ASSUME DeploymentInv, NEW m \in Session, Crash(m) PROVE DeploymentInv'
<1> USE DEF DeploymentInv
<1>1. /\ session' = [session EXCEPT ![m] = Idle] /\ lock' = Unlocked(m)
      /\ UNCHANGED <<file, drawn, schema, stored, role, image, api, worker>>
  BY DEF Crash, services
<1>2. Idle \in Process /\ Idle.at = "idle"
  BY DEF Idle, Process, Step
<1>3. StepOf(m) /\ session'[m].at = "idle"
  BY <1>1, <1>2, Moved
<1>4. Sound(m)'
  BY <1>3 DEF Sound, InTransaction
<1>5. lock' \in {lock, None} /\ (lock' # lock => lock = m)
  BY <1>1 DEF Unlocked
<1>6. \A o \in Session : Sound(o)'
  BY <1>1, <1>3, <1>4, <1>5, OthersStaySound
<1>7. Typed' /\ InOrder'
  BY <1>1, <1>3 DEF Typed, InOrder, StepOf
<1>8. AllFit' /\ PasswordOnItsWay'
  <2>1. CASE m # Script
    BY <1>1, <1>3, <2>1, OthersLeaveTheScript, FitsStays DEF Session
  <2>2. CASE m = Script
    <3>1. PasswordOnItsWay'
      BY <1>3, <2>2 DEF PasswordOnItsWay
    <3>2. AllFit'
      BY <1>1, <1>3, <2>2, FitsStays DEF AllFit, Typed
    <3> QED
      BY <3>1, <3>2
  <2> QED
    BY <2>1, <2>2
<1> QED
  BY <1>6, <1>7, <1>8

(* ... starting a migrator,                                                 *)
LEMMA RunMigratorInv ==
  ASSUME DeploymentInv, NEW m \in Session, NEW r \in Release, RunMigrator(m, r)
  PROVE  DeploymentInv'
<1> USE DEF DeploymentInv
<1> DEFINE now == [Idle EXCEPT !.at = "migrate", !.release = r]
<1>1. now \in Process /\ now.at = "migrate" /\ now.release = r /\ now.ran = <<>>
  <2>1. Idle \in Process /\ r \in Nat /\ Idle.ran = <<>>
    BY DeploymentAssumption DEF Idle, Process, Step
  <2> QED
    BY <2>1 DEF Process, Step
<1> HIDE DEF now
<1>2. /\ session' = [session EXCEPT ![m] = now] /\ m # Script
      /\ UNCHANGED <<file, drawn, schema, stored, lock, role, services>>
  BY DeploymentAssumption DEF RunMigrator, now, database
<1>3. StepOf(m) /\ session'[m] = now
  BY <1>1, <1>2, Moved
<1>4. Sound(m)'
  BY <1>1, <1>3 DEF Sound, InTransaction
<1> QED
  BY <1>2, <1>3, <1>4, TransactionInv

(* ... and what goes on in the queue.                                       *)
LEMMA QueueInv ==
  ASSUME DeploymentInv, Submit \/ Claim \/ UNCHANGED deploymentVars
  PROVE  DeploymentInv'
<1>1. UNCHANGED <<file, drawn, schema, stored, lock, role, image, api, worker, session>>
  BY DEF Submit, Claim, deploymentVars, database, services
<1>2. Typed' /\ InOrder' /\ PasswordOnItsWay'
  BY <1>1 DEF DeploymentInv, Typed, InOrder, PasswordOnItsWay
<1>3. \A o \in Session : Sound(o)'
  BY <1>1 DEF DeploymentInv, Sound, InTransaction
<1>4. AllFit'
  BY <1>1 DEF DeploymentInv, AllFit, Fits
<1> QED
  BY <1>2, <1>3, <1>4 DEF DeploymentInv

(* Every step keeps the invariant.                                          *)
LEMMA NextInv == DeploymentInv /\ [DeploymentNext]_deploymentVars => DeploymentInv'
<1> SUFFICES ASSUME DeploymentInv, [DeploymentNext]_deploymentVars PROVE DeploymentInv'
  OBVIOUS
<1>1. ASSUME NEW m \in Session, MigrationStep(m) PROVE DeploymentInv'
  BY <1>1, LockInv, ReadAppliedInv, ApplyScriptInv, SeedInv DEF MigrationStep
<1>2. ASSUME NEW m \in Session, Crash(m) PROVE DeploymentInv'
  BY <1>2, CrashInv
<1>3. ASSUME NEW m \in Migrator, NEW r \in Release, RunMigrator(m, r) PROVE DeploymentInv'
  BY <1>3, RunMigratorInv DEF Session
<1>4. ASSUME NEW r \in Release, RunScript(r) PROVE DeploymentInv'
  BY <1>4, RunScriptInv
<1>5. CASE ScriptStep
  BY <1>5, OpenInv, WriteInv, DeployInv, UpWorkerInv DEF ScriptStep
<1>6. CASE Submit \/ Claim \/ UNCHANGED deploymentVars
  BY <1>6, QueueInv
<1> QED
  BY <1>1, <1>2, <1>3, <1>4, <1>5, <1>6 DEF DeploymentNext

(* The steps of DeploymentSpec, without its fairness.                       *)
THEOREM DeploymentInvariant == DeploymentSpec => []DeploymentInv
<1>1. DeploymentSpec => DeploymentInit /\ [][DeploymentNext]_deploymentVars
  BY PTL DEF DeploymentSpec
<1> QED
  BY <1>1, InitInv, NextInv, PTL

(* MigrationsRunOnce: with any number of migrating processes, each of which *)
(* may die at any step, the database holds the migrations 1 to n, each      *)
(* executed once and in order.                                              *)
THEOREM MigrationsAreSerial == DeploymentSpec => []MigrationsRunOnce
<1>1. DeploymentInv => MigrationsRunOnce
  BY DEF DeploymentInv, Typed, InOrder, MigrationsRunOnce
<1> QED
  BY <1>1, DeploymentInvariant, PTL

(* ServicesAgree: no container needs what the database lacks, and after a   *)
(* deployment that succeeded file, role and containers hold one password,   *)
(* wherever earlier runs of the script have died.                           *)
THEOREM DeploymentsAreConsistent == DeploymentSpec => []ServicesAgree
<1>1. DeploymentInv => ServicesFitTheDatabase
  BY DEF DeploymentInv, AllFit, Fits, ServicesFitTheDatabase
<1>2. DeploymentInv => CredentialsAgree
  BY DEF DeploymentInv, PasswordOnItsWay, CredentialsAgree, At
<1>3. DeploymentInv => ServicesAgree
  BY <1>1, <1>2 DEF ServicesAgree
<1> QED
  BY <1>3, DeploymentInvariant, PTL

(* ProfilesKeepTheirMeaning: no step takes a profile version away or gives  *)
(* it another definition.                                                   *)
ProfilesStay == \A p \in DOMAIN stored : p \in DOMAIN stored' /\ stored'[p] = stored[p]

(* No step changes a profile that is stored.                                *)
LEMMA ProfilesStep ==
  DeploymentInv /\ [DeploymentNext]_deploymentVars => [ProfilesStay]_deploymentVars
<1> SUFFICES ASSUME DeploymentInv, DeploymentNext PROVE ProfilesStay
  OBVIOUS
<1>1. ASSUME NEW m \in Session, Seed(m) PROVE ProfilesStay
  <2> DEFINE mine == Profiles[session[m].release]
  <2>1. CASE {p \in DOMAIN mine \cap DOMAIN stored : mine[p] # stored[p]} = {}
    <3>1. stored' = Seeded(mine)
      BY <1>1, <2>1 DEF Seed
    <3>2. \A p \in DOMAIN mine \cap DOMAIN stored : mine[p] = stored[p]
      BY <2>1
    <3> QED
      BY <3>1, <3>2, SeededKeeps DEF ProfilesStay
  <2>2. CASE {p \in DOMAIN mine \cap DOMAIN stored : mine[p] # stored[p]} # {}
    BY <1>1, <2>2 DEF Seed, ProfilesStay
  <2> QED
    BY <2>1, <2>2
<1>2. ASSUME \A m \in Session : ~Seed(m) PROVE ProfilesStay
  <2>1. UNCHANGED stored
    BY <1>2
    DEF DeploymentNext, MigrationStep, ScriptStep, Lock, ReadApplied, ApplyScript, Crash,
        RunMigrator, RunScript, OpenRuntimeFile, WriteRuntimeFile, SetRoles, Build, UpApi,
        UpWorker, Submit, Claim, database
  <2> QED
    BY <2>1 DEF ProfilesStay
<1> QED
  BY <1>1, <1>2

(* ProfilesKeepTheirMeaning: the definition of a profile version that       *)
(* estimates may refer to never changes, whatever releases are deployed     *)
(* over it.                                                                 *)
THEOREM ProfilesAreImmutable == DeploymentSpec => ProfilesKeepTheirMeaning
<1>1. DeploymentInv /\ [DeploymentNext]_deploymentVars
      => [\A p \in DOMAIN stored :
            p \in DOMAIN stored' /\ stored'[p] = stored[p]]_deploymentVars
  BY ProfilesStep DEF ProfilesStay
<1>2. DeploymentSpec => [][DeploymentNext]_deploymentVars
  BY PTL DEF DeploymentSpec
<1> QED
  BY <1>1, <1>2, DeploymentInvariant, PTL DEF ProfilesKeepTheirMeaning
=============================================================================
