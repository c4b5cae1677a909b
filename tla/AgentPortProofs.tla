--------------------------- MODULE AgentPortProofs ---------------------------
(***************************************************************************)
(* With the threads of one worker, on the dicts or on the table, wherever   *)
(* the worker dies: a question is answered at most once and after it was    *)
(* shown, and the port implements Confirmation.  For a pop of two           *)
(* statements this rests on the lock alone: until the DELETE nobody changes *)
(* the row that was read.                                                   *)
(***************************************************************************)
EXTENDS AgentPort, TLAPS

OneProcess == \A t, u \in Threads : ProcOf[t] = ProcOf[u]

\* Who acts on an id, or is about to show it, has one.
TakenInv ==
  \A t \in Threads : pc[t] \in {"answer", "result", "emit"} => taken[t] # 0

\* Between SELECT and DELETE a thread holds the lock, and what it read is
\* still there.
LockInv ==
  \A t \in Threads :
    /\ pc[t] \in {"delete_confirm", "delete_device"} => Shared /\ lock[ProcOf[t]] = t
    /\ pc[t] = "delete_confirm" => taken[t] = confirm[Db]
    /\ pc[t] = "delete_device" => taken[t] = device[Db]

\* A confirmation is at one place, or in the hands of one thread, or was run.
ConfirmInv ==
  /\ \A i \in Ids : ran[i] <= 1 /\ (ran[i] > 0 => i \in asked)
  /\ \A p \in Places : confirm[p] # 0 => confirm[p] \in asked /\ ran[confirm[p]] = 0
  /\ \A p, q \in Places : confirm[p] # 0 /\ confirm[p] = confirm[q] => p = q
  /\ \A t \in Threads : pc[t] = "answer" =>
       /\ taken[t] \in asked /\ ran[taken[t]] = 0
       /\ \A p \in Places : confirm[p] # taken[t]
       /\ \A u \in Threads : pc[u] = "answer" /\ taken[u] = taken[t] => u = t

\* The same of device requests and their results.
DeviceInv ==
  /\ \A i \in Ids : accepted[i] <= 1 /\ (accepted[i] > 0 => i \in requested)
  /\ \A p \in Places : device[p] # 0 => device[p] \in requested /\ accepted[device[p]] = 0
  /\ \A p, q \in Places : device[p] # 0 /\ device[p] = device[q] => p = q
  /\ \A t \in Threads : pc[t] = "result" =>
       /\ taken[t] \in requested /\ accepted[taken[t]] = 0
       /\ \A p \in Places : device[p] # taken[t]
       /\ \A u \in Threads : pc[u] = "result" /\ taken[u] = taken[t] => u = t

\* An input carries an id its client was shown, and no id for an approval
\* only from a client that takes one question at a time.
ShownInv ==
  /\ \A t \in Threads :
       /\ input[t].id \in shown \cup {0}
       /\ input[t].answer = "approve" /\ input[t].id = 0 => ~overlap
  /\ \A i \in Ids : (overlap /\ ran[i] > 0) \/ accepted[i] > 0 => i \in shown

PortInv == TypeOK /\ TakenInv /\ LockInv /\ ConfirmInv /\ DeviceInv /\ ShownInv

-----------------------------------------------------------------------------
(* Types                                                                    *)

\* Counting one more of an id leaves a count for each id.
LEMMA Counted ==
  ASSUME NEW f \in [Ids -> Nat], NEW i \in Ids
  PROVE  [f EXCEPT ![i] = f[i] + 1] \in [Ids -> Nat]
OBVIOUS

\* The port starts empty, with every variable in its type.
LEMMA InitType == Init => TypeOK /\ TakenInv
  BY PortAssumption DEF Init, TypeOK, TakenInv, NoInput, Inputs, Labels

\* Types and TakenInv are kept, whatever the deployment.
LEMMA TypeStep == TypeOK /\ TakenInv /\ [Next]_vars => TypeOK' /\ TakenInv'
<1> SUFFICES ASSUME TypeOK, TakenInv, [Next]_vars PROVE TypeOK' /\ TakenInv'
  OBVIOUS
<1> USE PortAssumption DEF TypeOK, TakenInv, Labels, Places, Goto, setup, ids, history
<1>a. ASSUME NEW t \in Threads PROVE PlaceOf(t) \in Places
  BY DEF PlaceOf
<1>b. NoInput \in Inputs
  BY DEF NoInput, Inputs
<1>1. ASSUME NEW t \in Threads, PopConfirmMemory(t) PROVE TypeOK' /\ TakenInv'
  BY <1>1, <1>a DEF PopConfirmMemory
<1>2. ASSUME NEW t \in Threads, SelectConfirm(t) PROVE TypeOK' /\ TakenInv'
  BY <1>2 DEF SelectConfirm
<1>3. ASSUME NEW t \in Threads, DeleteConfirm(t) PROVE TypeOK' /\ TakenInv'
  BY <1>3 DEF DeleteConfirm
<1>4. ASSUME NEW t \in Threads, PopDeviceMemory(t) PROVE TypeOK' /\ TakenInv'
  BY <1>4, <1>a DEF PopDeviceMemory
<1>5. ASSUME NEW t \in Threads, SelectDevice(t) PROVE TypeOK' /\ TakenInv'
  BY <1>5 DEF SelectDevice
<1>6. ASSUME NEW t \in Threads, DeleteDevice(t) PROVE TypeOK' /\ TakenInv'
  BY <1>6 DEF DeleteDevice
<1>c. ASSUME NEW t \in Threads, Finish(t)
      PROVE  /\ pc' \in [Threads -> Labels] /\ input' \in [Threads -> Inputs]
             /\ taken' \in [Threads -> Ids \cup {0}] /\ TakenInv'
  BY <1>b, <1>c DEF Finish
<1>d. ASSUME NEW t \in Threads, pc[t] \in {"answer", "result", "emit"}
      PROVE  taken[t] \in Ids
  BY <1>d
<1>7. ASSUME NEW t \in Threads, ConfirmAndRun(t) PROVE TypeOK' /\ TakenInv'
  <2>1. ran' \in [Ids -> Nat]
    BY <1>7, <1>d, Counted DEF ConfirmAndRun
  <2>2. QED
    BY <1>7, <1>c, <2>1 DEF ConfirmAndRun
<1>8. ASSUME NEW t \in Threads, AcceptDeviceResult(t) PROVE TypeOK' /\ TakenInv'
  <2>1. accepted' \in [Ids -> Nat]
    BY <1>8, <1>d, Counted DEF AcceptDeviceResult
  <2>2. QED
    BY <1>8, <1>c, <2>1 DEF AcceptDeviceResult
<1>9. ASSUME NEW t \in Threads,
             \/ ApprovalFails(t) \/ Deny(t) \/ RejectDeviceResult(t)
             \/ RejectInput(t) \/ CoreReplies(t)
      PROVE  TypeOK' /\ TakenInv'
  BY <1>9, <1>c DEF ApprovalFails, Deny, RejectDeviceResult, RejectInput,
                    CoreReplies
<1>10. ASSUME NEW t \in Threads, Emit(t) PROVE TypeOK' /\ TakenInv'
  <2>1. shown' \in SUBSET Ids
    BY <1>10, <1>d DEF Emit
  <2>2. QED
    BY <1>10, <1>c, <2>1 DEF Emit
<1>11. ASSUME NEW t \in Threads, NEW id \in Ids, PutConfirm(t, id)
       PROVE  TypeOK' /\ TakenInv'
  BY <1>11, <1>a DEF PutConfirm
<1>12. ASSUME NEW t \in Threads, NEW id \in Ids, PutDevice(t, id)
       PROVE  TypeOK' /\ TakenInv'
  BY <1>12, <1>a DEF PutDevice
<1>13. ASSUME NEW t \in Threads, NEW i \in Inputs, Receive(t, i)
       PROVE  TypeOK' /\ TakenInv'
  BY <1>13 DEF Receive
<1>14. ASSUME NEW p \in Procs, Crash(p) PROVE TypeOK' /\ TakenInv'
  BY <1>14, <1>b DEF Crash
<1>15. CASE UNCHANGED vars
  BY <1>15 DEF vars
<1>16. QED
  BY <1>1, <1>2, <1>3, <1>4, <1>5, <1>6, <1>7, <1>8, <1>9, <1>10, <1>11,
     <1>12, <1>13, <1>14, <1>15 DEF Next, Step

\* Every variable of the port keeps its type, with any number of workers.
THEOREM PortTypeCorrect == Spec => []TypeOK
<1>1. Spec => [](TypeOK /\ TakenInv)
  BY InitType, TypeStep, PTL DEF Spec
<1>2. QED
  BY <1>1, PTL

-----------------------------------------------------------------------------
(* The invariant with one worker                                            *)

\* The port starts with nothing asked, nothing held and the lock free.
LEMMA InitInv == Init => PortInv
<1> SUFFICES ASSUME Init PROVE PortInv
  OBVIOUS
<1>1. TypeOK /\ TakenInv
  BY InitType
<1>2. LockInv /\ ConfirmInv /\ DeviceInv /\ ShownInv
  BY PortAssumption DEF Init, LockInv, ConfirmInv, DeviceInv, ShownInv, NoInput
<1>3. QED
  BY <1>1, <1>2 DEF PortInv

\* While a thread is between SELECT and DELETE, nobody finds the lock free.
LEMMA Locked ==
  ASSUME OneProcess, TypeOK, LockInv, NEW t \in Threads, NEW u \in Threads,
         pc[t] \in {"delete_confirm", "delete_device"}
  PROVE  /\ Shared /\ ~LockFree(u)
         /\ pc[u] \in {"delete_confirm", "delete_device"} => u = t
BY PortAssumption DEF OneProcess, LockInv, LockFree, TypeOK

\* What others do about the lock and the tables leaves LockInv alone.
LEMMA LockFrame ==
  ASSUME TypeOK, LockInv, backend' = backend, NEW u \in Threads,
         \A t \in Threads \ {u} : pc'[t] = pc[t] /\ taken'[t] = taken[t],
         pc'[u] \notin {"delete_confirm", "delete_device"},
         \A t \in Threads \ {u} : pc[t] \in {"delete_confirm", "delete_device"} =>
           /\ lock'[ProcOf[t]] = lock[ProcOf[t]]
           /\ confirm'[Db] = confirm[Db] /\ device'[Db] = device[Db]
  PROVE  LockInv'
BY DEF LockInv, Shared

\* Every step keeps what the lock protects.
LEMMA LockStep ==
  ASSUME OneProcess, PortInv, [Next]_vars
  PROVE  LockInv'
<1> USE DEF PortInv, Goto, setup, ids, history
<1>t. /\ pc \in [Threads -> Labels] /\ taken \in [Threads -> Ids \cup {0}]
      /\ lock \in [Procs -> Threads \cup {NoThread}] /\ ProcOf \in [Threads -> Procs]
      /\ confirm \in [Places -> Ids \cup {0}] /\ device \in [Places -> Ids \cup {0}]
  BY PortAssumption DEF TypeOK
<1>d. Db \in Places
  BY DEF Places
<1>1. ASSUME NEW t \in Threads, PopConfirmMemory(t) PROVE LockInv'
  <2>1. \A u \in Threads : pc[u] \notin {"delete_confirm", "delete_device"}
    BY <1>1 DEF PopConfirmMemory, LockInv
  <2>2. QED
    BY <1>1, <1>t, <2>1, LockFrame DEF PopConfirmMemory
<1>2. ASSUME NEW t \in Threads, SelectConfirm(t) PROVE LockInv'
  <2>1. \A u \in Threads : pc[u] \notin {"delete_confirm", "delete_device"}
    BY <1>2, Locked DEF SelectConfirm
  <2>2. QED
    BY <1>2, <1>t, <2>1 DEF SelectConfirm, LockInv, Shared
<1>3. ASSUME NEW t \in Threads, DeleteConfirm(t) PROVE LockInv'
  <2>1. \A u \in Threads \ {t} : pc[u] \notin {"delete_confirm", "delete_device"}
    BY <1>3, Locked DEF DeleteConfirm
  <2>2. QED
    BY <1>3, <1>t, <2>1, LockFrame DEF DeleteConfirm
<1>4. ASSUME NEW t \in Threads, PopDeviceMemory(t) PROVE LockInv'
  <2>1. \A u \in Threads : pc[u] \notin {"delete_confirm", "delete_device"}
    BY <1>4 DEF PopDeviceMemory, LockInv
  <2>2. QED
    BY <1>4, <1>t, <2>1, LockFrame DEF PopDeviceMemory
<1>5. ASSUME NEW t \in Threads, SelectDevice(t) PROVE LockInv'
  <2>1. \A u \in Threads : pc[u] \notin {"delete_confirm", "delete_device"}
    BY <1>5, Locked DEF SelectDevice
  <2>2. QED
    BY <1>5, <1>t, <2>1 DEF SelectDevice, LockInv, Shared
<1>6. ASSUME NEW t \in Threads, DeleteDevice(t) PROVE LockInv'
  <2>1. \A u \in Threads \ {t} : pc[u] \notin {"delete_confirm", "delete_device"}
    BY <1>6, Locked DEF DeleteDevice
  <2>2. QED
    BY <1>6, <1>t, <2>1, LockFrame DEF DeleteDevice
<1>7. ASSUME NEW t \in Threads, Finish(t), UNCHANGED <<backend, confirm, device, lock>>
      PROVE  LockInv'
  BY <1>7, <1>t, LockFrame DEF Finish
<1>8. ASSUME NEW t \in Threads, NEW id \in Ids, PutConfirm(t, id) PROVE LockInv'
  <2>1. \A u \in Threads : pc[u] \notin {"delete_confirm", "delete_device"}
    BY <1>8, Locked DEF PutConfirm
  <2>2. QED
    BY <1>8, <1>t, <2>1, LockFrame DEF PutConfirm
<1>9. ASSUME NEW t \in Threads, NEW id \in Ids, PutDevice(t, id) PROVE LockInv'
  <2>1. \A u \in Threads : pc[u] \notin {"delete_confirm", "delete_device"}
    BY <1>9, Locked DEF PutDevice
  <2>2. QED
    BY <1>9, <1>t, <2>1, LockFrame DEF PutDevice
<1>10. ASSUME NEW t \in Threads, NEW i \in Inputs, Receive(t, i) PROVE LockInv'
  BY <1>10, <1>t, LockFrame DEF Receive
<1>11. ASSUME NEW p \in Procs, Crash(p) PROVE LockInv'
  BY <1>11 DEF Crash, OneProcess, LockInv
<1>12. CASE UNCHANGED vars
  BY <1>12 DEF vars, LockInv, Shared
<1>13. ASSUME NEW t \in Threads, Step(t) PROVE LockInv'
  BY <1>13, <1>1, <1>2, <1>3, <1>4, <1>5, <1>6, <1>7, <1>8, <1>9
     DEF Step, ConfirmAndRun, ApprovalFails, Deny, AcceptDeviceResult,
         RejectDeviceResult, RejectInput, CoreReplies, Emit
<1>14. QED
  BY <1>10, <1>11, <1>12, <1>13 DEF Next

\* Steps that ask nothing, run nothing and put nothing into a thread's hands.
LEMMA ConfirmFrame ==
  ASSUME TypeOK, ConfirmInv, UNCHANGED <<asked, ran>>,
         \A p \in Places : confirm'[p] \in {confirm[p], 0},
         \A t \in Threads : pc'[t] = "answer" => pc[t] = "answer" /\ taken'[t] = taken[t]
  PROVE  ConfirmInv'
<1>1. \A i \in Ids : ran'[i] > 0 => i \in asked'
  BY DEF ConfirmInv
<1>2. \A p \in Places : confirm'[p] # 0 => confirm'[p] = confirm[p]
  OBVIOUS
<1>3. \A p \in Places : confirm'[p] # 0 => confirm'[p] \in asked' /\ ran'[confirm'[p]] = 0
  BY <1>2 DEF ConfirmInv
<1>4. \A p, q \in Places : confirm'[p] # 0 /\ confirm'[p] = confirm'[q] => p = q
  BY <1>2 DEF ConfirmInv
<1>5. ASSUME NEW t \in Threads, pc'[t] = "answer"
      PROVE  /\ taken'[t] \in asked' /\ ran'[taken'[t]] = 0
             /\ \A p \in Places : confirm'[p] # taken'[t]
             /\ \A u \in Threads : pc'[u] = "answer" /\ taken'[u] = taken'[t] => u = t
  <2>1. pc[t] = "answer" /\ taken'[t] = taken[t] /\ taken[t] # 0
    BY <1>5, PortAssumption DEF ConfirmInv, TypeOK
  <2>2. \A p \in Places : confirm'[p] # taken'[t]
    BY <1>2, <2>1 DEF ConfirmInv
  <2>3. QED
    BY <2>1, <2>2 DEF ConfirmInv
<1>6. QED
  BY <1>1, <1>3, <1>4, <1>5 DEF ConfirmInv

\* A pop hands what waits at a place to its thread.
LEMMA ConfirmTaken ==
  ASSUME TypeOK, TypeOK', ConfirmInv, UNCHANGED <<asked, ran>>,
         NEW p \in Places, NEW t \in Threads,
         confirm' = [confirm EXCEPT ![p] = 0],
         taken'[t] = confirm[p], pc'[t] = "answer" => confirm[p] # 0,
         \A u \in Threads \ {t} : pc'[u] = pc[u] /\ taken'[u] = taken[u]
  PROVE  ConfirmInv'
<1>1. /\ confirm \in [Places -> Ids \cup {0}]
      /\ \A q \in Places : confirm'[q] = IF q = p THEN 0 ELSE confirm[q]
  BY DEF TypeOK
<1>2. \A q \in Places : confirm'[q] # 0 => q # p /\ confirm'[q] = confirm[q]
  BY <1>1
<1>3. ASSUME NEW u \in Threads, pc'[u] = "answer"
      PROVE  /\ taken'[u] \in asked' /\ ran'[taken'[u]] = 0
             /\ \A q \in Places : confirm'[q] # taken'[u]
             /\ \A w \in Threads : pc'[w] = "answer" /\ taken'[w] = taken'[u] => w = u
  <2>1. CASE u = t
    <3>1. confirm[p] # 0 /\ taken'[t] = confirm[p] /\ asked' = asked /\ ran' = ran
      BY <1>3, <2>1
    <3>2. confirm[p] \in asked /\ ran[confirm[p]] = 0
      BY <3>1 DEF ConfirmInv
    <3>3. \A q \in Places : confirm'[q] # confirm[p]
      BY <1>1, <3>1 DEF ConfirmInv
    <3>4. ASSUME NEW w \in Threads, pc'[w] = "answer", taken'[w] = confirm[p], w # t
          PROVE  FALSE
      BY <3>4 DEF ConfirmInv
    <3>5. QED
      BY <2>1, <3>1, <3>2, <3>3, <3>4
  <2>2. CASE u # t
    <3>1. pc[u] = "answer" /\ taken'[u] = taken[u]
      BY <1>3, <2>2
    <3>2. /\ taken[u] \in asked /\ taken[u] # 0 /\ ran[taken[u]] = 0
          /\ \A q \in Places : confirm[q] # taken[u]
      BY <3>1, PortAssumption DEF ConfirmInv, TypeOK
    <3>3. \A q \in Places : confirm'[q] # taken[u]
      BY <1>2, <3>2
    <3>4. \A w \in Threads \ {t} : pc'[w] = "answer" /\ taken'[w] = taken[u] => w = u
      BY <3>1 DEF ConfirmInv
    <3>5. taken'[t] # taken[u]
      BY <3>2
    <3>6. QED
      BY <3>1, <3>2, <3>3, <3>4, <3>5
  <2>3. QED
    BY <2>1, <2>2
<1>4. QED
  BY <1>2, <1>3 DEF ConfirmInv

\* Every step keeps a confirmation in one place or one hand.
LEMMA ConfirmStep ==
  ASSUME PortInv, TypeOK', [Next]_vars
  PROVE  ConfirmInv'
<1> USE DEF PortInv, Goto, setup, ids, history
<1>t. /\ pc \in [Threads -> Labels] /\ taken \in [Threads -> Ids \cup {0}]
      /\ confirm \in [Places -> Ids \cup {0}] /\ ran \in [Ids -> Nat]
      /\ asked \in SUBSET Ids /\ 0 \notin Ids
  BY PortAssumption DEF TypeOK
<1>p. ASSUME NEW t \in Threads PROVE PlaceOf(t) \in Places
  BY PortAssumption DEF PlaceOf, Places
<1>1. ASSUME NEW t \in Threads, PopConfirmMemory(t) PROVE ConfirmInv'
  BY <1>1, <1>t, <1>p, ConfirmTaken DEF PopConfirmMemory
<1>2. ASSUME NEW t \in Threads, DeleteConfirm(t) PROVE ConfirmInv'
  <2>1. taken'[t] = confirm[Db] /\ Db \in Places
    BY <1>2 DEF DeleteConfirm, LockInv, Places
  <2>2. QED
    BY <1>2, <1>t, <2>1, ConfirmTaken DEF DeleteConfirm
<1>3. ASSUME NEW t \in Threads, ConfirmAndRun(t) PROVE ConfirmInv'
  <2>1. /\ ran' = [ran EXCEPT ![taken[t]] = ran[taken[t]] + 1]
        /\ UNCHANGED <<confirm, asked>> /\ pc[t] = "answer"
        /\ \A u \in Threads : pc'[u] = "answer" =>
             u # t /\ pc[u] = "answer" /\ taken'[u] = taken[u]
    BY <1>3, <1>t DEF ConfirmAndRun, Finish
  <2>2. taken[t] \in asked /\ taken[t] \in Ids
    BY <1>t, <2>1 DEF ConfirmInv
  <2>3. \A i \in Ids : i # taken[t] => ran'[i] = ran[i]
    BY <1>t, <2>1
  <2>4. QED
    BY <1>t, <2>1, <2>2, <2>3 DEF ConfirmInv
<1>4. ASSUME NEW t \in Threads, NEW id \in Ids, PutConfirm(t, id) PROVE ConfirmInv'
  <2>1. /\ asked' = asked \cup {id} /\ id \notin asked /\ ran' = ran
        /\ confirm' = [confirm EXCEPT ![PlaceOf(t)] = id]
        /\ \A u \in Threads : pc'[u] = "answer" =>
             u # t /\ pc[u] = "answer" /\ taken'[u] = taken[u]
    BY <1>4, <1>t DEF PutConfirm
  <2>2. ran[id] = 0
    BY <1>t, <2>1 DEF ConfirmInv
  <2>3. \A p \in Places : confirm'[p] \in {confirm[p], id}
                          /\ (confirm'[p] = id => p = PlaceOf(t))
    BY <1>t, <1>p, <2>1 DEF ConfirmInv
  <2>4. QED
    BY <1>t, <2>1, <2>2, <2>3 DEF ConfirmInv
<1>5. ASSUME NEW p \in Procs, Crash(p) PROVE ConfirmInv'
  BY <1>5, <1>t, ConfirmFrame DEF Crash
<1>6. CASE UNCHANGED vars
  BY <1>6, ConfirmFrame DEF vars
<1>7. ASSUME NEW t \in Threads, NEW i \in Inputs, Receive(t, i) PROVE ConfirmInv'
  BY <1>7, <1>t, ConfirmFrame DEF Receive
<1>8. ASSUME NEW t \in Threads, UNCHANGED <<confirm, asked, ran>>,
             \/ SelectConfirm(t) \/ PopDeviceMemory(t) \/ SelectDevice(t)
             \/ DeleteDevice(t) \/ Finish(t)
             \/ \E id \in Ids : PutDevice(t, id)
      PROVE  ConfirmInv'
  <2>1. \A u \in Threads : pc'[u] = "answer" => pc[u] = "answer" /\ taken'[u] = taken[u]
    BY <1>8, <1>t DEF SelectConfirm, PopDeviceMemory, SelectDevice, DeleteDevice,
                      Finish, PutDevice
  <2>2. QED
    BY <1>8, <2>1, ConfirmFrame
<1>9. ASSUME NEW t \in Threads, Step(t) PROVE ConfirmInv'
  <2>1. CASE \/ SelectConfirm(t) \/ PopDeviceMemory(t) \/ SelectDevice(t)
             \/ DeleteDevice(t) \/ \E id \in Ids : PutDevice(t, id)
    BY <2>1, <1>8 DEF SelectConfirm, PopDeviceMemory, SelectDevice, DeleteDevice,
                      PutDevice
  <2>2. CASE \/ ApprovalFails(t) \/ Deny(t) \/ AcceptDeviceResult(t)
             \/ RejectDeviceResult(t) \/ RejectInput(t) \/ CoreReplies(t) \/ Emit(t)
    BY <2>2, <1>8 DEF ApprovalFails, Deny, AcceptDeviceResult,
                      RejectDeviceResult, RejectInput, CoreReplies, Emit
  <2>3. QED
    BY <1>1, <1>2, <1>3, <1>4, <1>9, <2>1, <2>2 DEF Step
<1>10. QED
  BY <1>5, <1>6, <1>7, <1>9 DEF Next


\* The same for the device requests.
LEMMA DeviceFrame ==
  ASSUME TypeOK, DeviceInv, UNCHANGED <<requested, accepted>>,
         \A p \in Places : device'[p] \in {device[p], 0},
         \A t \in Threads : pc'[t] = "result" => pc[t] = "result" /\ taken'[t] = taken[t]
  PROVE  DeviceInv'
<1>1. \A i \in Ids : accepted'[i] <= 1 /\ (accepted'[i] > 0 => i \in requested')
  BY DEF DeviceInv
<1>2. \A p \in Places : device'[p] # 0 => device'[p] = device[p]
  OBVIOUS
<1>3. \A p \in Places : device'[p] # 0 => device'[p] \in requested' /\ accepted'[device'[p]] = 0
  BY <1>2 DEF DeviceInv
<1>4. \A p, q \in Places : device'[p] # 0 /\ device'[p] = device'[q] => p = q
  BY <1>2 DEF DeviceInv
<1>5. ASSUME NEW t \in Threads, pc'[t] = "result"
      PROVE  /\ taken'[t] \in requested' /\ accepted'[taken'[t]] = 0
             /\ \A p \in Places : device'[p] # taken'[t]
             /\ \A u \in Threads : pc'[u] = "result" /\ taken'[u] = taken'[t] => u = t
  <2>1. pc[t] = "result" /\ taken'[t] = taken[t] /\ taken[t] # 0
    BY <1>5, PortAssumption DEF DeviceInv, TypeOK
  <2>2. \A p \in Places : device'[p] # taken'[t]
    BY <1>2, <2>1 DEF DeviceInv
  <2>3. QED
    BY <2>1, <2>2 DEF DeviceInv
<1>6. QED
  BY <1>1, <1>3, <1>4, <1>5 DEF DeviceInv

\* A pop hands what waits at a place to its thread.
LEMMA DeviceTaken ==
  ASSUME TypeOK, TypeOK', DeviceInv, UNCHANGED <<requested, accepted>>,
         NEW p \in Places, NEW t \in Threads,
         device' = [device EXCEPT ![p] = 0],
         taken'[t] = device[p], pc'[t] = "result" => device[p] # 0,
         \A u \in Threads \ {t} : pc'[u] = pc[u] /\ taken'[u] = taken[u]
  PROVE  DeviceInv'
<1>1. /\ device \in [Places -> Ids \cup {0}]
      /\ \A q \in Places : device'[q] = IF q = p THEN 0 ELSE device[q]
  BY DEF TypeOK
<1>2. \A q \in Places : device'[q] # 0 => q # p /\ device'[q] = device[q]
  BY <1>1
<1>3. ASSUME NEW u \in Threads, pc'[u] = "result"
      PROVE  /\ taken'[u] \in requested' /\ accepted'[taken'[u]] = 0
             /\ \A q \in Places : device'[q] # taken'[u]
             /\ \A w \in Threads : pc'[w] = "result" /\ taken'[w] = taken'[u] => w = u
  <2>1. CASE u = t
    <3>1. device[p] # 0 /\ taken'[t] = device[p] /\ requested' = requested /\ accepted' = accepted
      BY <1>3, <2>1
    <3>2. device[p] \in requested /\ accepted[device[p]] = 0
      BY <3>1 DEF DeviceInv
    <3>3. \A q \in Places : device'[q] # device[p]
      BY <1>1, <3>1 DEF DeviceInv
    <3>4. ASSUME NEW w \in Threads, pc'[w] = "result", taken'[w] = device[p], w # t
          PROVE  FALSE
      BY <3>4 DEF DeviceInv
    <3>5. QED
      BY <2>1, <3>1, <3>2, <3>3, <3>4
  <2>2. CASE u # t
    <3>1. pc[u] = "result" /\ taken'[u] = taken[u]
      BY <1>3, <2>2
    <3>2. /\ taken[u] \in requested /\ taken[u] # 0 /\ accepted[taken[u]] = 0
          /\ \A q \in Places : device[q] # taken[u]
      BY <3>1, PortAssumption DEF DeviceInv, TypeOK
    <3>3. \A q \in Places : device'[q] # taken[u]
      BY <1>2, <3>2
    <3>4. \A w \in Threads \ {t} : pc'[w] = "result" /\ taken'[w] = taken[u] => w = u
      BY <3>1 DEF DeviceInv
    <3>5. taken'[t] # taken[u]
      BY <3>2
    <3>6. QED
      BY <3>1, <3>2, <3>3, <3>4, <3>5
  <2>3. QED
    BY <2>1, <2>2
<1>4. QED
  BY <1>2, <1>3 DEF DeviceInv

\* Every step keeps a device request in one place or one hand.
LEMMA DeviceStep ==
  ASSUME PortInv, TypeOK', [Next]_vars
  PROVE  DeviceInv'
<1> USE DEF PortInv, Goto, setup, ids, history
<1>t. /\ pc \in [Threads -> Labels] /\ taken \in [Threads -> Ids \cup {0}]
      /\ device \in [Places -> Ids \cup {0}] /\ accepted \in [Ids -> Nat]
      /\ requested \in SUBSET Ids /\ 0 \notin Ids
  BY PortAssumption DEF TypeOK
<1>p. ASSUME NEW t \in Threads PROVE PlaceOf(t) \in Places
  BY PortAssumption DEF PlaceOf, Places
<1>1. ASSUME NEW t \in Threads, PopDeviceMemory(t) PROVE DeviceInv'
  BY <1>1, <1>t, <1>p, DeviceTaken DEF PopDeviceMemory
<1>2. ASSUME NEW t \in Threads, DeleteDevice(t) PROVE DeviceInv'
  <2>1. taken'[t] = device[Db] /\ Db \in Places
    BY <1>2 DEF DeleteDevice, LockInv, Places
  <2>2. QED
    BY <1>2, <1>t, <2>1, DeviceTaken DEF DeleteDevice
<1>3. ASSUME NEW t \in Threads, AcceptDeviceResult(t) PROVE DeviceInv'
  <2>1. /\ accepted' = [accepted EXCEPT ![taken[t]] = accepted[taken[t]] + 1]
        /\ UNCHANGED <<device, requested>> /\ pc[t] = "result"
        /\ \A u \in Threads : pc'[u] = "result" =>
             u # t /\ pc[u] = "result" /\ taken'[u] = taken[u]
    BY <1>3, <1>t DEF AcceptDeviceResult, Finish
  <2>2. taken[t] \in requested /\ taken[t] \in Ids /\ accepted[taken[t]] = 0
    BY <1>t, <2>1 DEF DeviceInv
  <2>3. /\ accepted'[taken[t]] = 1
        /\ \A i \in Ids : i # taken[t] => accepted'[i] = accepted[i]
    BY <1>t, <2>1, <2>2
  <2>4. QED
    BY <1>t, <2>1, <2>2, <2>3 DEF DeviceInv
<1>4. ASSUME NEW t \in Threads, NEW id \in Ids, PutDevice(t, id) PROVE DeviceInv'
  <2>1. /\ requested' = requested \cup {id} /\ id \notin requested /\ accepted' = accepted
        /\ device' = [device EXCEPT ![PlaceOf(t)] = id]
        /\ \A u \in Threads : pc'[u] = "result" =>
             u # t /\ pc[u] = "result" /\ taken'[u] = taken[u]
    BY <1>4, <1>t DEF PutDevice
  <2>2. accepted[id] = 0
    BY <1>t, <2>1 DEF DeviceInv
  <2>3. \A p \in Places : device'[p] \in {device[p], id}
                          /\ (device'[p] = id => p = PlaceOf(t))
    BY <1>t, <1>p, <2>1 DEF DeviceInv
  <2>4. QED
    BY <1>t, <2>1, <2>2, <2>3 DEF DeviceInv
<1>5. ASSUME NEW p \in Procs, Crash(p) PROVE DeviceInv'
  BY <1>5, <1>t, DeviceFrame DEF Crash
<1>6. CASE UNCHANGED vars
  BY <1>6, DeviceFrame DEF vars
<1>7. ASSUME NEW t \in Threads, NEW i \in Inputs, Receive(t, i) PROVE DeviceInv'
  BY <1>7, <1>t, DeviceFrame DEF Receive
<1>8. ASSUME NEW t \in Threads, UNCHANGED <<device, requested, accepted>>,
             \/ SelectDevice(t) \/ PopConfirmMemory(t) \/ SelectConfirm(t)
             \/ DeleteConfirm(t) \/ Finish(t)
             \/ \E id \in Ids : PutConfirm(t, id)
      PROVE  DeviceInv'
  <2>1. \A u \in Threads : pc'[u] = "result" => pc[u] = "result" /\ taken'[u] = taken[u]
    BY <1>8, <1>t DEF SelectDevice, PopConfirmMemory, SelectConfirm, DeleteConfirm,
                      Finish, PutConfirm
  <2>2. QED
    BY <1>8, <2>1, DeviceFrame
<1>9. ASSUME NEW t \in Threads, Step(t) PROVE DeviceInv'
  <2>1. CASE \/ SelectDevice(t) \/ PopConfirmMemory(t) \/ SelectConfirm(t)
             \/ DeleteConfirm(t) \/ \E id \in Ids : PutConfirm(t, id)
    BY <2>1, <1>8 DEF SelectDevice, PopConfirmMemory, SelectConfirm, DeleteConfirm,
                      PutConfirm
  <2>2. CASE \/ ApprovalFails(t) \/ Deny(t) \/ ConfirmAndRun(t)
             \/ RejectDeviceResult(t) \/ RejectInput(t) \/ CoreReplies(t) \/ Emit(t)
    BY <2>2, <1>8 DEF ApprovalFails, Deny, ConfirmAndRun,
                      RejectDeviceResult, RejectInput, CoreReplies, Emit
  <2>3. QED
    BY <1>1, <1>2, <1>3, <1>4, <1>9, <2>1, <2>2 DEF Step
<1>10. QED
  BY <1>5, <1>6, <1>7, <1>9 DEF Next

\* Steps that show nothing less and count nothing.
LEMMA ShownFrame ==
  ASSUME TypeOK, ShownInv, UNCHANGED <<overlap, ran, accepted>>,
         shown \subseteq shown',
         \A t \in Threads : input'[t] \in {input[t], NoInput}
  PROVE  ShownInv'
BY DEF ShownInv, NoInput

\* Every step answers only what was shown.
LEMMA ShownStep ==
  ASSUME PortInv, [Next]_vars
  PROVE  ShownInv'
<1> USE DEF PortInv, Goto, setup, ids, history
<1>t. /\ input \in [Threads -> Inputs] /\ taken \in [Threads -> Ids \cup {0}]
      /\ ran \in [Ids -> Nat] /\ accepted \in [Ids -> Nat]
  BY DEF TypeOK
<1>1. ASSUME NEW t \in Threads, NEW i \in Inputs, Receive(t, i) PROVE ShownInv'
  BY <1>1, <1>t DEF Receive, Sendable, ShownInv
<1>2. ASSUME NEW t \in Threads, ConfirmAndRun(t) PROVE ShownInv'
  <2>1. overlap => taken[t] \in shown
    BY <1>2 DEF ConfirmAndRun, Approves, ShownInv, TakenInv
  <2>2. \A i \in Ids : i # taken[t] => ran'[i] = ran[i]
    BY <1>2, <1>t DEF ConfirmAndRun
  <2>3. \A u \in Threads : input'[u] \in {input[u], NoInput}
    BY <1>2, <1>t DEF ConfirmAndRun, Finish
  <2>4. UNCHANGED <<overlap, shown, accepted>>
    BY <1>2 DEF ConfirmAndRun
  <2>5. QED
    BY <2>1, <2>2, <2>3, <2>4 DEF ShownInv, NoInput
<1>3. ASSUME NEW t \in Threads, AcceptDeviceResult(t) PROVE ShownInv'
  <2>1. taken[t] \in shown
    BY <1>3 DEF AcceptDeviceResult, ShownInv, TakenInv
  <2>2. \A i \in Ids : i # taken[t] => accepted'[i] = accepted[i]
    BY <1>3, <1>t DEF AcceptDeviceResult
  <2>3. \A u \in Threads : input'[u] \in {input[u], NoInput}
    BY <1>3, <1>t DEF AcceptDeviceResult, Finish
  <2>4. UNCHANGED <<overlap, shown, ran>>
    BY <1>3 DEF AcceptDeviceResult
  <2>5. QED
    BY <2>1, <2>2, <2>3, <2>4 DEF ShownInv, NoInput
<1>4. ASSUME NEW p \in Procs, Crash(p) PROVE ShownInv'
  BY <1>4, <1>t, ShownFrame DEF Crash
<1>5. CASE UNCHANGED vars
  BY <1>5, ShownFrame DEF vars
<1>6. ASSUME NEW t \in Threads, Finish(t), UNCHANGED <<overlap, ran, accepted>>,
             shown \subseteq shown'
      PROVE  ShownInv'
  BY <1>6, <1>t, ShownFrame DEF Finish
<1>7. ASSUME NEW t \in Threads, Step(t) PROVE ShownInv'
  <2>1. CASE \/ PopConfirmMemory(t) \/ SelectConfirm(t) \/ DeleteConfirm(t)
             \/ PopDeviceMemory(t) \/ SelectDevice(t) \/ DeleteDevice(t)
             \/ \E id \in Ids : PutConfirm(t, id) \/ PutDevice(t, id)
    BY <2>1, ShownFrame DEF PopConfirmMemory, SelectConfirm, DeleteConfirm,
       PopDeviceMemory, SelectDevice, DeleteDevice, PutConfirm, PutDevice
  <2>2. CASE \/ ApprovalFails(t) \/ Deny(t) \/ RejectDeviceResult(t)
             \/ RejectInput(t) \/ CoreReplies(t) \/ Emit(t)
    BY <2>2, <1>6 DEF ApprovalFails, Deny, RejectDeviceResult, RejectInput,
                      CoreReplies, Emit
  <2>3. QED
    BY <1>2, <1>3, <1>7, <2>1, <2>2 DEF Step
<1>8. QED
  BY <1>1, <1>4, <1>5, <1>7 DEF Next

\* Every step of one worker keeps the invariant.
LEMMA InvStep ==
  ASSUME OneProcess, PortInv, [Next]_vars
  PROVE  PortInv'
<1>1. TypeOK' /\ TakenInv'
  BY TypeStep DEF PortInv
<1>2. QED
  BY <1>1, LockStep, ConfirmStep, DeviceStep, ShownStep DEF PortInv

\* The invariant holds in every state of a deployment with one worker.
THEOREM Invariance == ASSUME OneProcess PROVE Spec => []PortInv
<1>1. PortInv /\ [Next]_vars => PortInv'
  BY InvStep
<1>2. QED
  BY InitInv, <1>1, PTL DEF Spec

\* In a deployment with one worker no answer is taken twice, and none before
\* its question reached a client.
THEOREM AnsweredOnceShown == ASSUME OneProcess PROVE Spec => []ShownBeforeAnswered
<1>1. PortInv => ShownBeforeAnswered
  BY DEF PortInv, ShownInv, DeviceInv, ShownBeforeAnswered
<1>2. QED
  BY Invariance, <1>1, PTL

\* In a deployment with one worker, on either store, one confirmation runs its
\* tool at most once: what two workers on the shared table break.
THEOREM ApprovalsRunOnce == ASSUME OneProcess PROVE Spec => []ApprovedAtMostOnce
<1>1. PortInv => ApprovedAtMostOnce
  BY DEF PortInv, ConfirmInv, ApprovedAtMostOnce
<1>2. QED
  BY Invariance, <1>1, PTL

-----------------------------------------------------------------------------
(* One question at a time                                                   *)

\* A client that waits for its answer has one thread at work, whatever the
\* workers; past a pop that found nothing, nothing waits where it looked.
AloneInv ==
  /\ \A t \in Threads : pc[t] \in {"delete_confirm", "delete_device"} => Shared
  /\ ~overlap =>
       /\ \A t, u \in Threads : pc[t] # "idle" /\ pc[u] # "idle" => t = u
       /\ \A t \in Threads :
            /\ pc[t] = "delete_confirm" => taken[t] = confirm[Db]
            /\ pc[t] = "delete_device" => taken[t] = device[Db]
            /\ pc[t] \in {"pop_device", "delete_device", "message"} =>
                 confirm[PlaceOf(t)] = 0
            /\ pc[t] = "message" => device[PlaceOf(t)] = 0

\* A step of a thread keeps AloneInv if it leaves the others where they were
\* and the thread's own facts hold after it.
LEMMA AloneFrame ==
  ASSUME TypeOK, AloneInv, NEW t \in Threads, pc[t] # "idle", UNCHANGED setup,
         \A u \in Threads \ {t} : pc'[u] = pc[u] /\ taken'[u] = taken[u],
         pc'[t] \in {"delete_confirm", "delete_device"} => Shared,
         pc'[t] = "delete_confirm" => taken'[t] = confirm'[Db],
         pc'[t] = "delete_device" => taken'[t] = device'[Db],
         ~overlap /\ pc'[t] \in {"pop_device", "delete_device", "message"} =>
           confirm'[PlaceOf(t)] = 0,
         ~overlap /\ pc'[t] = "message" => device'[PlaceOf(t)] = 0
  PROVE  AloneInv'
<1>1. Shared' = Shared /\ overlap' = overlap /\ \A u \in Threads : PlaceOf(u)' = PlaceOf(u)
  BY DEF setup, Shared, PlaceOf
<1>2. ~overlap => \A u \in Threads \ {t} : pc[u] = "idle" /\ pc'[u] = "idle"
  BY DEF AloneInv
<1>3. \A u \in Threads : pc'[u] \in {"delete_confirm", "delete_device"} => Shared'
  BY <1>1 DEF AloneInv
<1>4. ASSUME ~overlap'
      PROVE  /\ \A v, u \in Threads : pc'[v] # "idle" /\ pc'[u] # "idle" => v = u
             /\ \A u \in Threads :
                  /\ pc'[u] = "delete_confirm" => taken'[u] = confirm'[Db]
                  /\ pc'[u] = "delete_device" => taken'[u] = device'[Db]
                  /\ pc'[u] \in {"pop_device", "delete_device", "message"} =>
                       confirm'[PlaceOf(u)'] = 0
                  /\ pc'[u] = "message" => device'[PlaceOf(u)'] = 0
  BY <1>1, <1>2, <1>4
<1>5. QED
  BY <1>3, <1>4 DEF AloneInv

\* Every step keeps AloneInv, with any number of workers.
LEMMA AloneStep == ASSUME TypeOK, AloneInv, [Next]_vars PROVE AloneInv'
<1> USE DEF Goto
<1>a. ASSUME NEW t \in Threads PROVE PlaceOf(t) \in Places
  BY <1>a, PortAssumption DEF PlaceOf, Places
<1>f. ASSUME NEW t \in Threads, pc[t] # "idle", Finish(t), UNCHANGED setup PROVE AloneInv'
  BY <1>f, AloneFrame DEF Finish, TypeOK
<1>1. ASSUME NEW t \in Threads, PopConfirmMemory(t) PROVE AloneInv'
  <2>1. /\ UNCHANGED setup /\ pc[t] # "idle" /\ confirm'[PlaceOf(t)] = 0
        /\ pc'[t] \in {"answer", "pop_device"}
        /\ \A u \in Threads \ {t} : pc'[u] = pc[u] /\ taken'[u] = taken[u]
    BY <1>1, <1>a DEF PopConfirmMemory, TypeOK
  <2>2. QED
    BY <2>1, AloneFrame
<1>2. ASSUME NEW t \in Threads, SelectConfirm(t) PROVE AloneInv'
  <2>1. /\ UNCHANGED setup /\ pc[t] # "idle" /\ Shared
        /\ pc'[t] = "delete_confirm" /\ taken'[t] = confirm'[Db]
        /\ \A u \in Threads \ {t} : pc'[u] = pc[u] /\ taken'[u] = taken[u]
    BY <1>2 DEF SelectConfirm, TypeOK
  <2>2. QED
    BY <2>1, AloneFrame
<1>3. ASSUME NEW t \in Threads, DeleteConfirm(t) PROVE AloneInv'
  <2>1. Shared /\ PlaceOf(t) = Db /\ Db \in Places
    BY <1>3 DEF DeleteConfirm, AloneInv, PlaceOf, Places
  <2>2. /\ UNCHANGED setup /\ pc[t] # "idle" /\ confirm'[Db] = 0
        /\ pc'[t] \in {"answer", "pop_device"}
        /\ \A u \in Threads \ {t} : pc'[u] = pc[u] /\ taken'[u] = taken[u]
    BY <1>3, <2>1 DEF DeleteConfirm, TypeOK
  <2>3. QED
    BY <2>1, <2>2, AloneFrame
<1>4. ASSUME NEW t \in Threads, PopDeviceMemory(t) PROVE AloneInv'
  <2>1. /\ UNCHANGED setup /\ pc[t] # "idle" /\ device'[PlaceOf(t)] = 0
        /\ pc'[t] \in {"result", "message"}
        /\ confirm' = confirm
        /\ \A u \in Threads \ {t} : pc'[u] = pc[u] /\ taken'[u] = taken[u]
    BY <1>4, <1>a DEF PopDeviceMemory, TypeOK
  <2>2. ~overlap => confirm[PlaceOf(t)] = 0
    BY <1>4 DEF PopDeviceMemory, AloneInv
  <2>3. QED
    BY <2>1, <2>2, AloneFrame
<1>5. ASSUME NEW t \in Threads, SelectDevice(t) PROVE AloneInv'
  <2>1. /\ UNCHANGED setup /\ pc[t] # "idle" /\ Shared
        /\ pc'[t] = "delete_device" /\ taken'[t] = device'[Db] /\ confirm' = confirm
        /\ \A u \in Threads \ {t} : pc'[u] = pc[u] /\ taken'[u] = taken[u]
    BY <1>5 DEF SelectDevice, TypeOK
  <2>2. ~overlap => confirm[PlaceOf(t)] = 0
    BY <1>5 DEF SelectDevice, AloneInv
  <2>3. QED
    BY <2>1, <2>2, AloneFrame
<1>6. ASSUME NEW t \in Threads, DeleteDevice(t) PROVE AloneInv'
  <2>1. Shared /\ PlaceOf(t) = Db /\ Db \in Places
    BY <1>6 DEF DeleteDevice, AloneInv, PlaceOf, Places
  <2>2. /\ UNCHANGED setup /\ pc[t] # "idle" /\ device'[Db] = 0
        /\ pc'[t] \in {"result", "message"} /\ confirm' = confirm
        /\ \A u \in Threads \ {t} : pc'[u] = pc[u] /\ taken'[u] = taken[u]
    BY <1>6, <2>1 DEF DeleteDevice, TypeOK
  <2>3. ~overlap => confirm[PlaceOf(t)] = 0
    BY <1>6 DEF DeleteDevice, AloneInv
  <2>4. QED
    BY <2>1, <2>2, <2>3, AloneFrame
<1>7. ASSUME NEW t \in Threads,
             \/ ConfirmAndRun(t) \/ ApprovalFails(t) \/ Deny(t)
             \/ AcceptDeviceResult(t) \/ RejectDeviceResult(t)
             \/ RejectInput(t) \/ CoreReplies(t) \/ Emit(t)
      PROVE  AloneInv'
  <2>1. pc[t] # "idle" /\ Finish(t) /\ UNCHANGED setup
    BY <1>7 DEF ConfirmAndRun, ApprovalFails, Deny, AcceptDeviceResult,
       RejectDeviceResult, RejectInput, CoreReplies, Emit
  <2>2. QED
    BY <2>1, <1>f
<1>8. ASSUME NEW t \in Threads, NEW id \in Ids, PutConfirm(t, id) \/ PutDevice(t, id)
      PROVE  AloneInv'
  <2>1. /\ UNCHANGED setup /\ pc[t] # "idle" /\ pc'[t] = "emit"
        /\ \A u \in Threads \ {t} : pc'[u] = pc[u] /\ taken'[u] = taken[u]
    BY <1>8 DEF PutConfirm, PutDevice, TypeOK
  <2>2. QED
    BY <2>1, AloneFrame
<1>9. ASSUME NEW t \in Threads, NEW i \in Inputs, Receive(t, i) PROVE AloneInv'
  <2>1. /\ UNCHANGED <<setup, confirm, device, taken>> /\ pc'[t] = "pop_confirm"
        /\ \A u \in Threads \ {t} : pc'[u] = pc[u]
        /\ ~overlap => \A u \in Threads : pc[u] = "idle"
    BY <1>9 DEF Receive, TypeOK
  <2>2. Shared' = Shared /\ overlap' = overlap
    BY <2>1 DEF setup, Shared
  <2>3. QED
    BY <2>1, <2>2 DEF AloneInv
<1>10. ASSUME NEW p \in Procs, Crash(p) PROVE AloneInv'
  <2>1. Shared' = Shared /\ overlap' = overlap
    BY <1>10 DEF Crash, setup, Shared
  <2>2. PICK t \in Threads : ProcOf[t] = p /\ pc[t] # "idle"
    BY <1>10 DEF Crash
  <2>3. \A u \in Threads : pc'[u] = pc[u] \/ pc'[u] = "idle"
    BY <1>10 DEF Crash
  <2>4. pc'[t] = "idle"
    BY <1>10, <2>2 DEF Crash
  <2>5. ~overlap => \A u \in Threads : pc'[u] = "idle"
    BY <2>2, <2>3, <2>4 DEF AloneInv
  <2>6. QED
    BY <2>1, <2>3, <2>5 DEF AloneInv
<1>11. CASE UNCHANGED vars
  BY <1>11 DEF vars, AloneInv, Shared, PlaceOf
<1>12. QED
  BY <1>1, <1>2, <1>3, <1>4, <1>5, <1>6, <1>7, <1>8, <1>9, <1>10, <1>11 DEF Next, Step

\* What leaves a place is taken by the thread that popped it, or its process
\* died.
LEMMA LeavesTaken ==
  ASSUME TypeOK, AloneInv, ~overlap, Next, NEW p \in Places
  PROVE  LET died == p \in Procs /\ \A t \in Threads : ProcOf[t] = p => pc'[t] = "idle"
         IN /\ (confirm[p] # 0 /\ confirm'[p] # confirm[p]) =>
                 \/ died
                 \/ \E t \in Threads : pc'[t] = "answer" /\ taken'[t] = confirm[p]
            /\ (device[p] # 0 /\ device'[p] # device[p]) =>
                 \/ died
                 \/ \E t \in Threads : pc'[t] = "result" /\ taken'[t] = device[p]
<1> DEFINE Died == p \in Procs /\ \A t \in Threads : ProcOf[t] = p => pc'[t] = "idle"
           Confirmed == \E t \in Threads : pc'[t] = "answer" /\ taken'[t] = confirm[p]
           Resulted == \E t \in Threads : pc'[t] = "result" /\ taken'[t] = device[p]
           Kept == /\ (confirm[p] # 0 /\ confirm'[p] # confirm[p]) => Died \/ Confirmed
                   /\ (device[p] # 0 /\ device'[p] # device[p]) => Died \/ Resulted
<1> USE DEF Goto
<1>1. ASSUME NEW t \in Threads, PopConfirmMemory(t) PROVE Kept
  <2>1. device' = device /\ (p # PlaceOf(t) => confirm'[p] = confirm[p])
    BY <1>1 DEF PopConfirmMemory, TypeOK
  <2>2. ASSUME p = PlaceOf(t), confirm[p] # 0
        PROVE  pc'[t] = "answer" /\ taken'[t] = confirm[p]
    BY <1>1, <2>2 DEF PopConfirmMemory, TypeOK
  <2>3. QED
    BY <2>1, <2>2
<1>2. ASSUME NEW t \in Threads, DeleteConfirm(t) PROVE Kept
  <2>1. device' = device /\ (p # Db => confirm'[p] = confirm[p])
    BY <1>2 DEF DeleteConfirm, TypeOK
  <2>2. taken[t] = confirm[Db]
    BY <1>2 DEF DeleteConfirm, AloneInv
  <2>3. ASSUME p = Db, confirm[p] # 0 PROVE pc'[t] = "answer" /\ taken'[t] = confirm[p]
    BY <1>2, <2>2, <2>3 DEF DeleteConfirm, TypeOK
  <2>4. QED
    BY <2>1, <2>3
<1>3. ASSUME NEW t \in Threads, PopDeviceMemory(t) PROVE Kept
  <2>1. confirm' = confirm /\ (p # PlaceOf(t) => device'[p] = device[p])
    BY <1>3 DEF PopDeviceMemory, TypeOK
  <2>2. ASSUME p = PlaceOf(t), device[p] # 0
        PROVE  pc'[t] = "result" /\ taken'[t] = device[p]
    BY <1>3, <2>2 DEF PopDeviceMemory, TypeOK
  <2>3. QED
    BY <2>1, <2>2
<1>4. ASSUME NEW t \in Threads, DeleteDevice(t) PROVE Kept
  <2>1. confirm' = confirm /\ (p # Db => device'[p] = device[p])
    BY <1>4 DEF DeleteDevice, TypeOK
  <2>2. taken[t] = device[Db]
    BY <1>4 DEF DeleteDevice, AloneInv
  <2>3. ASSUME p = Db, device[p] # 0 PROVE pc'[t] = "result" /\ taken'[t] = device[p]
    BY <1>4, <2>2, <2>3 DEF DeleteDevice, TypeOK
  <2>4. QED
    BY <2>1, <2>3
<1>5. ASSUME NEW t \in Threads, NEW id \in Ids, PutConfirm(t, id) PROVE Kept
  <2>1. confirm[PlaceOf(t)] = 0
    BY <1>5 DEF PutConfirm, AloneInv
  <2>2. device' = device /\ (p # PlaceOf(t) => confirm'[p] = confirm[p])
    BY <1>5 DEF PutConfirm, TypeOK
  <2>3. QED
    BY <2>1, <2>2
<1>6. ASSUME NEW t \in Threads, NEW id \in Ids, PutDevice(t, id) PROVE Kept
  <2>1. device[PlaceOf(t)] = 0
    BY <1>6 DEF PutDevice, AloneInv
  <2>2. confirm' = confirm /\ (p # PlaceOf(t) => device'[p] = device[p])
    BY <1>6 DEF PutDevice, TypeOK
  <2>3. QED
    BY <2>1, <2>2
<1>7. ASSUME NEW q \in Procs, Crash(q) PROVE Kept
  <2>1. p # q => confirm'[p] = confirm[p] /\ device'[p] = device[p]
    BY <1>7 DEF Crash, TypeOK
  <2>2. p = q => Died
    BY <1>7 DEF Crash
  <2>3. QED
    BY <2>1, <2>2
<1>8. ASSUME UNCHANGED <<confirm, device>> PROVE Kept
  BY <1>8
<1>9. Kept
  BY <1>1, <1>2, <1>3, <1>4, <1>5, <1>6, <1>7, <1>8 DEF Next, Step, Receive,
     SelectConfirm, SelectDevice, ConfirmAndRun, ApprovalFails, Deny, AcceptDeviceResult,
     RejectDeviceResult, RejectInput, CoreReplies, Emit
<1>10. QED
  BY <1>9

\* With any number of workers, on either store: what waits for a client that
\* takes one question at a time is taken by an input or dies with its process;
\* it is never replaced, nor deleted unread, nor lost by a restart.
THEOREM NothingWaitingIsLost == Spec => NothingLost
<1>1. Init => TypeOK /\ TakenInv /\ AloneInv
  BY InitType DEF Init, AloneInv
<1>2. TypeOK /\ TakenInv /\ AloneInv /\ [Next]_vars => (TypeOK /\ TakenInv /\ AloneInv)'
  BY TypeStep, AloneStep
<1>3. TypeOK /\ AloneInv /\ [Next]_vars =>
        [~overlap => \A p \in Places :
           LET died == p \in Procs /\ \A t \in Threads : ProcOf[t] = p => pc'[t] = "idle"
           IN /\ (confirm[p] # 0 /\ confirm'[p] # confirm[p]) =>
                   \/ died
                   \/ \E t \in Threads : pc'[t] = "answer" /\ taken'[t] = confirm[p]
              /\ (device[p] # 0 /\ device'[p] # device[p]) =>
                   \/ died
                   \/ \E t \in Threads : pc'[t] = "result" /\ taken'[t] = device[p]]_vars
  BY LeavesTaken
<1>4. QED
  BY <1>1, <1>2, <1>3, PTL DEF Spec, NothingLost

-----------------------------------------------------------------------------
(* The refinement                                                           *)

Held(i) == \E t \in Threads : pc[t] = "answer" /\ taken[t] = i
Waits(i) == \E p \in Places : confirm[p] = i

\* What is waiting, held or run is nothing else at once.
LEMMA Phases ==
  ASSUME TypeOK, ConfirmInv, NEW i \in Ids
  PROVE  Phase(i) = IF ran[i] > 0 THEN "ran" ELSE IF Waits(i) THEN "waiting"
                    ELSE IF Held(i) THEN "taken"
                    ELSE IF i \in asked THEN "closed" ELSE "unused"
BY DEF Phase, Waits, Held

\* The phase after a step.
LEMMA PhasesNext ==
  ASSUME NEW i \in Ids
  PROVE  Phase(i)' = IF ran'[i] > 0 THEN "ran" ELSE IF Waits(i)' THEN "waiting"
                     ELSE IF Held(i)' THEN "taken"
                     ELSE IF i \in asked' THEN "closed" ELSE "unused"
BY DEF Phase, Waits, Held

\* Waiting and held exclude each other, and both exclude having run.
LEMMA Standing ==
  ASSUME TypeOK, ConfirmInv, NEW i \in Ids
  PROVE  /\ Waits(i) => ran[i] = 0 /\ ~Held(i) /\ i \in asked
         /\ Held(i) => ran[i] = 0 /\ ~Waits(i) /\ i \in asked
         /\ ran[i] > 0 => i \in asked
BY PortAssumption DEF ConfirmInv, Waits, Held, TypeOK

\* Steps that move no confirmation.
LEMMA Stutters ==
  ASSUME UNCHANGED <<confirm, asked, ran>>,
         \A t \in Threads : (pc[t] = "answer") = (pc'[t] = "answer")
                            /\ (pc[t] = "answer" => taken'[t] = taken[t])
  PROVE  UNCHANGED Protocol!vars
<1>1. ASSUME NEW i \in Ids PROVE Phase(i)' = Phase(i)
  BY DEF Phase
<1>2. [i \in Ids |-> Phase(i)]' = [i \in Ids |-> Phase(i)]
  BY <1>1
<1>3. QED
  BY <1>2 DEF Protocol!vars

\* A pop takes what waits at a place.
LEMMA PopTakes ==
  ASSUME TypeOK, TypeOK', ConfirmInv, ConfirmInv', UNCHANGED <<asked, ran>>,
         NEW p \in Places, NEW t \in Threads, pc[t] # "answer",
         confirm' = [confirm EXCEPT ![p] = 0],
         taken'[t] = confirm[p], (pc'[t] = "answer") = (confirm[p] # 0),
         \A u \in Threads \ {t} : pc'[u] = pc[u] /\ taken'[u] = taken[u]
  PROVE  [Protocol!Next]_(Protocol!vars)
<1>1. /\ confirm \in [Places -> Ids \cup {0}] /\ 0 \notin Ids
      /\ \A q \in Places : confirm'[q] = IF q = p THEN 0 ELSE confirm[q]
  BY PortAssumption DEF TypeOK
<1>2. ASSUME NEW i \in Ids, i # confirm[p] PROVE Phase(i)' = Phase(i)
  <2>1. Waits(i)' = Waits(i)
    BY <1>1, <1>2 DEF Waits
  <2>2. Held(i)' = Held(i)
    BY <1>2 DEF Held
  <2>3. QED
    BY <2>1, <2>2, Phases, PhasesNext
<1>3. CASE confirm[p] = 0
  <2>1. [i \in Ids |-> Phase(i)]' = [i \in Ids |-> Phase(i)]
    BY <1>1, <1>2, <1>3
  <2>2. QED
    BY <2>1 DEF Protocol!vars
<1>4. CASE confirm[p] # 0
  <2>0. PICK c \in Ids : c = confirm[p]
    BY <1>1, <1>4
  <2>1. Waits(c) /\ Held(c)'
    BY <1>1, <1>4, <2>0 DEF Waits, Held
  <2>2. Phase(c) = "waiting" /\ ran[c] = 0
    BY <2>1, Phases, Standing
  <2>3. ~Waits(c)'
    BY <1>1, <2>0 DEF ConfirmInv, Waits
  <2>4. Phase(c)' = "taken"
    BY <2>1, <2>2, <2>3, PhasesNext
  <2>5. [i \in Ids |-> Phase(i)]' = [[i \in Ids |-> Phase(i)] EXCEPT ![c] = "taken"]
    BY <1>2, <2>0, <2>4
  <2>6. Protocol!Take(c)
    BY <2>2, <2>5 DEF Protocol!Take
  <2>7. QED
    BY <2>6 DEF Protocol!Next
<1>5. QED
  BY <1>3, <1>4

\* What leaves the places and the hands of threads without being run is closed.
LEMMA Closes ==
  ASSUME TypeOK, ConfirmInv, UNCHANGED <<asked, ran>>,
         \A i \in Ids : (Waits(i)' => Waits(i)) /\ (Held(i)' => Held(i))
  PROVE  [Protocol!Next]_(Protocol!vars)
<1> DEFINE S == {i \in Ids : (Waits(i) /\ ~Waits(i)') \/ (Held(i) /\ ~Held(i)')}
<1>1. ASSUME NEW i \in S
      PROVE  Phase(i) \in {"waiting", "taken"} /\ Phase(i)' = "closed"
  <2>1. ran[i] = 0 /\ i \in asked /\ (Waits(i) \/ Held(i))
    BY Standing
  <2>2. ~Waits(i)' /\ ~Held(i)'
    BY <2>1, Standing
  <2>3. QED
    BY <2>1, <2>2, Phases, PhasesNext
<1>2. ASSUME NEW i \in Ids \ S PROVE Phase(i)' = Phase(i)
  BY Phases, PhasesNext
<1>3. [i \in Ids |-> Phase(i)]'
        = [i \in Ids |-> IF i \in S THEN "closed" ELSE [j \in Ids |-> Phase(j)][i]]
  BY <1>1, <1>2
<1>4. \A i \in S : [j \in Ids |-> Phase(j)][i] \in {"waiting", "taken"}
  BY <1>1
<1>5. Protocol!Close(S)
  BY <1>3, <1>4 DEF Protocol!Close
<1>6. QED
  BY <1>5 DEF Protocol!Next

\* Every step of the port is a step of the protocol, or none.
LEMMA Simulation ==
  ASSUME PortInv, PortInv', [Next]_vars
  PROVE  [Protocol!Next]_(Protocol!vars)
<1> USE DEF PortInv, Goto, setup, ids, history
<1>t. /\ pc \in [Threads -> Labels] /\ taken \in [Threads -> Ids \cup {0}]
      /\ confirm \in [Places -> Ids \cup {0}] /\ ran \in [Ids -> Nat]
      /\ asked \in SUBSET Ids /\ 0 \notin Ids
  BY PortAssumption DEF TypeOK
<1>p. ASSUME NEW t \in Threads PROVE PlaceOf(t) \in Places
  BY PortAssumption DEF PlaceOf, Places
<1>1. ASSUME NEW t \in Threads, PopConfirmMemory(t)
      PROVE  [Protocol!Next]_(Protocol!vars)
  BY <1>1, <1>t, <1>p, PopTakes DEF PopConfirmMemory
<1>2. ASSUME NEW t \in Threads, DeleteConfirm(t)
      PROVE  [Protocol!Next]_(Protocol!vars)
  <2>1. taken'[t] = confirm[Db] /\ Db \in Places
    BY <1>2 DEF DeleteConfirm, LockInv, Places
  <2>2. QED
    BY <1>2, <1>t, <2>1, PopTakes DEF DeleteConfirm
<1>3. ASSUME NEW t \in Threads, ConfirmAndRun(t)
      PROVE  [Protocol!Next]_(Protocol!vars)
  <2>1. /\ ran' = [ran EXCEPT ![taken[t]] = ran[taken[t]] + 1]
        /\ UNCHANGED <<confirm, asked>> /\ pc[t] = "answer"
        /\ \A u \in Threads : pc'[u] = "answer" =>
             u # t /\ pc[u] = "answer" /\ taken'[u] = taken[u]
        /\ \A u \in Threads \ {t} : pc'[u] = pc[u] /\ taken'[u] = taken[u]
    BY <1>3, <1>t DEF ConfirmAndRun, Finish
  <2>2. PICK c \in Ids : c = taken[t]
    BY <1>t, <2>1 DEF TakenInv
  <2>3. Phase(c) = "taken" /\ ran[c] = 0
    BY <2>1, <2>2, Phases, Standing DEF Held
  <2>4. Phase(c)' = "ran"
    BY <1>t, <2>1, <2>2, <2>3, PhasesNext
  <2>5. ASSUME NEW i \in Ids, i # c PROVE Phase(i)' = Phase(i)
    <3>1. ran'[i] = ran[i] /\ Waits(i)' = Waits(i)
      BY <1>t, <2>1, <2>2, <2>5 DEF Waits
    <3>2. Held(i)' = Held(i)
      BY <2>1, <2>2, <2>5 DEF Held
    <3>3. QED
      BY <2>1, <3>1, <3>2, Phases, PhasesNext
  <2>6. [i \in Ids |-> Phase(i)]' = [[i \in Ids |-> Phase(i)] EXCEPT ![c] = "ran"]
    BY <2>4, <2>5
  <2>7. Protocol!Approve(c)
    BY <2>1, <2>2, <2>3, <2>6 DEF Protocol!Approve
  <2>8. QED
    BY <2>7 DEF Protocol!Next
<1>4. ASSUME NEW t \in Threads, NEW id \in Ids, PutConfirm(t, id)
      PROVE  [Protocol!Next]_(Protocol!vars)
  <2> DEFINE old == {j \in Ids : j = confirm[PlaceOf(t)]}
  <2>1. /\ asked' = asked \cup {id} /\ id \notin asked /\ ran' = ran
        /\ confirm' = [confirm EXCEPT ![PlaceOf(t)] = id]
        /\ \A u \in Threads : pc'[u] = "answer" <=> pc[u] = "answer" /\ u # t
        /\ \A u \in Threads \ {t} : taken'[u] = taken[u]
        /\ pc[t] # "answer"
    BY <1>4, <1>t DEF PutConfirm
  <2>2. Phase(id) = "unused"
    BY <1>t, <2>1, Standing, Phases
  <2>3. Phase(id)' = "waiting"
    <3>1. Waits(id)'
      BY <1>t, <1>p, <2>1 DEF Waits
    <3>2. ran'[id] = 0
      BY <1>t, <2>1 DEF ConfirmInv
    <3>3. QED
      BY <3>1, <3>2, PhasesNext
  <2>4. ASSUME NEW i \in Ids, i # id PROVE Held(i)' = Held(i)
    BY <2>1 DEF Held
  <2>5. ASSUME NEW i \in old
        PROVE  Phase(i) = "waiting" /\ Phase(i)' = "closed"
    <3>1. Waits(i) /\ i # 0 /\ i # id
      BY <1>t, <1>p, <2>1, Standing DEF Waits
    <3>2. ~Waits(i)'
      BY <1>t, <1>p, <2>1, <3>1 DEF Waits, ConfirmInv
    <3>3. ~Held(i)'
      BY <2>4, <3>1, Standing
    <3>4. QED
      BY <2>1, <3>1, <3>2, <3>3, Standing, Phases, PhasesNext
  <2>6. ASSUME NEW i \in Ids, i # id, i \notin old PROVE Phase(i)' = Phase(i)
    <3>1. Waits(i)' = Waits(i)
      BY <1>t, <1>p, <2>1, <2>6 DEF Waits
    <3>2. QED
      BY <2>1, <2>4, <2>6, <3>1, Phases, PhasesNext
  <2>7. old \in SUBSET {j \in Ids : [i \in Ids |-> Phase(i)][j] = "waiting"}
    BY <2>5
  <2>8. [i \in Ids |-> Phase(i)]'
          = [j \in Ids |-> IF j = id THEN "waiting"
                           ELSE IF j \in old THEN "closed" ELSE [i \in Ids |-> Phase(i)][j]]
    BY <2>3, <2>5, <2>6
  <2>9. Protocol!Ask(id)
    BY <2>1, <2>2, <2>7, <2>8 DEF Protocol!Ask
  <2>10. QED
    BY <2>9 DEF Protocol!Next
<1>5. ASSUME NEW p \in Procs, Crash(p) PROVE [Protocol!Next]_(Protocol!vars)
  <2>1. /\ UNCHANGED <<asked, ran>> /\ confirm' = [confirm EXCEPT ![p] = 0]
        /\ \A u \in Threads : pc'[u] = "answer" => pc[u] = "answer" /\ taken'[u] = taken[u]
    BY <1>5, <1>t DEF Crash
  <2>2. \A i \in Ids : (Waits(i)' => Waits(i)) /\ (Held(i)' => Held(i))
    BY <1>t, <2>1 DEF Waits, Held
  <2>3. QED
    BY <2>1, <2>2, Closes
<1>6. ASSUME NEW t \in Threads, ApprovalFails(t) \/ Deny(t)
      PROVE  [Protocol!Next]_(Protocol!vars)
  <2>1. /\ UNCHANGED <<asked, ran, confirm>>
        /\ \A u \in Threads : pc'[u] = "answer" => pc[u] = "answer" /\ taken'[u] = taken[u]
    BY <1>6, <1>t DEF ApprovalFails, Deny, Finish
  <2>2. \A i \in Ids : (Waits(i)' => Waits(i)) /\ (Held(i)' => Held(i))
    BY <2>1 DEF Waits, Held
  <2>3. QED
    BY <2>1, <2>2, Closes
<1>7. CASE UNCHANGED vars
  BY <1>7, Stutters DEF vars
<1>8. ASSUME NEW t \in Threads, NEW i \in Inputs, Receive(t, i)
      PROVE  [Protocol!Next]_(Protocol!vars)
  BY <1>8, <1>t, Stutters DEF Receive
<1>9. ASSUME NEW t \in Threads,
             \/ SelectConfirm(t) \/ PopDeviceMemory(t) \/ SelectDevice(t)
             \/ DeleteDevice(t) \/ AcceptDeviceResult(t) \/ RejectDeviceResult(t)
             \/ RejectInput(t) \/ CoreReplies(t) \/ Emit(t)
             \/ \E id \in Ids : PutDevice(t, id)
      PROVE  [Protocol!Next]_(Protocol!vars)
  <2>1. UNCHANGED <<confirm, asked, ran>>
    BY <1>9 DEF SelectConfirm, PopDeviceMemory, SelectDevice, DeleteDevice,
       AcceptDeviceResult, RejectDeviceResult, RejectInput, CoreReplies, Emit, PutDevice
  <2>2. \A u \in Threads : (pc[u] = "answer") = (pc'[u] = "answer")
                           /\ (pc[u] = "answer" => taken'[u] = taken[u])
    BY <1>9, <1>t DEF SelectConfirm, PopDeviceMemory, SelectDevice, DeleteDevice,
       AcceptDeviceResult, RejectDeviceResult, RejectInput, CoreReplies, Emit,
       PutDevice, Finish
  <2>3. QED
    BY <2>1, <2>2, Stutters
<1>10. ASSUME NEW t \in Threads, Step(t) PROVE [Protocol!Next]_(Protocol!vars)
  BY <1>10, <1>1, <1>2, <1>3, <1>4, <1>6, <1>9 DEF Step
<1>11. QED
  BY <1>5, <1>7, <1>8, <1>10 DEF Next

\* With one worker, whatever its threads interleave and wherever it dies, the
\* port implements the confirmation protocol: what is approved was asked and
\* taken by one input, and runs once.
THEOREM PortImplementsProtocol ==
  ASSUME OneProcess PROVE Spec => ImplementsProtocol
<1>1. Init => Protocol!Init
  <2> SUFFICES ASSUME Init PROVE Protocol!Init
    OBVIOUS
  <2>1. ASSUME NEW i \in Ids PROVE Phase(i) = "unused"
    BY PortAssumption DEF Init, Phase
  <2>2. QED
    BY <2>1 DEF Init, Protocol!Init
<1>2. PortInv /\ PortInv' /\ [Next]_vars => [Protocol!Next]_(Protocol!vars)
  BY Simulation
<1>3. QED
  BY Invariance, <1>1, <1>2, PTL DEF Spec, Protocol!Spec, ImplementsProtocol
=============================================================================
