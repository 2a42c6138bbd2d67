-------------------------- MODULE LocalFirstProofs --------------------------
(***************************************************************************)
(* Theorems about LocalFirst, for any sources, events and workers, any     *)
(* number of failing appends and of restarts.                              *)
(***************************************************************************)
EXTENDS LocalFirst, TLAPS

\* Each queue is a pair of what waits and what its file, or its events, hold.
Shape ==
  /\ local = [queue |-> local.queue, file |-> local.file]
  /\ center = [queue |-> center.queue, body |-> center.body]
  /\ disk = [queue |-> disk.queue, body |-> disk.body]

\* The file of the local queue has what waits, and nothing else but what the gateway
\* committed already (the lines that a failed rewrite leaves).
FileIsQueue ==
  /\ local.queue \subseteq local.file
  /\ local.file \subseteq local.queue \cup gateway

LineInv == Shape /\ FileIsQueue /\ WaitingIsOnDisk /\ LocalKept

-----------------------------------------------------------------------------
\* LocalDeliveryQueue.enqueue: an append loses no line and puts the item on file.
LEMMA EnqueueKeeps ==
  ASSUME NEW item, Shape, FileIsQueue, LocalEnqueue(item)
  PROVE  /\ local' = [queue |-> local'.queue, file |-> local'.file]
         /\ local.file \subseteq local'.file /\ item \in local'.file
         /\ local'.queue \subseteq local'.file
         /\ local'.file \subseteq local'.queue \cup gateway
BY DEF LocalEnqueue, Shape, FileIsQueue

\* The worker changes the body of a queued message and nothing else.
LEMMA ReplaceKeeps ==
  ASSUME NEW e, NEW body, Shape, Replace(e, body)
  PROVE  center' = [queue |-> center.queue, body |-> center'.body]
BY DEF Replace, Shape

LEMMA LineInit == Init => LineInv
BY DEF Init, LineInv, Shape, FileIsQueue, WaitingIsOnDisk, LocalKept

LEMMA LineStep == LineInv /\ [Next]_vars => LineInv'
<1> SUFFICES ASSUME LineInv, [Next]_vars PROVE LineInv'
  OBVIOUS
<1> USE DEF LineInv, WaitingIsOnDisk, LocalKept, localVars, centerVars
<1>a. ASSUME UNCHANGED <<local, gateway>>, offered' \subseteq offered,
             Shape', center'.queue \subseteq disk'.queue
      PROVE  LineInv'
  BY <1>a DEF FileIsQueue
<1>b. ASSUME UNCHANGED localVars, UNCHANGED <<center, disk>>, offered' \subseteq offered
      PROVE  LineInv'
  BY <1>b DEF FileIsQueue, Shape
<1>1. ASSUME NEW s \in Sources, NEW e \in Events, Capture(s, e) PROVE LineInv'
  <2>1. UNCHANGED <<gateway, center, disk>>
    BY <1>1 DEF Capture
  <2>2. CASE LocalEnqueue(Message(e)) /\ offered' = offered \cup {<<s, e>>}
    <3>1. Shape' /\ FileIsQueue'
      BY <2>1, <2>2, EnqueueKeeps DEF Shape, FileIsQueue
    <3>2. LocalKept'
      BY <2>1, <2>2, EnqueueKeeps
    <3> QED
      BY <2>1, <3>1, <3>2 DEF FileIsQueue
  <2>3. CASE UNCHANGED <<local, offered>>
    BY <1>1, <2>1, <2>3, <1>b DEF Capture
  <2> QED
    BY <1>1, <2>2, <2>3 DEF Capture
<1>2. ASSUME NEW s \in Sources, CloseGate(s) PROVE LineInv'
  BY <1>2, <1>b DEF CloseGate
<1>3. ASSUME NEW s \in Sources, QueueForCenter(s) PROVE LineInv'
  <2>1. UNCHANGED <<local, gateway>> /\ offered' \subseteq offered
    BY <1>3 DEF QueueForCenter
  <2>2. \/ UNCHANGED <<center, disk>>
        \/ \E e \in {src[s].e} :
             /\ center' = [center EXCEPT !.queue = @ \cup {Message(e)}, !.body[e] = "plain"]
             /\ disk' = [disk EXCEPT !.queue = @ \cup {Message(e)}, !.body[e] = "plain"]
    BY <1>3 DEF QueueForCenter
  <2>3. Shape'
    BY <2>1, <2>2 DEF Shape
  <2>4. \/ center'.queue = center.queue /\ disk'.queue = disk.queue
        \/ \E m : center'.queue = center.queue \cup {m} /\ disk'.queue = disk.queue \cup {m}
    BY <2>2 DEF Shape
  <2>5. center'.queue \subseteq disk'.queue
    BY <2>4
  <2> QED
    BY <2>1, <2>3, <2>5, <1>a
<1>4. ASSUME NEW s \in Sources, Ask(s) PROVE LineInv'
  BY <1>4, <1>b DEF Ask
<1>5. ASSUME NEW w \in Workers, Take(w) PROVE LineInv'
  <2>1. UNCHANGED <<local, gateway, disk, offered>>
    BY <1>5 DEF Take
  <2>2. center' = center \/ \E e : Replace(e, "failed")
    BY <1>5 DEF Take
  <2> QED
    BY <2>1, <2>2, <1>a, ReplaceKeeps DEF Shape
<1>6. ASSUME NEW w \in Workers, LookUp(w) PROVE LineInv'
  BY <1>6, <1>b DEF LookUp
<1>7. ASSUME NEW w \in Workers, Merge(w) PROVE LineInv'
  <2>1. UNCHANGED <<local, gateway, disk, offered>>
    BY <1>7 DEF Merge
  <2>2. \E e, body : Replace(e, body)
    BY <1>7 DEF Merge
  <2> QED
    BY <2>1, <2>2, <1>a, ReplaceKeeps DEF Shape
<1>8. ASSUME NEW w \in Workers, TellGateway(w) PROVE LineInv'
  <2>1. UNCHANGED <<gateway, disk, offered>>
    BY <1>8 DEF TellGateway
  <2>2. CASE center' = center /\ \E item : LocalEnqueue(item)
    <3>1. Shape' /\ FileIsQueue' /\ local.file \subseteq local'.file
      BY <2>1, <2>2, EnqueueKeeps DEF Shape, FileIsQueue
    <3> QED
      BY <2>1, <2>2, <3>1 DEF FileIsQueue
  <2>3. CASE UNCHANGED <<local, center>>
    BY <2>1, <2>3, <1>a DEF Shape
  <2>4. CASE local' = local /\ \E e : Replace(e, "failed")
    BY <2>1, <2>4, <1>a, ReplaceKeeps DEF Shape
  <2> QED
    BY <1>8, <2>2, <2>3, <2>4 DEF TellGateway
<1>9. ASSUME NEW w \in Workers, TellCenter(w) PROVE LineInv'
  <2>1. UNCHANGED <<local, gateway, offered>>
    BY <1>9 DEF TellCenter
  <2>2. Shape' /\ center'.queue \subseteq disk'.queue
    BY <1>9 DEF TellCenter, Shape
  <2> QED
    BY <2>1, <2>2, <1>a
<1>10. ASSUME NEW w \in Workers, Release(w) PROVE LineInv'
  BY <1>10, <1>b DEF Release
<1>11. ASSUME NEW e \in Events, Tick(e) PROVE LineInv'
  BY <1>11, <1>b DEF Tick
<1>12. ASSUME Post PROVE LineInv'
  BY <1>12, <1>a DEF Post, Shape
<1>13. ASSUME Posted PROVE LineInv'
  <2>1. PICK done \in SUBSET post \ {{}} :
          /\ gateway' = gateway \cup done
          /\ \E file \in {Committed(done), local.file} :
               local' = [queue |-> Committed(done), file |-> file]
    BY <1>13 DEF Posted
  <2>2. UNCHANGED <<offered, center, disk>>
    BY <1>13 DEF Posted
  <2>3. Shape' /\ FileIsQueue' /\ local.file \subseteq local'.file \cup gateway'
    BY <2>1, <2>2 DEF Shape, FileIsQueue, Committed
  <2> QED
    BY <2>1, <2>2, <2>3 DEF FileIsQueue
<1>14. ASSUME PostFails PROVE LineInv'
  BY <1>14 DEF PostFails, Shape, FileIsQueue
<1>15. ASSUME FlushLook \/ FlushGate \/ FlushSend PROVE LineInv'
  BY <1>15, <1>a DEF FlushLook, FlushGate, FlushSend, Shape
<1>16. ASSUME FlushMark PROVE LineInv'
  <2>1. center' = [queue |-> center.queue, body |-> center'.body]
    BY <1>16 DEF FlushMark, Shape
  <2> QED
    BY <1>16, <2>1, <1>a DEF FlushMark, Shape
<1>17. ASSUME FlushDone PROVE LineInv'
  <2>1. PICK done \in SUBSET flush.batch :
          /\ center' = [center EXCEPT !.queue = @ \ done]
          /\ disk' = IF done = {} THEN disk ELSE center'
    BY <1>17 DEF FlushDone
  <2>2. Shape' /\ center'.queue \subseteq disk'.queue
    BY <1>17, <2>1 DEF FlushDone, Shape
  <2> QED
    BY <1>17, <2>2, <1>a DEF FlushDone
<1>18. ASSUME Restart PROVE LineInv'
  BY <1>18 DEF Restart, Shape, FileIsQueue
<1>19. CASE UNCHANGED vars
  BY <1>19, <1>b DEF vars
<1> QED
  BY <1>1, <1>2, <1>3, <1>4, <1>5, <1>6, <1>7, <1>8, <1>9, <1>10, <1>11, <1>12, <1>13,
     <1>14, <1>15, <1>16, <1>17, <1>18, <1>19 DEF Next

\* A message a capture thread went on with is in the local queue's file or in the
\* gateway: failed posts, partial acknowledgements, failed rewrites of the file and
\* restarts lose none (LocalDeliveryQueue, "durable local-first delivery").
THEOREM NothingLost == Spec => []LocalKept
<1>1. LineInv => LocalKept
  BY DEF LineInv
<1> QED
  BY LineInit, LineStep, <1>1, PTL DEF Spec

\* What waits in memory, for the gateway or for the center, has its line on disk.
THEOREM OnDisk == Spec => []WaitingIsOnDisk
<1>1. LineInv => WaitingIsOnDisk
  BY DEF LineInv
<1> QED
  BY LineInit, LineStep, <1>1, PTL DEF Spec
=============================================================================
