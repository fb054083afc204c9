-------------------------- MODULE FileBridgeProofs --------------------------
(***************************************************************************)
(* Proofs about FileBridge, for any number of processes, operations,       *)
(* restarts and requests.                                                  *)
(***************************************************************************)
EXTENDS FileBridgeInv, TLAPS

\* A process below its bound of requests names its next one.
LEMMA NextNameType ==
    ASSUME TypeOK, NEW c \in Client, seq[c] < MaxSeq
    PROVE  NextName(c) \in Name
  BY BridgeAssumption DEF TypeOK, Name, NextName

\* The next name of a process is its own and nothing knows of it yet: no file
\* has it and it was issued for no operation (_next_name).
LEMMA NextNameFresh ==
    ASSUME TypeOK, NameInv, NEW c \in Client, seq[c] < MaxSeq
    PROVE  /\ NextName(c) \in Name
           /\ NextName(c) \in Mine(c)
           /\ NextName(c).client = c
           /\ NextName(c).boot = boot[c]
           /\ NextName(c).seq = seq[c] + 1
           /\ Fresh(NextName(c))
           /\ issued[NextName(c)] = NoOp
           /\ req[NextName(c)] = NoOp
           /\ res[NextName(c)] = NoOp
<1>1. NextName(c) \in Name
  BY NextNameType
<1>2. Fresh(NextName(c))
  BY <1>1 DEF TypeOK, Fresh, NextName
<1> QED
  BY <1>1, <1>2 DEF NameInv, Mine, NextName

\* The engine and the clock leave the clients, their reports and the names
\* alone, and of the requests they only take some away.
LEMMA EngineStepsAside ==
    ASSUME TypeOK,
           EngineStep \/ OpenPacketTracer \/ ClosePacketTracer \/ Age \/ UNCHANGED vars
    PROVE  /\ UNCHANGED <<pc, call, op, cur, todo, pending, boot, seq, outcome,
                         answer, issued, retired, leaked>>
           /\ \A n \in Name : req'[n] \in {req[n], NoOp}
<1> USE DEF EngineStep, OpenPacketTracer, ClosePacketTracer, Age, TickStart, VisitResponse,
            PurgeRequest, SkipRequest, ReadRequest, Evaluate, Reply, RemoveRequest, TickEnd,
            AgeRequest, AgeResponse, vars, dir, engine, local, reports, history
<1>1. UNCHANGED <<pc, call, op, cur, todo, pending, boot, seq, outcome,
                  answer, issued, retired, leaked>>
  OBVIOUS
<1>2. \A n \in Name : req'[n] \in {req[n], NoOp}
  BY DEF TypeOK
<1> QED
  BY <1>1, <1>2

\* Every step keeps the types.
LEMMA TypeStep ==
    ASSUME TypeOK, [Next]_vars
    PROVE  TypeOK'
<1> USE DEF dir, engine, local, reports, history
<1>1. ASSUME NEW c \in Client, NEW o \in Op, Send(c, o)
      PROVE  TypeOK'
  BY <1>1 DEF TypeOK, Payload, Send, BeginCollect
<1>2. ASSUME NEW c \in Client, CollectCompleted(c)
      PROVE  TypeOK'
  BY <1>2 DEF TypeOK, Payload, CollectCompleted, BeginCollect
<1>3. ASSUME NEW c \in Client, NEW o \in Op, SendAndWait(c, o)
      PROVE  TypeOK'
  BY <1>3, BridgeAssumption, NextNameType DEF TypeOK, Payload, SendAndWait, WriteRequest
<1>4. ASSUME NEW c \in Client, NEW o \in Op, SendAndWaitRefused(c, o)
      PROVE  TypeOK'
  BY <1>4, BridgeAssumption, NextNameType DEF TypeOK, Payload, SendAndWaitRefused
<1>5. ASSUME NEW c \in Client, NEW n \in Name, KeepPending(c, n)
      PROVE  TypeOK'
  BY <1>5 DEF TypeOK, KeepPending
<1>6. ASSUME NEW c \in Client, NEW n \in Name, TakePending(c, n)
      PROVE  TypeOK'
  BY <1>6 DEF TypeOK, Payload, TakePending
<1>7. ASSUME NEW c \in Client, RetirePending(c)
      PROVE  TypeOK'
  BY <1>7 DEF TypeOK, Payload, RetirePending, DiscardRequest, RemoveOwnRequest,
     FailToRemoveRequest
<1>8. ASSUME NEW c \in Client, CollectEnd(c)
      PROVE  TypeOK'
  BY <1>8 DEF TypeOK, Payload, CollectEnd, Return
<1>9. ASSUME NEW c \in Client, SendWrite(c)
      PROVE  TypeOK'
  BY <1>9, BridgeAssumption, NextNameType DEF TypeOK, Payload, SendWrite,
     WriteRequest, Return
<1>10. ASSUME NEW c \in Client, SendRefused(c)
      PROVE  TypeOK'
  BY <1>10, BridgeAssumption, NextNameType DEF TypeOK, Payload, SendRefused, Return
<1>11. ASSUME NEW c \in Client, TakeResponse(c)
      PROVE  TypeOK'
  BY <1>11 DEF TypeOK, Payload, TakeResponse
<1>12. ASSUME NEW c \in Client, Complete(c)
      PROVE  TypeOK'
  BY <1>12 DEF TypeOK, Payload, Complete, DiscardRequest, RemoveOwnRequest,
     FailToRemoveRequest, Return
<1>13. ASSUME NEW c \in Client, CancelExecuted(c)
      PROVE  TypeOK'
  BY <1>13 DEF TypeOK, Payload, CancelExecuted, DiscardResponse, Return
<1>14. ASSUME NEW c \in Client, CancelUnknown(c)
      PROVE  TypeOK'
  BY <1>14 DEF TypeOK, Payload, CancelUnknown, FailToRemoveRequest, DiscardResponse,
     Return
<1>15. ASSUME NEW c \in Client, CancelWithdraw(c)
      PROVE  TypeOK'
  BY <1>15 DEF TypeOK, Payload, CancelWithdraw, RemoveOwnRequest
<1>16. ASSUME NEW c \in Client, ObserveLate(c)
      PROVE  TypeOK'
  BY <1>16 DEF TypeOK, Payload, ObserveLate, DiscardResponse, Return
<1>17. ASSUME NEW c \in Client, ObserveNothing(c)
      PROVE  TypeOK'
  BY <1>17 DEF TypeOK, Payload, ObserveNothing, Return
<1>18. ASSUME NEW c \in Client, Restart(c)
      PROVE  TypeOK'
  BY <1>18, BridgeAssumption, NextNameType DEF TypeOK, Payload, Restart, Return
<1>19. ASSUME TickStart
      PROVE  TypeOK'
  BY <1>19 DEF TypeOK, TickStart
<1>20. ASSUME NEW n \in Name, VisitResponse(n)
      PROVE  TypeOK'
  BY <1>20 DEF TypeOK, Payload, VisitResponse
<1>21. ASSUME NEW n \in Name, PurgeRequest(n)
      PROVE  TypeOK'
  BY <1>21 DEF TypeOK, Payload, PurgeRequest
<1>22. ASSUME NEW n \in Name, SkipRequest(n)
      PROVE  TypeOK'
  BY <1>22 DEF TypeOK, SkipRequest
<1>23. ASSUME NEW n \in Name, ReadRequest(n)
      PROVE  TypeOK'
  BY <1>23 DEF TypeOK, Payload, ReadRequest
<1>24. ASSUME Evaluate
      PROVE  TypeOK'
  BY <1>24 DEF TypeOK, Evaluate, Count
<1>25. ASSUME Reply
      PROVE  TypeOK'
  BY <1>25 DEF TypeOK, Reply
<1>26. ASSUME RemoveRequest
      PROVE  TypeOK'
  BY <1>26 DEF TypeOK, Payload, RemoveRequest, NoJob
<1>27. ASSUME TickEnd
      PROVE  TypeOK'
  BY <1>27 DEF TypeOK, TickEnd
<1>28. ASSUME OpenPacketTracer
      PROVE  TypeOK'
  BY <1>28 DEF TypeOK, OpenPacketTracer
<1>29. ASSUME ClosePacketTracer
      PROVE  TypeOK'
  BY <1>29 DEF TypeOK, Payload, ClosePacketTracer, NoJob
<1>30. ASSUME NEW n \in Name, AgeRequest(n)
      PROVE  TypeOK'
  BY <1>30 DEF TypeOK, AgeRequest
<1>31. ASSUME NEW n \in Name, AgeResponse(n)
      PROVE  TypeOK'
  BY <1>31 DEF TypeOK, AgeResponse
<1>32. ASSUME UNCHANGED vars
      PROVE  TypeOK'
  BY <1>32 DEF TypeOK, vars
<1> QED
  BY <1>1, <1>2, <1>3, <1>4, <1>5, <1>6, <1>7, <1>8, <1>9, <1>10, <1>11, <1>12,
     <1>13, <1>14, <1>15, <1>16, <1>17, <1>18, <1>19, <1>20, <1>21, <1>22, <1>23,
     <1>24, <1>25, <1>26, <1>27, <1>28, <1>29, <1>30, <1>31, <1>32
     DEF Next, ClientCall, ClientStep, EngineStep, Age

\* Every step leaves each client in the method it was called for.
LEMMA ControlStep ==
    ASSUME TypeOK, ControlInv, [Next]_vars
    PROVE  ControlInv'
<1> USE DEF dir, engine, local, reports, history
<1>1. ASSUME NEW c \in Client, NEW o \in Op, Send(c, o)
      PROVE  ControlInv'
  BY <1>1 DEF TypeOK, ControlInv, Send, BeginCollect
<1>2. ASSUME NEW c \in Client, CollectCompleted(c)
      PROVE  ControlInv'
  BY <1>2 DEF TypeOK, ControlInv, CollectCompleted, BeginCollect
<1>3. ASSUME NEW c \in Client, NEW o \in Op, SendAndWait(c, o)
      PROVE  ControlInv'
  BY <1>3 DEF TypeOK, ControlInv, SendAndWait, WriteRequest
<1>4. ASSUME NEW c \in Client, NEW o \in Op, SendAndWaitRefused(c, o)
      PROVE  ControlInv'
  BY <1>4 DEF TypeOK, ControlInv, SendAndWaitRefused
<1>5. ASSUME NEW c \in Client, NEW n \in Name, KeepPending(c, n)
      PROVE  ControlInv'
  BY <1>5 DEF TypeOK, ControlInv, KeepPending
<1>6. ASSUME NEW c \in Client, NEW n \in Name, TakePending(c, n)
      PROVE  ControlInv'
  BY <1>6 DEF TypeOK, ControlInv, TakePending
<1>7. ASSUME NEW c \in Client, RetirePending(c)
      PROVE  ControlInv'
  BY <1>7 DEF TypeOK, ControlInv, RetirePending, DiscardRequest, RemoveOwnRequest,
     FailToRemoveRequest
<1>8. ASSUME NEW c \in Client, CollectEnd(c)
      PROVE  ControlInv'
  BY <1>8 DEF TypeOK, ControlInv, CollectEnd, Return
<1>9. ASSUME NEW c \in Client, SendWrite(c)
      PROVE  ControlInv'
  BY <1>9 DEF TypeOK, ControlInv, SendWrite, WriteRequest, Return
<1>10. ASSUME NEW c \in Client, SendRefused(c)
      PROVE  ControlInv'
  BY <1>10 DEF TypeOK, ControlInv, SendRefused, Return
<1>11. ASSUME NEW c \in Client, TakeResponse(c)
      PROVE  ControlInv'
  BY <1>11 DEF TypeOK, ControlInv, TakeResponse
<1>12. ASSUME NEW c \in Client, Complete(c)
      PROVE  ControlInv'
  BY <1>12 DEF TypeOK, ControlInv, Complete, DiscardRequest, RemoveOwnRequest,
     FailToRemoveRequest, Return
<1>13. ASSUME NEW c \in Client, CancelExecuted(c)
      PROVE  ControlInv'
  BY <1>13 DEF TypeOK, ControlInv, CancelExecuted, DiscardResponse, Return
<1>14. ASSUME NEW c \in Client, CancelUnknown(c)
      PROVE  ControlInv'
  BY <1>14 DEF TypeOK, ControlInv, CancelUnknown, FailToRemoveRequest,
     DiscardResponse, Return
<1>15. ASSUME NEW c \in Client, CancelWithdraw(c)
      PROVE  ControlInv'
  BY <1>15 DEF TypeOK, ControlInv, CancelWithdraw, RemoveOwnRequest
<1>16. ASSUME NEW c \in Client, ObserveLate(c)
      PROVE  ControlInv'
  BY <1>16 DEF TypeOK, ControlInv, ObserveLate, DiscardResponse, Return
<1>17. ASSUME NEW c \in Client, ObserveNothing(c)
      PROVE  ControlInv'
  BY <1>17 DEF TypeOK, ControlInv, ObserveNothing, Return
<1>18. ASSUME NEW c \in Client, Restart(c)
      PROVE  ControlInv'
  BY <1>18 DEF TypeOK, ControlInv, Restart, Return
<1>19. ASSUME EngineStep \/ OpenPacketTracer \/ ClosePacketTracer \/ Age \/ UNCHANGED vars
      PROVE  ControlInv'
  BY <1>19, EngineStepsAside DEF ControlInv
<1> QED
  BY <1>1, <1>2, <1>3, <1>4, <1>5, <1>6, <1>7, <1>8, <1>9, <1>10, <1>11, <1>12,
     <1>13, <1>14, <1>15, <1>16, <1>17, <1>18, <1>19
     DEF Next, ClientCall, ClientStep

\* Every step keeps the age of a file with the file, and a request that is
\* waited for young.
LEMMA AgeStep ==
    ASSUME TypeOK, ControlInv, NameInv, AgeInv, [Next]_vars
    PROVE  AgeInv'
<1> USE DEF dir, engine, local, reports, history
<1>1. ASSUME NEW c \in Client, NEW o \in Op, Send(c, o)
      PROVE  AgeInv'
  BY <1>1 DEF AgeInv, TypeOK, Send, BeginCollect
<1>2. ASSUME NEW c \in Client, CollectCompleted(c)
      PROVE  AgeInv'
  BY <1>2 DEF AgeInv, TypeOK, CollectCompleted, BeginCollect
<1>3. ASSUME NEW c \in Client, NEW o \in Op, SendAndWait(c, o)
      PROVE  AgeInv'
  BY <1>3 DEF AgeInv, TypeOK, NameInv, NextName, Fresh, SendAndWait, WriteRequest
<1>4. ASSUME NEW c \in Client, NEW o \in Op, SendAndWaitRefused(c, o)
      PROVE  AgeInv'
  BY <1>4 DEF AgeInv, TypeOK, SendAndWaitRefused
<1>5. ASSUME NEW c \in Client, NEW n \in Name, KeepPending(c, n)
      PROVE  AgeInv'
  BY <1>5 DEF AgeInv, TypeOK, KeepPending
<1>6. ASSUME NEW c \in Client, NEW n \in Name, TakePending(c, n)
      PROVE  AgeInv'
  BY <1>6 DEF AgeInv, TypeOK, TakePending
<1>7. ASSUME NEW c \in Client, RetirePending(c)
      PROVE  AgeInv'
  BY <1>7 DEF AgeInv, TypeOK, RetirePending, DiscardRequest, RemoveOwnRequest,
     FailToRemoveRequest
<1>8. ASSUME NEW c \in Client, CollectEnd(c)
      PROVE  AgeInv'
  BY <1>8 DEF AgeInv, TypeOK, CollectEnd, Return
<1>9. ASSUME NEW c \in Client, SendWrite(c)
      PROVE  AgeInv'
  BY <1>9, BridgeAssumption DEF AgeInv, TypeOK, SendWrite, WriteRequest, Return
<1>10. ASSUME NEW c \in Client, SendRefused(c)
      PROVE  AgeInv'
  BY <1>10 DEF AgeInv, TypeOK, SendRefused, Return
<1>11. ASSUME NEW c \in Client, TakeResponse(c)
      PROVE  AgeInv'
  BY <1>11 DEF AgeInv, TypeOK, TakeResponse
<1>12. ASSUME NEW c \in Client, Complete(c)
      PROVE  AgeInv'
  BY <1>12 DEF AgeInv, TypeOK, Complete, DiscardRequest, RemoveOwnRequest,
     FailToRemoveRequest, Return
<1>13. ASSUME NEW c \in Client, CancelExecuted(c)
      PROVE  AgeInv'
  BY <1>13 DEF AgeInv, TypeOK, CancelExecuted, DiscardResponse, Return
<1>14. ASSUME NEW c \in Client, CancelUnknown(c)
      PROVE  AgeInv'
  BY <1>14 DEF AgeInv, TypeOK, CancelUnknown, FailToRemoveRequest, DiscardResponse,
     Return
<1>15. ASSUME NEW c \in Client, CancelWithdraw(c)
      PROVE  AgeInv'
  BY <1>15 DEF AgeInv, TypeOK, CancelWithdraw, RemoveOwnRequest
<1>16. ASSUME NEW c \in Client, ObserveLate(c)
      PROVE  AgeInv'
  BY <1>16 DEF AgeInv, TypeOK, ObserveLate, DiscardResponse, Return
<1>17. ASSUME NEW c \in Client, ObserveNothing(c)
      PROVE  AgeInv'
  BY <1>17 DEF AgeInv, TypeOK, ObserveNothing, Return
<1>18. ASSUME NEW c \in Client, Restart(c)
      PROVE  AgeInv'
  BY <1>18 DEF AgeInv, TypeOK, Restart, Return
<1>19. ASSUME TickStart
      PROVE  AgeInv'
  BY <1>19 DEF AgeInv, TypeOK, TickStart
<1>20. ASSUME NEW n \in Name, VisitResponse(n)
      PROVE  AgeInv'
  BY <1>20 DEF AgeInv, TypeOK, VisitResponse
<1>21. ASSUME NEW n \in Name, PurgeRequest(n)
      PROVE  AgeInv'
  BY <1>21 DEF AgeInv, TypeOK, PurgeRequest
<1>22. ASSUME NEW n \in Name, SkipRequest(n)
      PROVE  AgeInv'
  BY <1>22 DEF AgeInv, TypeOK, SkipRequest
<1>23. ASSUME NEW n \in Name, ReadRequest(n)
      PROVE  AgeInv'
  BY <1>23 DEF AgeInv, TypeOK, ReadRequest
<1>24. ASSUME Evaluate
      PROVE  AgeInv'
  BY <1>24 DEF AgeInv, TypeOK, Evaluate, Count
<1>25. ASSUME Reply
      PROVE  AgeInv'
  BY <1>25 DEF AgeInv, TypeOK, Reply
<1>26. ASSUME RemoveRequest
      PROVE  AgeInv'
  BY <1>26 DEF AgeInv, TypeOK, RemoveRequest, NoJob
<1>27. ASSUME TickEnd
      PROVE  AgeInv'
  BY <1>27 DEF AgeInv, TypeOK, TickEnd
<1>28. ASSUME OpenPacketTracer
      PROVE  AgeInv'
  BY <1>28 DEF AgeInv, TypeOK, OpenPacketTracer
<1>29. ASSUME ClosePacketTracer
      PROVE  AgeInv'
  BY <1>29 DEF AgeInv, TypeOK, ClosePacketTracer, NoJob
<1>30. ASSUME NEW n \in Name, AgeRequest(n)
      PROVE  AgeInv'
  BY <1>30 DEF AgeInv, TypeOK, WaitedFor, AgeRequest
<1>31. ASSUME NEW n \in Name, AgeResponse(n)
      PROVE  AgeInv'
  BY <1>31 DEF AgeInv, TypeOK, AgeResponse
<1>32. ASSUME UNCHANGED vars
      PROVE  AgeInv'
  BY <1>32 DEF AgeInv, TypeOK, vars
<1> QED
  BY <1>1, <1>2, <1>3, <1>4, <1>5, <1>6, <1>7, <1>8, <1>9, <1>10, <1>11, <1>12,
     <1>13, <1>14, <1>15, <1>16, <1>17, <1>18, <1>19, <1>20, <1>21, <1>22, <1>23,
     <1>24, <1>25, <1>26, <1>27, <1>28, <1>29, <1>30, <1>31, <1>32
     DEF Next, ClientCall, ClientStep, EngineStep, Age

\* Every step keeps one operation per name: the files, the job of the engine
\* and the clients agree with what the name was issued for.
LEMMA NameStep ==
    ASSUME TypeOK, ControlInv, NameInv, [Next]_vars
    PROVE  NameInv'
<1> USE DEF dir, engine, local, reports, history
<1>1. ASSUME NEW c \in Client, NEW o \in Op, Send(c, o)
      PROVE  NameInv'
  BY <1>1 DEF NameInv, TypeOK, Mine, Fresh, Send, BeginCollect
<1>2. ASSUME NEW c \in Client, CollectCompleted(c)
      PROVE  NameInv'
  BY <1>2 DEF NameInv, TypeOK, Mine, Fresh, CollectCompleted, BeginCollect
<1>3. ASSUME NEW c \in Client, NEW o \in Op, SendAndWait(c, o)
      PROVE  NameInv'
  <2>1. seq[c] < MaxSeq
    BY <1>3 DEF SendAndWait, WriteRequest
  <2>2. /\ NextName(c) \in Mine(c) /\ NextName(c).client = c /\ NextName(c).boot = boot[c]
        /\ NextName(c).seq = seq[c] + 1 /\ NextName(c) \in Name
        /\ issued[NextName(c)] = NoOp
    BY <2>1, NextNameFresh
  <2>3. ASSUME NEW n \in Name
        PROVE  /\ Fresh(n)' => issued'[n] = NoOp
               /\ req'[n] \in {NoOp, issued'[n]}
               /\ res'[n] \in {NoOp, issued'[n]}
    <3>1. CASE n = NextName(c)
      BY <1>3, <2>2, <3>1, NextNameFresh, <2>1 DEF TypeOK, Fresh, NameInv,
         SendAndWait, WriteRequest
    <3>2. CASE n # NextName(c)
      <4>1. Fresh(n)' => Fresh(n)
        BY <1>3, BridgeAssumption DEF TypeOK, Fresh, Name, SendAndWait, WriteRequest
      <4> QED
        BY <1>3, <3>2, <4>1 DEF TypeOK, NameInv, SendAndWait, WriteRequest
    <3> QED
      BY <3>1, <3>2
  <2>4. (se \in {"evaluate", "reply", "remove"} => issued[job.name] = job.op)'
    BY <1>3, <2>2, BridgeAssumption DEF TypeOK, NameInv, SendAndWait, WriteRequest
  <2>5. ASSUME NEW d \in Client
        PROVE  /\ pending'[d] \subseteq Mine(d)'
               /\ \A n \in pending'[d] : issued'[n] # NoOp
               /\ todo'[d] \subseteq pending'[d]
               /\ call'[d] = "wait" => cur'[d] \in Mine(d)' /\ issued'[cur'[d]] = op'[d]
               /\ pc'[d] = "retire" /\ call'[d] # "wait" => cur'[d] \in pending'[d] \ todo'[d]
    <3>1. /\ Mine(d)' = Mine(d) /\ pending[d] \subseteq Mine(d) /\ todo[d] \subseteq pending[d]
          /\ \A n \in pending[d] : issued[n] # NoOp
          /\ call[d] = "wait" => cur[d] \in Mine(d) /\ issued[cur[d]] = op[d]
      BY <1>3 DEF Mine, NameInv, SendAndWait
    <3>2. CASE d = c
      BY <1>3, <2>2, <3>1, <3>2, BridgeAssumption DEF TypeOK, Mine, ControlInv,
         SendAndWait, WriteRequest
    <3>3. CASE d # c
      BY <1>3, <2>2, <3>1, <3>3, BridgeAssumption DEF TypeOK, Mine, NameInv,
         SendAndWait, WriteRequest
    <3> QED
      BY <3>2, <3>3
  <2> QED
    BY <2>3, <2>4, <2>5 DEF NameInv
<1>4. ASSUME NEW c \in Client, NEW o \in Op, SendAndWaitRefused(c, o)
      PROVE  NameInv'
  BY <1>4 DEF NameInv, TypeOK, Name, Mine, Fresh, SendAndWaitRefused
<1>5. ASSUME NEW c \in Client, NEW n \in Name, KeepPending(c, n)
      PROVE  NameInv'
  BY <1>5 DEF NameInv, TypeOK, Mine, Fresh, KeepPending
<1>6. ASSUME NEW c \in Client, NEW n \in Name, TakePending(c, n)
      PROVE  NameInv'
  BY <1>6 DEF NameInv, TypeOK, ControlInv, Name, Mine, Fresh, TakePending
<1>7. ASSUME NEW c \in Client, RetirePending(c)
      PROVE  NameInv'
  <2> USE BridgeAssumption DEF RetirePending, DiscardRequest, RemoveOwnRequest, FailToRemoveRequest
  <2>1. /\ issued' = issued /\ res' = res /\ boot' = boot /\ seq' = seq
        /\ \A n \in Name : req'[n] \in {NoOp, req[n]}
    BY <1>7 DEF TypeOK
  <2>2. \A n \in Name : Fresh(n)' <=> Fresh(n)
    BY <2>1 DEF Fresh
  <2>3. \A n \in Name : /\ Fresh(n)' => issued'[n] = NoOp
                        /\ req'[n] \in {NoOp, issued'[n]}
                        /\ res'[n] \in {NoOp, issued'[n]}
    BY <2>1, <2>2 DEF NameInv
  <2>4. (se \in {"evaluate", "reply", "remove"} => issued[job.name] = job.op)'
    BY <1>7 DEF NameInv
  <2>5. ASSUME NEW d \in Client
        PROVE  /\ pending'[d] \subseteq Mine(d)'
               /\ \A n \in pending'[d] : issued'[n] # NoOp
               /\ todo'[d] \subseteq pending'[d]
               /\ call'[d] = "wait" => cur'[d] \in Mine(d)' /\ issued'[cur'[d]] = op'[d]
               /\ pc'[d] = "retire" /\ call'[d] # "wait" => cur'[d] \in pending'[d] \ todo'[d]
    BY <1>7, <2>1 DEF TypeOK, NameInv, Mine
  <2> QED
    BY <2>3, <2>4, <2>5 DEF NameInv
<1>8. ASSUME NEW c \in Client, CollectEnd(c)
      PROVE  NameInv'
  BY <1>8 DEF NameInv, TypeOK, Mine, Fresh, CollectEnd, Return
<1>9. ASSUME NEW c \in Client, SendWrite(c)
      PROVE  NameInv'
  <2>1. seq[c] < MaxSeq
    BY <1>9 DEF SendWrite, WriteRequest
  <2>2. /\ NextName(c) \in Mine(c) /\ NextName(c).client = c /\ NextName(c).boot = boot[c]
        /\ NextName(c).seq = seq[c] + 1 /\ NextName(c) \in Name
        /\ issued[NextName(c)] = NoOp
    BY <2>1, NextNameFresh
  <2>3. ASSUME NEW n \in Name
        PROVE  /\ Fresh(n)' => issued'[n] = NoOp
               /\ req'[n] \in {NoOp, issued'[n]}
               /\ res'[n] \in {NoOp, issued'[n]}
    <3>1. CASE n = NextName(c)
      BY <1>9, <2>2, <3>1, NextNameFresh, <2>1 DEF TypeOK, Fresh, NameInv,
         SendWrite, WriteRequest
    <3>2. CASE n # NextName(c)
      <4>1. Fresh(n)' => Fresh(n)
        BY <1>9, BridgeAssumption DEF TypeOK, Fresh, Name, SendWrite, WriteRequest
      <4> QED
        BY <1>9, <3>2, <4>1 DEF TypeOK, NameInv, SendWrite, WriteRequest
    <3> QED
      BY <3>1, <3>2
  <2>4. (se \in {"evaluate", "reply", "remove"} => issued[job.name] = job.op)'
    BY <1>9, <2>2, BridgeAssumption DEF TypeOK, NameInv, SendWrite, WriteRequest
  <2>5. ASSUME NEW d \in Client
        PROVE  /\ pending'[d] \subseteq Mine(d)'
               /\ \A n \in pending'[d] : issued'[n] # NoOp
               /\ todo'[d] \subseteq pending'[d]
               /\ call'[d] = "wait" => cur'[d] \in Mine(d)' /\ issued'[cur'[d]] = op'[d]
               /\ pc'[d] = "retire" /\ call'[d] # "wait" => cur'[d] \in pending'[d] \ todo'[d]
    <3>1. /\ Mine(d)' = Mine(d) /\ pending[d] \subseteq Mine(d) /\ todo[d] \subseteq pending[d]
          /\ \A n \in pending[d] : issued[n] # NoOp
          /\ call[d] = "wait" => cur[d] \in Mine(d) /\ issued[cur[d]] = op[d]
      BY <1>9 DEF Mine, NameInv, SendWrite
    <3>2. CASE d = c
      BY <1>9, <2>2, <3>1, <3>2, BridgeAssumption DEF TypeOK, Mine, ControlInv,
         SendWrite, WriteRequest, Return
    <3>3. CASE d # c
      BY <1>9, <2>2, <3>1, <3>3, BridgeAssumption DEF TypeOK, Mine, NameInv,
         SendWrite, WriteRequest, Return
    <3> QED
      BY <3>2, <3>3
  <2> QED
    BY <2>3, <2>4, <2>5 DEF NameInv
<1>10. ASSUME NEW c \in Client, SendRefused(c)
      PROVE  NameInv'
  BY <1>10 DEF NameInv, TypeOK, Name, Mine, Fresh, SendRefused, Return
<1>11. ASSUME NEW c \in Client, TakeResponse(c)
      PROVE  NameInv'
  BY <1>11 DEF NameInv, TypeOK, ControlInv, Mine, Fresh, TakeResponse
<1>12. ASSUME NEW c \in Client, Complete(c)
      PROVE  NameInv'
  BY <1>12 DEF NameInv, TypeOK, Mine, Fresh, Complete, DiscardRequest,
     RemoveOwnRequest, FailToRemoveRequest, Return
<1>13. ASSUME NEW c \in Client, CancelExecuted(c)
      PROVE  NameInv'
  BY <1>13 DEF NameInv, TypeOK, Name, Mine, Fresh, CancelExecuted, DiscardResponse,
     Return
<1>14. ASSUME NEW c \in Client, CancelUnknown(c)
      PROVE  NameInv'
  BY <1>14 DEF NameInv, TypeOK, Mine, Fresh, CancelUnknown, FailToRemoveRequest,
     DiscardResponse, Return
<1>15. ASSUME NEW c \in Client, CancelWithdraw(c)
      PROVE  NameInv'
  BY <1>15 DEF NameInv, TypeOK, Mine, Fresh, CancelWithdraw, RemoveOwnRequest
<1>16. ASSUME NEW c \in Client, ObserveLate(c)
      PROVE  NameInv'
  BY <1>16 DEF NameInv, TypeOK, Mine, Fresh, ObserveLate, DiscardResponse, Return
<1>17. ASSUME NEW c \in Client, ObserveNothing(c)
      PROVE  NameInv'
  BY <1>17 DEF NameInv, TypeOK, Mine, Fresh, ObserveNothing, Return
<1>18. ASSUME NEW c \in Client, Restart(c)
      PROVE  NameInv'
  BY <1>18 DEF NameInv, TypeOK, Name, Mine, Fresh, Restart, Return
<1>19. ASSUME TickStart
      PROVE  NameInv'
  BY <1>19 DEF NameInv, TypeOK, Mine, Fresh, TickStart
<1>20. ASSUME NEW n \in Name, VisitResponse(n)
      PROVE  NameInv'
  BY <1>20 DEF NameInv, TypeOK, Mine, Fresh, VisitResponse
<1>21. ASSUME NEW n \in Name, PurgeRequest(n)
      PROVE  NameInv'
  BY <1>21 DEF NameInv, TypeOK, Mine, Fresh, PurgeRequest
<1>22. ASSUME NEW n \in Name, SkipRequest(n)
      PROVE  NameInv'
  BY <1>22 DEF NameInv, TypeOK, Mine, Fresh, SkipRequest
<1>23. ASSUME NEW n \in Name, ReadRequest(n)
      PROVE  NameInv'
  BY <1>23 DEF NameInv, TypeOK, Mine, Fresh, ReadRequest
<1>24. ASSUME Evaluate
      PROVE  NameInv'
  BY <1>24 DEF NameInv, TypeOK, Mine, Fresh, Evaluate, Count
<1>25. ASSUME Reply
      PROVE  NameInv'
  BY <1>25 DEF NameInv, TypeOK, Mine, Fresh, Reply
<1>26. ASSUME RemoveRequest
      PROVE  NameInv'
  BY <1>26 DEF NameInv, TypeOK, Mine, Fresh, RemoveRequest, NoJob
<1>27. ASSUME TickEnd
      PROVE  NameInv'
  BY <1>27 DEF NameInv, TypeOK, Mine, Fresh, TickEnd
<1>28. ASSUME OpenPacketTracer
      PROVE  NameInv'
  BY <1>28 DEF NameInv, TypeOK, Mine, Fresh, OpenPacketTracer
<1>29. ASSUME ClosePacketTracer
      PROVE  NameInv'
  BY <1>29 DEF NameInv, TypeOK, Mine, Fresh, ClosePacketTracer, NoJob
<1>30. ASSUME NEW n \in Name, AgeRequest(n)
      PROVE  NameInv'
  BY <1>30 DEF NameInv, TypeOK, Mine, Fresh, AgeRequest
<1>31. ASSUME NEW n \in Name, AgeResponse(n)
      PROVE  NameInv'
  BY <1>31 DEF NameInv, TypeOK, Mine, Fresh, AgeResponse
<1>32. ASSUME UNCHANGED vars
      PROVE  NameInv'
  BY <1>32 DEF NameInv, TypeOK, Mine, Fresh, vars
<1> QED
  BY <1>1, <1>2, <1>3, <1>4, <1>5, <1>6, <1>7, <1>8, <1>9, <1>10, <1>11, <1>12,
     <1>13, <1>14, <1>15, <1>16, <1>17, <1>18, <1>19, <1>20, <1>21, <1>22, <1>23,
     <1>24, <1>25, <1>26, <1>27, <1>28, <1>29, <1>30, <1>31, <1>32
     DEF Next, ClientCall, ClientStep, EngineStep, Age

\* Every step keeps one name and one client per operation.
LEMMA OpStep ==
    ASSUME TypeOK, ControlInv, NameInv, OpInv, [Next]_vars
    PROVE  OpInv'
<1> USE DEF dir, engine, local, reports, history
<1>1. ASSUME NEW c \in Client, NEW o \in Op, Send(c, o)
      PROVE  OpInv'
  BY <1>1, BridgeAssumption DEF OpInv, TypeOK, Send, BeginCollect
<1>2. ASSUME NEW c \in Client, CollectCompleted(c)
      PROVE  OpInv'
  BY <1>2 DEF OpInv, TypeOK, CollectCompleted, BeginCollect
<1>3. ASSUME NEW c \in Client, NEW o \in Op, SendAndWait(c, o)
      PROVE  OpInv'
  BY <1>3, BridgeAssumption DEF OpInv, TypeOK, SendAndWait, WriteRequest
<1>4. ASSUME NEW c \in Client, NEW o \in Op, SendAndWaitRefused(c, o)
      PROVE  OpInv'
  BY <1>4 DEF OpInv, TypeOK, SendAndWaitRefused
<1>5. ASSUME NEW c \in Client, NEW n \in Name, KeepPending(c, n)
      PROVE  OpInv'
  BY <1>5 DEF OpInv, TypeOK, KeepPending
<1>6. ASSUME NEW c \in Client, NEW n \in Name, TakePending(c, n)
      PROVE  OpInv'
  BY <1>6 DEF OpInv, TypeOK, TakePending
<1>7. ASSUME NEW c \in Client, RetirePending(c)
      PROVE  OpInv'
  BY <1>7 DEF OpInv, TypeOK, RetirePending, DiscardRequest, RemoveOwnRequest,
     FailToRemoveRequest
<1>8. ASSUME NEW c \in Client, CollectEnd(c)
      PROVE  OpInv'
  BY <1>8 DEF OpInv, TypeOK, CollectEnd, Return
<1>9. ASSUME NEW c \in Client, SendWrite(c)
      PROVE  OpInv'
  BY <1>9, BridgeAssumption DEF OpInv, TypeOK, SendWrite, WriteRequest, Return
<1>10. ASSUME NEW c \in Client, SendRefused(c)
      PROVE  OpInv'
  BY <1>10 DEF OpInv, TypeOK, SendRefused, Return
<1>11. ASSUME NEW c \in Client, TakeResponse(c)
      PROVE  OpInv'
  BY <1>11 DEF OpInv, TypeOK, TakeResponse
<1>12. ASSUME NEW c \in Client, Complete(c)
      PROVE  OpInv'
  BY <1>12 DEF OpInv, TypeOK, Complete, DiscardRequest, RemoveOwnRequest,
     FailToRemoveRequest, Return
<1>13. ASSUME NEW c \in Client, CancelExecuted(c)
      PROVE  OpInv'
  BY <1>13 DEF OpInv, TypeOK, CancelExecuted, DiscardResponse, Return
<1>14. ASSUME NEW c \in Client, CancelUnknown(c)
      PROVE  OpInv'
  BY <1>14 DEF OpInv, TypeOK, CancelUnknown, FailToRemoveRequest, DiscardResponse,
     Return
<1>15. ASSUME NEW c \in Client, CancelWithdraw(c)
      PROVE  OpInv'
  BY <1>15 DEF OpInv, TypeOK, CancelWithdraw, RemoveOwnRequest
<1>16. ASSUME NEW c \in Client, ObserveLate(c)
      PROVE  OpInv'
  BY <1>16 DEF OpInv, TypeOK, ObserveLate, DiscardResponse, Return
<1>17. ASSUME NEW c \in Client, ObserveNothing(c)
      PROVE  OpInv'
  BY <1>17 DEF OpInv, TypeOK, ObserveNothing, Return
<1>18. ASSUME NEW c \in Client, Restart(c)
      PROVE  OpInv'
  <2> USE BridgeAssumption DEF Restart, Return
  <2>1. issued' = issued /\ (\A n \in Name : issued[n] # NoOp => issued[n] \in Op)
    BY <1>18 DEF TypeOK, Payload
  <2>2. \A x \in Op : outcome[x] # "new" => outcome'[x] # "new"
    BY <1>18 DEF TypeOK
  <2>3. \A n, m \in Name : issued'[n] # NoOp /\ issued'[n] = issued'[m] => n = m
    BY <2>1 DEF OpInv
  <2>4. \A n \in Name : issued'[n] # NoOp => outcome'[issued'[n]] # "new"
    BY <2>1, <2>2 DEF OpInv
  <2>5. \A d \in Client : op'[d] # NoOp => outcome'[op'[d]] = "running"
    BY <1>18 DEF OpInv, TypeOK, Payload
  <2>6. \A d, e \in Client : op'[d] # NoOp /\ op'[d] = op'[e] => d = e
    BY <1>18 DEF OpInv, TypeOK
  <2>7. \A d \in Client : call'[d] = "send" => \A n \in Name : issued'[n] # op'[d]
    BY <1>18, <2>1 DEF OpInv, TypeOK
  <2> QED
    BY <2>3, <2>4, <2>5, <2>6, <2>7 DEF OpInv
<1>19. ASSUME EngineStep \/ OpenPacketTracer \/ ClosePacketTracer \/ Age \/ UNCHANGED vars
      PROVE  OpInv'
  BY <1>19, EngineStepsAside DEF OpInv
<1> QED
  BY <1>1, <1>2, <1>3, <1>4, <1>5, <1>6, <1>7, <1>8, <1>9, <1>10, <1>11, <1>12,
     <1>13, <1>14, <1>15, <1>16, <1>17, <1>18, <1>19
     DEF Next, ClientCall, ClientStep

\* The only step that hands out a body hands out the one issued for the name.
LEMMA AnswerStep ==
    ASSUME TypeOK, ControlInv, NameInv, AnswerIsOwn, [Next]_vars
    PROVE  AnswerIsOwn'
<1>1. ASSUME NEW c \in Client, TakeResponse(c)
      PROVE  AnswerIsOwn'
  BY <1>1 DEF AnswerIsOwn, NameInv, TypeOK, ControlInv, TakeResponse, dir, engine,
     local, reports, history
<1>2. ASSUME NEW c \in Client, ClientCall(c) \/ ClientStep(c) \/ Restart(c), ~TakeResponse(c)
      PROVE  AnswerIsOwn'
  <2>1. answer' = answer
    BY <1>2 DEF ClientCall, ClientStep, Send, CollectCompleted, BeginCollect,
       SendAndWait, SendAndWaitRefused, KeepPending, TakePending, RetirePending,
       CollectEnd, SendWrite, SendRefused, Complete, CancelExecuted, CancelUnknown,
       CancelWithdraw, ObserveLate, ObserveNothing, Restart, reports
  <2> QED
    BY <2>1 DEF AnswerIsOwn
<1>3. ASSUME EngineStep \/ OpenPacketTracer \/ ClosePacketTracer \/ Age \/ UNCHANGED vars
      PROVE  AnswerIsOwn'
  BY <1>3, EngineStepsAside DEF AnswerIsOwn
<1> QED
  BY <1>1, <1>2, <1>3 DEF Next, ClientStep

\* Every step that leaves evidence of an evaluation comes after one: a response,
\* a request the engine removed, a report of the client.
LEMMA EvaluatedStep ==
    ASSUME TypeOK, ControlInv, NameInv, OpInv, AgeInv, EvaluatedInv, [Next]_vars
    PROVE  EvaluatedInv'
<1> USE DEF dir, engine, local, reports, history
<1>1. ASSUME NEW c \in Client, NEW o \in Op, Send(c, o)
      PROVE  EvaluatedInv'
  BY <1>1 DEF EvaluatedInv, ReportedWasEvaluated, CollectedWasEvaluated, TypeOK,
     Send, BeginCollect
<1>2. ASSUME NEW c \in Client, CollectCompleted(c)
      PROVE  EvaluatedInv'
  BY <1>2 DEF EvaluatedInv, ReportedWasEvaluated, CollectedWasEvaluated, TypeOK,
     CollectCompleted, BeginCollect
<1>3. ASSUME NEW c \in Client, NEW o \in Op, SendAndWait(c, o)
      PROVE  EvaluatedInv'
  <2> DEFINE m == NextName(c)
  <2>1. seq[c] < MaxSeq
    BY <1>3 DEF SendAndWait, WriteRequest
  <2>2. m \in Name /\ issued[m] = NoOp /\ req[m] = NoOp
    BY <2>1, NextNameFresh
  <2>3. /\ req' = [req EXCEPT ![m] = o] /\ issued' = [issued EXCEPT ![m] = o]
        /\ res' = res /\ execs' = execs /\ job' = job /\ se' = se
        /\ pending' = pending /\ boot' = boot
        /\ pc' = [pc EXCEPT ![c] = "wait"] /\ op' = [op EXCEPT ![c] = o]
        /\ cur' = [cur EXCEPT ![c] = m] /\ outcome' = [outcome EXCEPT ![o] = "running"]
        /\ outcome[o] = "new" /\ pc[c] = "idle"
    BY <1>3 DEF SendAndWait, WriteRequest
  <2> HIDE DEF m
  <2>4. \A n \in Name : res'[n] # NoOp => execs'[res'[n]] >= 1
    BY <2>3 DEF EvaluatedInv
  <2>5. (se \in {"reply", "remove"} => execs[job.op] >= 1)'
    BY <2>3 DEF EvaluatedInv
  <2>6. ASSUME NEW d \in Client
        PROVE  /\ pc'[d] = "wait" /\ req'[cur'[d]] = NoOp => execs'[op'[d]] >= 1
               /\ pc'[d] = "retire" => execs'[issued'[cur'[d]]] >= 1
    <3>1. CASE d = c
      BY <2>2, <2>3, <3>1, BridgeAssumption DEF TypeOK
    <3>2. CASE d # c /\ cur[d] # m
      BY <2>2, <2>3, <3>2 DEF TypeOK, EvaluatedInv
    <3>3. CASE d # c /\ cur[d] = m
      <4>1. pc[d] # "wait" /\ pc[d] # "retire"
        BY <2>2, <3>3, BridgeAssumption DEF TypeOK, ControlInv, NameInv
      <4> QED
        BY <2>3, <3>3, <4>1 DEF TypeOK
    <3> QED
      BY <3>1, <3>2, <3>3
  <2>7. ReportedWasEvaluated'
    BY <2>3 DEF TypeOK, EvaluatedInv, ReportedWasEvaluated
  <2>8. CollectedWasEvaluated'
    BY <2>2, <2>3 DEF TypeOK, Payload, EvaluatedInv, CollectedWasEvaluated
  <2> QED
    BY <2>4, <2>5, <2>6, <2>7, <2>8 DEF EvaluatedInv
<1>4. ASSUME NEW c \in Client, NEW o \in Op, SendAndWaitRefused(c, o)
      PROVE  EvaluatedInv'
  BY <1>4 DEF EvaluatedInv, ReportedWasEvaluated, CollectedWasEvaluated, TypeOK,
     SendAndWaitRefused
<1>5. ASSUME NEW c \in Client, NEW n \in Name, KeepPending(c, n)
      PROVE  EvaluatedInv'
  BY <1>5 DEF EvaluatedInv, ReportedWasEvaluated, CollectedWasEvaluated, TypeOK,
     KeepPending
<1>6. ASSUME NEW c \in Client, NEW n \in Name, TakePending(c, n)
      PROVE  EvaluatedInv'
  BY <1>6 DEF EvaluatedInv, ReportedWasEvaluated, CollectedWasEvaluated, TypeOK,
     NameInv, TakePending
<1>7. ASSUME NEW c \in Client, RetirePending(c)
      PROVE  EvaluatedInv'
  BY <1>7 DEF EvaluatedInv, ReportedWasEvaluated, CollectedWasEvaluated, TypeOK,
     ControlInv, NameInv, RetirePending, DiscardRequest, RemoveOwnRequest,
     FailToRemoveRequest
<1>8. ASSUME NEW c \in Client, CollectEnd(c)
      PROVE  EvaluatedInv'
  BY <1>8 DEF EvaluatedInv, ReportedWasEvaluated, CollectedWasEvaluated, TypeOK,
     CollectEnd, Return
<1>9. ASSUME NEW c \in Client, SendWrite(c)
      PROVE  EvaluatedInv'
  BY <1>9 DEF EvaluatedInv, ReportedWasEvaluated, CollectedWasEvaluated, OpInv,
     TypeOK, ControlInv, NameInv, NextName, Mine, SendWrite, WriteRequest, Return
<1>10. ASSUME NEW c \in Client, SendRefused(c)
      PROVE  EvaluatedInv'
  BY <1>10 DEF EvaluatedInv, ReportedWasEvaluated, CollectedWasEvaluated, TypeOK,
     SendRefused, Return
<1>11. ASSUME NEW c \in Client, TakeResponse(c)
      PROVE  EvaluatedInv'
  BY <1>11 DEF EvaluatedInv, ReportedWasEvaluated, CollectedWasEvaluated, TypeOK,
     NameInv, TakeResponse
<1>12. ASSUME NEW c \in Client, Complete(c)
      PROVE  EvaluatedInv'
  BY <1>12 DEF EvaluatedInv, ReportedWasEvaluated, CollectedWasEvaluated, TypeOK,
     ControlInv, NameInv, Complete, DiscardRequest, RemoveOwnRequest,
     FailToRemoveRequest, Return
<1>13. ASSUME NEW c \in Client, CancelExecuted(c)
      PROVE  EvaluatedInv'
  BY <1>13 DEF EvaluatedInv, ReportedWasEvaluated, CollectedWasEvaluated, TypeOK,
     CancelExecuted, DiscardResponse, Return
<1>14. ASSUME NEW c \in Client, CancelUnknown(c)
      PROVE  EvaluatedInv'
  BY <1>14 DEF EvaluatedInv, ReportedWasEvaluated, CollectedWasEvaluated, TypeOK,
     CancelUnknown, FailToRemoveRequest, DiscardResponse, Return
<1>15. ASSUME NEW c \in Client, CancelWithdraw(c)
      PROVE  EvaluatedInv'
  BY <1>15 DEF EvaluatedInv, ReportedWasEvaluated, CollectedWasEvaluated, OpInv,
     TypeOK, ControlInv, NameInv, CancelWithdraw, RemoveOwnRequest
<1>16. ASSUME NEW c \in Client, ObserveLate(c)
      PROVE  EvaluatedInv'
  BY <1>16 DEF EvaluatedInv, ReportedWasEvaluated, CollectedWasEvaluated, TypeOK,
     ControlInv, NameInv, ObserveLate, DiscardResponse, Return
<1>17. ASSUME NEW c \in Client, ObserveNothing(c)
      PROVE  EvaluatedInv'
  BY <1>17 DEF EvaluatedInv, ReportedWasEvaluated, CollectedWasEvaluated, AgeInv,
     TypeOK, ObserveNothing, Return
<1>18. ASSUME NEW c \in Client, Restart(c)
      PROVE  EvaluatedInv'
  <2>1. /\ UNCHANGED <<req, res, execs, job, se, issued>>
        /\ boot' = [boot EXCEPT ![c] = @ + 1]
        /\ pending' = [pending EXCEPT ![c] = {}]
        /\ pc' = [pc EXCEPT ![c] = "idle"] /\ op' = [op EXCEPT ![c] = NoOp]
        /\ cur' = [cur EXCEPT ![c] = NoName]
        /\ outcome' = [x \in Op |-> IF x = op[c] THEN "lost" ELSE outcome[x]]
    BY <1>18 DEF Restart, Return
  <2>2. \A n \in Name : res'[n] # NoOp => execs'[res'[n]] >= 1
    BY <2>1 DEF EvaluatedInv
  <2>3. (se \in {"reply", "remove"} => execs[job.op] >= 1)'
    BY <2>1 DEF EvaluatedInv
  <2>4. \A d \in Client :
          /\ pc'[d] = "wait" /\ req'[cur'[d]] = NoOp => execs'[op'[d]] >= 1
          /\ pc'[d] = "retire" => execs'[issued'[cur'[d]]] >= 1
    BY <2>1 DEF TypeOK, EvaluatedInv
  <2>5. ReportedWasEvaluated'
    BY <2>1 DEF EvaluatedInv, ReportedWasEvaluated
  <2>6. ASSUME NEW n \in Name, issued'[n] # NoOp, n.boot = boot'[n.client],
               outcome'[issued'[n]] = "queued", n \notin pending'[n.client]
        PROVE  execs'[issued'[n]] >= 1
    <3>1. n.client # c
      <4>1. n.client = c => Fresh(n)
        BY <2>1, <2>6 DEF TypeOK, Fresh, Name
      <4> QED
        BY <2>1, <2>6, <4>1 DEF NameInv
    <3>2. n.boot = boot[n.client] /\ n \notin pending[n.client] /\ outcome[issued[n]] = "queued"
      BY <2>1, <2>6, <3>1 DEF TypeOK, Name, Payload
    <3> QED
      BY <2>1, <2>6, <3>2 DEF EvaluatedInv, CollectedWasEvaluated
  <2>7. CollectedWasEvaluated'
    BY <2>6 DEF CollectedWasEvaluated
  <2> QED
    BY <2>2, <2>3, <2>4, <2>5, <2>7 DEF EvaluatedInv
<1>19. ASSUME TickStart
      PROVE  EvaluatedInv'
  BY <1>19 DEF EvaluatedInv, ReportedWasEvaluated, CollectedWasEvaluated, TypeOK,
     TickStart
<1>20. ASSUME NEW n \in Name, VisitResponse(n)
      PROVE  EvaluatedInv'
  BY <1>20 DEF EvaluatedInv, ReportedWasEvaluated, CollectedWasEvaluated, TypeOK,
     VisitResponse
<1>21. ASSUME NEW n \in Name, PurgeRequest(n)
      PROVE  EvaluatedInv'
  BY <1>21 DEF EvaluatedInv, ReportedWasEvaluated, CollectedWasEvaluated, AgeInv,
     TypeOK, PurgeRequest
<1>22. ASSUME NEW n \in Name, SkipRequest(n)
      PROVE  EvaluatedInv'
  BY <1>22 DEF EvaluatedInv, ReportedWasEvaluated, CollectedWasEvaluated, TypeOK,
     SkipRequest
<1>23. ASSUME NEW n \in Name, ReadRequest(n)
      PROVE  EvaluatedInv'
  BY <1>23 DEF EvaluatedInv, ReportedWasEvaluated, CollectedWasEvaluated, TypeOK,
     ReadRequest
<1>24. ASSUME Evaluate
      PROVE  EvaluatedInv'
  <2>1. /\ se = "evaluate" /\ se' = "reply" /\ job.op \in Op
        /\ execs' = [execs EXCEPT ![job.op] = Count(@)]
        /\ UNCHANGED <<req, res, job, pc, op, cur, pending, boot, outcome, issued>>
    BY <1>24 DEF Evaluate, TypeOK
  <2>2. execs'[job.op] >= 1 /\ \A x \in Op : execs[x] >= 1 => execs'[x] >= 1
    BY <2>1 DEF TypeOK, Count
  <2>3. \A n \in Name : res'[n] # NoOp => execs'[res'[n]] >= 1
    BY <2>1, <2>2 DEF TypeOK, Payload, EvaluatedInv
  <2>4. \A d \in Client :
          /\ pc'[d] = "wait" /\ req'[cur'[d]] = NoOp => execs'[op'[d]] >= 1
          /\ pc'[d] = "retire" => execs'[issued'[cur'[d]]] >= 1
    <3>1. \A d \in Client : /\ pc[d] = "wait" => op[d] \in Op
                            /\ pc[d] = "retire" => issued[cur[d]] \in Op
      BY BridgeAssumption DEF TypeOK, Payload, ControlInv, NameInv
    <3> QED
      BY <2>1, <2>2, <3>1 DEF EvaluatedInv
  <2>5. ReportedWasEvaluated'
    BY <2>1, <2>2 DEF EvaluatedInv, ReportedWasEvaluated
  <2>6. CollectedWasEvaluated'
    BY <2>1, <2>2 DEF TypeOK, Payload, EvaluatedInv, CollectedWasEvaluated
  <2> QED
    BY <2>1, <2>2, <2>3, <2>4, <2>5, <2>6 DEF EvaluatedInv
<1>25. ASSUME Reply
      PROVE  EvaluatedInv'
  BY <1>25 DEF EvaluatedInv, ReportedWasEvaluated, CollectedWasEvaluated, TypeOK, Reply
<1>26. ASSUME RemoveRequest
      PROVE  EvaluatedInv'
  BY <1>26 DEF EvaluatedInv, ReportedWasEvaluated, CollectedWasEvaluated, TypeOK,
     ControlInv, NameInv, RemoveRequest, NoJob
<1>27. ASSUME TickEnd
      PROVE  EvaluatedInv'
  BY <1>27 DEF EvaluatedInv, ReportedWasEvaluated, CollectedWasEvaluated, TypeOK,
     TickEnd
<1>28. ASSUME OpenPacketTracer
      PROVE  EvaluatedInv'
  BY <1>28 DEF EvaluatedInv, ReportedWasEvaluated, CollectedWasEvaluated, TypeOK,
     OpenPacketTracer
<1>29. ASSUME ClosePacketTracer
      PROVE  EvaluatedInv'
  BY <1>29 DEF EvaluatedInv, ReportedWasEvaluated, CollectedWasEvaluated, TypeOK,
     ClosePacketTracer, NoJob
<1>30. ASSUME NEW n \in Name, AgeRequest(n)
      PROVE  EvaluatedInv'
  BY <1>30 DEF EvaluatedInv, ReportedWasEvaluated, CollectedWasEvaluated, TypeOK,
     AgeRequest
<1>31. ASSUME NEW n \in Name, AgeResponse(n)
      PROVE  EvaluatedInv'
  BY <1>31 DEF EvaluatedInv, ReportedWasEvaluated, CollectedWasEvaluated, TypeOK,
     AgeResponse
<1>32. ASSUME UNCHANGED vars
      PROVE  EvaluatedInv'
  BY <1>32 DEF EvaluatedInv, ReportedWasEvaluated, CollectedWasEvaluated, TypeOK, vars
<1> QED
  BY <1>1, <1>2, <1>3, <1>4, <1>5, <1>6, <1>7, <1>8, <1>9, <1>10, <1>11, <1>12,
     <1>13, <1>14, <1>15, <1>16, <1>17, <1>18, <1>19, <1>20, <1>21, <1>22, <1>23,
     <1>24, <1>25, <1>26, <1>27, <1>28, <1>29, <1>30, <1>31, <1>32
     DEF Next, ClientCall, ClientStep, EngineStep, Age

\* Once a request is retired no step brings it back, so that what the engine
\* has read before is all it may still evaluate.
LEMMA RetiredStep ==
    ASSUME TypeOK, ControlInv, NameInv, OpInv, RetiredInv, [Next]_vars
    PROVE  RetiredInv'
<1> USE DEF dir, engine, local, reports, history
<1>1. ASSUME NEW c \in Client, NEW o \in Op, Send(c, o)
      PROVE  RetiredInv'
  BY <1>1 DEF RetiredInv, TypeOK, Send, BeginCollect
<1>2. ASSUME NEW c \in Client, CollectCompleted(c)
      PROVE  RetiredInv'
  BY <1>2 DEF RetiredInv, TypeOK, CollectCompleted, BeginCollect
<1>3. ASSUME NEW c \in Client, NEW o \in Op, SendAndWait(c, o)
      PROVE  RetiredInv'
  <2> DEFINE m == NextName(c)
  <2>1. seq[c] < MaxSeq
    BY <1>3 DEF SendAndWait, WriteRequest
  <2>2. m \in Name /\ issued[m] = NoOp
    BY <2>1, NextNameFresh
  <2>3. /\ req' = [req EXCEPT ![m] = o] /\ issued' = [issued EXCEPT ![m] = o]
        /\ UNCHANGED <<retired, after, job, se>>
    BY <1>3 DEF SendAndWait, WriteRequest
  <2>4. o \in Op /\ \A n \in Name : issued[n] # o
    BY <1>3, BridgeAssumption DEF SendAndWait, OpInv, TypeOK
  <2> HIDE DEF m
  <2>5. retired' \subseteq Op /\ \A x \in retired' : \E n \in Name : issued'[n] = x
    <3> SUFFICES ASSUME NEW x \in retired
                 PROVE  \E n \in Name : issued'[n] = x
      BY <2>3 DEF RetiredInv
    <3>1. PICK n \in Name : issued[n] = x
      BY DEF RetiredInv
    <3>2. x # NoOp
      BY BridgeAssumption DEF RetiredInv
    <3> QED
      BY <2>2, <2>3, <3>1, <3>2 DEF TypeOK
  <2>6. \A n \in Name : req'[n] # NoOp => req'[n] \notin retired'
    BY <2>2, <2>3, <2>4 DEF TypeOK, RetiredInv
  <2> QED
    BY <2>3, <2>5, <2>6 DEF RetiredInv
<1>4. ASSUME NEW c \in Client, NEW o \in Op, SendAndWaitRefused(c, o)
      PROVE  RetiredInv'
  BY <1>4 DEF RetiredInv, TypeOK, SendAndWaitRefused
<1>5. ASSUME NEW c \in Client, NEW n \in Name, KeepPending(c, n)
      PROVE  RetiredInv'
  BY <1>5 DEF RetiredInv, TypeOK, KeepPending
<1>6. ASSUME NEW c \in Client, NEW n \in Name, TakePending(c, n)
      PROVE  RetiredInv'
  BY <1>6 DEF RetiredInv, TypeOK, TakePending
<1>7. ASSUME NEW c \in Client, RetirePending(c)
      PROVE  RetiredInv'
  <2>1. /\ cur[c] \in Name /\ issued[cur[c]] \in Op
        /\ UNCHANGED <<issued, after, job, se>>
    BY <1>7, BridgeAssumption DEF RetirePending, TypeOK, Payload, ControlInv, NameInv
  <2>2. CASE RemoveOwnRequest(cur[c])
    <3>1. retired' = retired \cup {issued[cur[c]]} /\ req' = [req EXCEPT ![cur[c]] = NoOp]
      BY <2>2 DEF RemoveOwnRequest
    <3>2. \A x \in retired' : \E n \in Name : issued'[n] = x
      BY <2>1, <3>1 DEF RetiredInv
    <3>3. ASSUME NEW n \in Name, req'[n] # NoOp
          PROVE  req'[n] \notin retired'
      <4>1. n # cur[c] /\ req'[n] = req[n]
        BY <2>1, <3>1, <3>3 DEF TypeOK
      <4>2. req[n] = issued[n] /\ issued[n] # issued[cur[c]]
        BY <2>1, <3>3, <4>1 DEF NameInv, OpInv
      <4> QED
        BY <3>1, <3>3, <4>1, <4>2 DEF RetiredInv
    <3> QED
      BY <2>1, <3>1, <3>2, <3>3 DEF RetiredInv
  <2>3. CASE FailToRemoveRequest(cur[c])
    BY <2>1, <2>3 DEF FailToRemoveRequest, RetiredInv
  <2> QED
    BY <1>7, <2>2, <2>3 DEF RetirePending, DiscardRequest
<1>8. ASSUME NEW c \in Client, CollectEnd(c)
      PROVE  RetiredInv'
  BY <1>8 DEF RetiredInv, TypeOK, CollectEnd, Return
<1>9. ASSUME NEW c \in Client, SendWrite(c)
      PROVE  RetiredInv'
  <2> DEFINE m == NextName(c)
  <2>1. seq[c] < MaxSeq
    BY <1>9 DEF SendWrite, WriteRequest
  <2>2. m \in Name /\ issued[m] = NoOp
    BY <2>1, NextNameFresh
  <2>3. /\ req' = [req EXCEPT ![m] = op[c]] /\ issued' = [issued EXCEPT ![m] = op[c]]
        /\ UNCHANGED <<retired, after, job, se>>
    BY <1>9 DEF SendWrite, WriteRequest
  <2>4. op[c] \in Op /\ \A n \in Name : issued[n] # op[c]
    BY <1>9, BridgeAssumption DEF SendWrite, OpInv, TypeOK
  <2> HIDE DEF m
  <2>5. retired' \subseteq Op /\ \A x \in retired' : \E n \in Name : issued'[n] = x
    <3> SUFFICES ASSUME NEW x \in retired
                 PROVE  \E n \in Name : issued'[n] = x
      BY <2>3 DEF RetiredInv
    <3>1. PICK n \in Name : issued[n] = x
      BY DEF RetiredInv
    <3>2. x # NoOp
      BY BridgeAssumption DEF RetiredInv
    <3> QED
      BY <2>2, <2>3, <3>1, <3>2 DEF TypeOK
  <2>6. \A n \in Name : req'[n] # NoOp => req'[n] \notin retired'
    BY <2>2, <2>3, <2>4 DEF TypeOK, RetiredInv
  <2> QED
    BY <2>3, <2>5, <2>6 DEF RetiredInv
<1>10. ASSUME NEW c \in Client, SendRefused(c)
      PROVE  RetiredInv'
  BY <1>10 DEF RetiredInv, TypeOK, SendRefused, Return
<1>11. ASSUME NEW c \in Client, TakeResponse(c)
      PROVE  RetiredInv'
  BY <1>11 DEF RetiredInv, TypeOK, TakeResponse
<1>12. ASSUME NEW c \in Client, Complete(c)
      PROVE  RetiredInv'
  <2>1. /\ cur[c] \in Name /\ issued[cur[c]] \in Op
        /\ UNCHANGED <<issued, after, job, se>>
    BY <1>12, BridgeAssumption DEF Complete, TypeOK, Payload, ControlInv, NameInv
  <2>2. CASE RemoveOwnRequest(cur[c])
    <3>1. retired' = retired \cup {issued[cur[c]]} /\ req' = [req EXCEPT ![cur[c]] = NoOp]
      BY <2>2 DEF RemoveOwnRequest
    <3>2. \A x \in retired' : \E n \in Name : issued'[n] = x
      BY <2>1, <3>1 DEF RetiredInv
    <3>3. ASSUME NEW n \in Name, req'[n] # NoOp
          PROVE  req'[n] \notin retired'
      <4>1. n # cur[c] /\ req'[n] = req[n]
        BY <2>1, <3>1, <3>3 DEF TypeOK
      <4>2. req[n] = issued[n] /\ issued[n] # issued[cur[c]]
        BY <2>1, <3>3, <4>1 DEF NameInv, OpInv
      <4> QED
        BY <3>1, <3>3, <4>1, <4>2 DEF RetiredInv
    <3> QED
      BY <2>1, <3>1, <3>2, <3>3 DEF RetiredInv
  <2>3. CASE FailToRemoveRequest(cur[c])
    BY <2>1, <2>3 DEF FailToRemoveRequest, RetiredInv
  <2> QED
    BY <1>12, <2>2, <2>3 DEF Complete, DiscardRequest
<1>13. ASSUME NEW c \in Client, CancelExecuted(c)
      PROVE  RetiredInv'
  BY <1>13 DEF RetiredInv, OpInv, TypeOK, ControlInv, NameInv, CancelExecuted,
     DiscardResponse, Return
<1>14. ASSUME NEW c \in Client, CancelUnknown(c)
      PROVE  RetiredInv'
  BY <1>14 DEF RetiredInv, TypeOK, CancelUnknown, FailToRemoveRequest,
     DiscardResponse, Return
<1>15. ASSUME NEW c \in Client, CancelWithdraw(c)
      PROVE  RetiredInv'
  <2>1. /\ cur[c] \in Name /\ issued[cur[c]] \in Op
        /\ UNCHANGED <<issued, after, job, se>>
    BY <1>15, BridgeAssumption DEF CancelWithdraw, TypeOK, Payload, ControlInv, NameInv
  <2>2. CASE RemoveOwnRequest(cur[c])
    <3>1. retired' = retired \cup {issued[cur[c]]} /\ req' = [req EXCEPT ![cur[c]] = NoOp]
      BY <2>2 DEF RemoveOwnRequest
    <3>2. \A x \in retired' : \E n \in Name : issued'[n] = x
      BY <2>1, <3>1 DEF RetiredInv
    <3>3. ASSUME NEW n \in Name, req'[n] # NoOp
          PROVE  req'[n] \notin retired'
      <4>1. n # cur[c] /\ req'[n] = req[n]
        BY <2>1, <3>1, <3>3 DEF TypeOK
      <4>2. req[n] = issued[n] /\ issued[n] # issued[cur[c]]
        BY <2>1, <3>3, <4>1 DEF NameInv, OpInv
      <4> QED
        BY <3>1, <3>3, <4>1, <4>2 DEF RetiredInv
    <3> QED
      BY <2>1, <3>1, <3>2, <3>3 DEF RetiredInv
  <2>3. CASE FailToRemoveRequest(cur[c])
    BY <2>1, <2>3 DEF FailToRemoveRequest, RetiredInv
  <2> QED
    BY <1>15, <2>2, <2>3 DEF CancelWithdraw, DiscardRequest
<1>16. ASSUME NEW c \in Client, ObserveLate(c)
      PROVE  RetiredInv'
  BY <1>16 DEF RetiredInv, TypeOK, ObserveLate, DiscardResponse, Return
<1>17. ASSUME NEW c \in Client, ObserveNothing(c)
      PROVE  RetiredInv'
  BY <1>17 DEF RetiredInv, TypeOK, ObserveNothing, Return
<1>18. ASSUME NEW c \in Client, Restart(c)
      PROVE  RetiredInv'
  BY <1>18 DEF RetiredInv, TypeOK, Restart, Return
<1>19. ASSUME TickStart
      PROVE  RetiredInv'
  BY <1>19 DEF RetiredInv, TypeOK, TickStart
<1>20. ASSUME NEW n \in Name, VisitResponse(n)
      PROVE  RetiredInv'
  BY <1>20 DEF RetiredInv, TypeOK, VisitResponse
<1>21. ASSUME NEW n \in Name, PurgeRequest(n)
      PROVE  RetiredInv'
  BY <1>21 DEF RetiredInv, TypeOK, PurgeRequest
<1>22. ASSUME NEW n \in Name, SkipRequest(n)
      PROVE  RetiredInv'
  BY <1>22 DEF RetiredInv, TypeOK, SkipRequest
<1>23. ASSUME NEW n \in Name, ReadRequest(n)
      PROVE  RetiredInv'
  <2>1. /\ req[n] # NoOp /\ job' = [name |-> n, op |-> req[n]]
        /\ UNCHANGED <<issued, req, retired, after>>
    BY <1>23 DEF ReadRequest
  <2>2. req[n] \in Op /\ req[n] \notin retired
    BY <2>1 DEF TypeOK, Payload, RetiredInv
  <2>3. after[req[n]] = 0
    BY <2>2 DEF RetiredInv
  <2> QED
    BY <2>1, <2>3 DEF RetiredInv
<1>24. ASSUME Evaluate
      PROVE  RetiredInv'
  BY <1>24 DEF RetiredInv, TypeOK, Evaluate, Count
<1>25. ASSUME Reply
      PROVE  RetiredInv'
  BY <1>25 DEF RetiredInv, TypeOK, Reply
<1>26. ASSUME RemoveRequest
      PROVE  RetiredInv'
  BY <1>26 DEF RetiredInv, TypeOK, RemoveRequest, NoJob
<1>27. ASSUME TickEnd
      PROVE  RetiredInv'
  BY <1>27 DEF RetiredInv, TypeOK, TickEnd
<1>28. ASSUME OpenPacketTracer
      PROVE  RetiredInv'
  BY <1>28 DEF RetiredInv, TypeOK, OpenPacketTracer
<1>29. ASSUME ClosePacketTracer
      PROVE  RetiredInv'
  BY <1>29 DEF RetiredInv, TypeOK, ClosePacketTracer, NoJob
<1>30. ASSUME NEW n \in Name, AgeRequest(n)
      PROVE  RetiredInv'
  BY <1>30 DEF RetiredInv, TypeOK, AgeRequest
<1>31. ASSUME NEW n \in Name, AgeResponse(n)
      PROVE  RetiredInv'
  BY <1>31 DEF RetiredInv, TypeOK, AgeResponse
<1>32. ASSUME UNCHANGED vars
      PROVE  RetiredInv'
  BY <1>32 DEF RetiredInv, TypeOK, vars
<1> QED
  BY <1>1, <1>2, <1>3, <1>4, <1>5, <1>6, <1>7, <1>8, <1>9, <1>10, <1>11, <1>12,
     <1>13, <1>14, <1>15, <1>16, <1>17, <1>18, <1>19, <1>20, <1>21, <1>22, <1>23,
     <1>24, <1>25, <1>26, <1>27, <1>28, <1>29, <1>30, <1>31, <1>32
     DEF Next, ClientCall, ClientStep, EngineStep, Age

\* No step loses track of a request file that is still there, but for one the
\* file system refuses to remove.
LEMMA TrackedStep ==
    ASSUME TypeOK, ControlInv, NameInv, TrackedInv, [Next]_vars
    PROVE  TrackedInv'
<1> USE DEF dir, engine, local, reports, history
<1>1. ASSUME NEW c \in Client, NEW o \in Op, Send(c, o)
      PROVE  TrackedInv'
  BY <1>1 DEF TrackedInv, OwnRequestsAreTracked, TypeOK, Send, BeginCollect
<1>2. ASSUME NEW c \in Client, CollectCompleted(c)
      PROVE  TrackedInv'
  BY <1>2 DEF TrackedInv, OwnRequestsAreTracked, TypeOK, CollectCompleted, BeginCollect
<1>3. ASSUME NEW c \in Client, NEW o \in Op, SendAndWait(c, o)
      PROVE  TrackedInv'
  BY <1>3, BridgeAssumption DEF TrackedInv, OwnRequestsAreTracked, TypeOK,
     ControlInv, NameInv, NextName, Name, Mine, SendAndWait, WriteRequest
<1>4. ASSUME NEW c \in Client, NEW o \in Op, SendAndWaitRefused(c, o)
      PROVE  TrackedInv'
  BY <1>4 DEF TrackedInv, OwnRequestsAreTracked, TypeOK, SendAndWaitRefused
<1>5. ASSUME NEW c \in Client, NEW n \in Name, KeepPending(c, n)
      PROVE  TrackedInv'
  BY <1>5 DEF TrackedInv, OwnRequestsAreTracked, TypeOK, KeepPending
<1>6. ASSUME NEW c \in Client, NEW n \in Name, TakePending(c, n)
      PROVE  TrackedInv'
  BY <1>6, BridgeAssumption DEF TrackedInv, OwnRequestsAreTracked, TypeOK,
     ControlInv, Name, TakePending
<1>7. ASSUME NEW c \in Client, RetirePending(c)
      PROVE  TrackedInv'
  <2>1. /\ cur[c] \in Mine(c) /\ cur[c] \in Name /\ pc[c] \in {"retire", "wait"}
        /\ boot' = boot
    BY <1>7 DEF RetirePending, TypeOK, ControlInv, NameInv, Mine
  <2>2. RemoveOwnRequest(cur[c]) \/ FailToRemoveRequest(cur[c])
    BY <1>7 DEF RetirePending, DiscardRequest
  <2>3. /\ req'[cur[c]] # NoOp => cur[c] \in leaked'
        /\ leaked \subseteq leaked'
        /\ \A n \in Name : req'[n] # NoOp => req[n] # NoOp
    BY <2>1, <2>2 DEF RemoveOwnRequest, FailToRemoveRequest, TypeOK
  <2>4. \A n \in Name : n # cur[c] /\ n \in pending[n.client] \cup {cur[n.client]} =>
          n \in pending'[n.client] \cup {cur'[n.client]}
    BY <1>7 DEF RetirePending, Return, TypeOK, Name
  <2>5. OwnRequestsAreTracked'
    BY <2>1, <2>3, <2>4 DEF TrackedInv, OwnRequestsAreTracked
  <2>6. \A d \in Client : pc'[d] = "observe" => req'[cur'[d]] = NoOp
    BY <1>7, <2>2, <2>3, BridgeAssumption DEF RetirePending, Return, TypeOK, TrackedInv
  <2> QED
    BY <2>5, <2>6 DEF TrackedInv
<1>8. ASSUME NEW c \in Client, CollectEnd(c)
      PROVE  TrackedInv'
  BY <1>8 DEF TrackedInv, OwnRequestsAreTracked, TypeOK, ControlInv, CollectEnd, Return
<1>9. ASSUME NEW c \in Client, SendWrite(c)
      PROVE  TrackedInv'
  BY <1>9 DEF TrackedInv, OwnRequestsAreTracked, TypeOK, ControlInv, NameInv,
     NextName, Mine, SendWrite, WriteRequest, Return
<1>10. ASSUME NEW c \in Client, SendRefused(c)
      PROVE  TrackedInv'
  BY <1>10 DEF TrackedInv, OwnRequestsAreTracked, TypeOK, ControlInv, SendRefused,
     Return
<1>11. ASSUME NEW c \in Client, TakeResponse(c)
      PROVE  TrackedInv'
  BY <1>11 DEF TrackedInv, OwnRequestsAreTracked, TypeOK, TakeResponse
<1>12. ASSUME NEW c \in Client, Complete(c)
      PROVE  TrackedInv'
  <2>1. /\ cur[c] \in Mine(c) /\ cur[c] \in Name /\ pc[c] \in {"retire", "wait"}
        /\ boot' = boot
    BY <1>12 DEF Complete, TypeOK, ControlInv, NameInv, Mine
  <2>2. RemoveOwnRequest(cur[c]) \/ FailToRemoveRequest(cur[c])
    BY <1>12 DEF Complete, DiscardRequest
  <2>3. /\ req'[cur[c]] # NoOp => cur[c] \in leaked'
        /\ leaked \subseteq leaked'
        /\ \A n \in Name : req'[n] # NoOp => req[n] # NoOp
    BY <2>1, <2>2 DEF RemoveOwnRequest, FailToRemoveRequest, TypeOK
  <2>4. \A n \in Name : n # cur[c] /\ n \in pending[n.client] \cup {cur[n.client]} =>
          n \in pending'[n.client] \cup {cur'[n.client]}
    BY <1>12 DEF Complete, Return, TypeOK, Name
  <2>5. OwnRequestsAreTracked'
    BY <2>1, <2>3, <2>4 DEF TrackedInv, OwnRequestsAreTracked
  <2>6. \A d \in Client : pc'[d] = "observe" => req'[cur'[d]] = NoOp
    BY <1>12, <2>2, <2>3, BridgeAssumption DEF Complete, Return, TypeOK, TrackedInv
  <2> QED
    BY <2>5, <2>6 DEF TrackedInv
<1>13. ASSUME NEW c \in Client, CancelExecuted(c)
      PROVE  TrackedInv'
  BY <1>13 DEF TrackedInv, OwnRequestsAreTracked, TypeOK, CancelExecuted,
     DiscardResponse, Return
<1>14. ASSUME NEW c \in Client, CancelUnknown(c)
      PROVE  TrackedInv'
  BY <1>14 DEF TrackedInv, OwnRequestsAreTracked, TypeOK, CancelUnknown,
     FailToRemoveRequest, DiscardResponse, Return
<1>15. ASSUME NEW c \in Client, CancelWithdraw(c)
      PROVE  TrackedInv'
  <2>1. /\ cur[c] \in Mine(c) /\ cur[c] \in Name /\ pc[c] \in {"retire", "wait"}
        /\ boot' = boot
    BY <1>15 DEF CancelWithdraw, TypeOK, ControlInv, NameInv, Mine
  <2>2. RemoveOwnRequest(cur[c]) \/ FailToRemoveRequest(cur[c])
    BY <1>15 DEF CancelWithdraw, DiscardRequest
  <2>3. /\ req'[cur[c]] # NoOp => cur[c] \in leaked'
        /\ leaked \subseteq leaked'
        /\ \A n \in Name : req'[n] # NoOp => req[n] # NoOp
    BY <2>1, <2>2 DEF RemoveOwnRequest, FailToRemoveRequest, TypeOK
  <2>4. \A n \in Name : n # cur[c] /\ n \in pending[n.client] \cup {cur[n.client]} =>
          n \in pending'[n.client] \cup {cur'[n.client]}
    BY <1>15 DEF CancelWithdraw, Return, TypeOK, Name
  <2>5. OwnRequestsAreTracked'
    BY <2>1, <2>3, <2>4 DEF TrackedInv, OwnRequestsAreTracked
  <2>6. \A d \in Client : pc'[d] = "observe" => req'[cur'[d]] = NoOp
    BY <1>15, <2>2, <2>3, BridgeAssumption DEF CancelWithdraw, Return, TypeOK,
       TrackedInv, RemoveOwnRequest
  <2> QED
    BY <2>5, <2>6 DEF TrackedInv
<1>16. ASSUME NEW c \in Client, ObserveLate(c)
      PROVE  TrackedInv'
  BY <1>16 DEF TrackedInv, OwnRequestsAreTracked, TypeOK, ObserveLate,
     DiscardResponse, Return
<1>17. ASSUME NEW c \in Client, ObserveNothing(c)
      PROVE  TrackedInv'
  BY <1>17 DEF TrackedInv, OwnRequestsAreTracked, TypeOK, ObserveNothing, Return
<1>18. ASSUME NEW c \in Client, Restart(c)
      PROVE  TrackedInv'
  BY <1>18 DEF TrackedInv, OwnRequestsAreTracked, TypeOK, NameInv, Fresh, Restart,
     Return
<1>19. ASSUME EngineStep \/ OpenPacketTracer \/ ClosePacketTracer \/ Age \/ UNCHANGED vars
      PROVE  TrackedInv'
  BY <1>19, EngineStepsAside DEF TrackedInv, OwnRequestsAreTracked, TypeOK
<1> QED
  BY <1>1, <1>2, <1>3, <1>4, <1>5, <1>6, <1>7, <1>8, <1>9, <1>10, <1>11, <1>12,
     <1>13, <1>14, <1>15, <1>16, <1>17, <1>18, <1>19
     DEF Next, ClientCall, ClientStep

-----------------------------------------------------------------------------
\* The empty mailbox satisfies the invariant.
LEMMA InitInv == Init => Inv
<1> SUFFICES ASSUME Init PROVE Inv
  OBVIOUS
<1> USE BridgeAssumption DEF Init
<1>1. TypeOK
  BY DEF TypeOK, Payload, NoJob
<1>2. ControlInv
  BY DEF ControlInv
<1>3. NameInv
  BY DEF NameInv
<1>4. OpInv /\ AgeInv
  BY DEF OpInv, AgeInv
<1>5. EvaluatedInv
  BY DEF EvaluatedInv, ReportedWasEvaluated, CollectedWasEvaluated
<1>6. RetiredInv
  BY DEF RetiredInv
<1>7. TrackedInv
  BY DEF TrackedInv, OwnRequestsAreTracked
<1>8. AnswerIsOwn
  BY DEF AnswerIsOwn
<1> QED
  BY <1>1, <1>2, <1>3, <1>4, <1>5, <1>6, <1>7, <1>8 DEF Inv

\* The invariant is inductive.
LEMMA NextInv == Inv /\ [Next]_vars => Inv'
  BY TypeStep, ControlStep, AgeStep, NameStep, OpStep, AnswerStep, EvaluatedStep,
     RetiredStep, TrackedStep DEF Inv

\* Every reachable state satisfies the inductive invariant: the mailbox, the
\* engine and the clients agree on which operation each name stands for, and
\* the history agrees with the files.
THEOREM InvHolds == Spec => []Inv
  BY InitInv, NextInv, PTL DEF Spec

\* The state keeps its types, and a client or the engine inside a request
\* has the name and the operation its next step works on.
THEOREM TypeCorrect == Spec => []TypeOK
<1>1. Inv => TypeOK
  BY DEF Inv
<1> QED
  BY <1>1, InvHolds, PTL

\* send_and_wait returns the result of its own payload or nothing, whatever
\* files earlier runs of the process left in the mailbox.
THEOREM AnswersAreOwn == Spec => []AnswerIsOwn
<1>1. Inv => AnswerIsOwn
  BY DEF Inv
<1> QED
  BY <1>1, InvHolds, PTL

\* COMPLETED and EXECUTED_LATE are only reported of a payload Packet Tracer
\* has evaluated.
THEOREM ReportsAreTrue == Spec => []ReportedWasEvaluated
<1>1. Inv => ReportedWasEvaluated
  BY DEF Inv, EvaluatedInv
<1> QED
  BY <1>1, InvHolds, PTL

\* collect_completed drops a send from _pending only after its evaluation.
THEOREM CollectionIsTrue == Spec => []CollectedWasEvaluated
<1>1. Inv => CollectedWasEvaluated
  BY DEF Inv, EvaluatedInv
<1> QED
  BY <1>1, InvHolds, PTL

\* A process loses track of a request file of its own only when the file
\* system refuses to remove it.
THEOREM RequestsAreTracked == Spec => []OwnRequestsAreTracked
<1>1. Inv => OwnRequestsAreTracked
  BY DEF Inv, TrackedInv
<1> QED
  BY <1>1, InvHolds, PTL

\* Removing the request bounds what the engine may still do to one
\* evaluation, even where every other file operation may fail.
THEOREM RetirementIsEffective == Spec => []AtMostOneEvaluationAfterRetirement
<1>1. Inv => AtMostOneEvaluationAfterRetirement
  BY DEF Inv, RetiredInv, AtMostOneEvaluationAfterRetirement
<1> QED
  BY <1>1, InvHolds, PTL

-----------------------------------------------------------------------------
(* The mailbox implements CommandDelivery.                                 *)

\* The empty mailbox is the empty channel.
LEMMA DeliveryInit == Init => Delivery!Init
<1> SUFFICES ASSUME Init PROVE Delivery!Init
  OBVIOUS
<1>1. Accepted = {}
  BY DEF Init, Accepted
<1>2. Told = [o \in Op |-> "waiting"]
  BY DEF Init, Told
<1> QED
  BY <1>1, <1>2 DEF Init, Delivery!Init

\* An operation is accepted when its request file is written, and not before.
LEMMA WriteAccepts ==
    ASSUME TypeOK, NameInv, NEW c \in Client, NEW o \in Op, WriteRequest(c, o),
           \A n \in Name : issued[n] # o, Told' = Told
    PROVE  Delivery!Accept(o)
<1>1. /\ NextName(c) \in Name /\ issued[NextName(c)] = NoOp
      /\ issued' = [issued EXCEPT ![NextName(c)] = o] /\ UNCHANGED execs
  BY NextNameFresh DEF WriteRequest
<1>2. o \notin Accepted
  BY DEF Accepted
<1>3. Accepted' = Accepted \cup {o}
  BY <1>1, BridgeAssumption DEF Accepted, TypeOK
<1> QED
  BY <1>1, <1>2, <1>3 DEF Delivery!Accept

\* A method that tells its caller how it ended leaves the channel as it is.
LEMMA ReportOnly ==
    ASSUME Inv, NEW o \in Op, outcome[o] \in {"new", "running"},
           NEW told, outcome' = [outcome EXCEPT ![o] = told],
           UNCHANGED <<issued, execs>>
    PROVE  /\ told \in {"completed", "late"} /\ ReportedWasEvaluated' => Delivery!Confirm(o)
           /\ told \in {"refused", "withdrawn", "unknown", "lost"} => Delivery!Abandon(o)
<1>1. Told[o] = "waiting"
  BY DEF Told
<1>2. Accepted' = Accepted
  BY DEF Accepted
<1>3. ASSUME told \in {"completed", "late"}, ReportedWasEvaluated'
      PROVE  Delivery!Confirm(o)
  <2>1. Told' = [Told EXCEPT ![o] = "ran"]
    BY <1>3 DEF Told, Inv, TypeOK
  <2>2. execs[o] > 0
    BY <1>3 DEF ReportedWasEvaluated, Inv, TypeOK
  <2> QED
    BY <1>1, <1>2, <2>1, <2>2 DEF Delivery!Confirm
<1>4. ASSUME told \in {"refused", "withdrawn", "unknown", "lost"}
      PROVE  Delivery!Abandon(o)
  <2>1. Told' = [Told EXCEPT ![o] = "nothing"]
    BY <1>4 DEF Told, Inv, TypeOK
  <2> QED
    BY <1>1, <1>2, <2>1 DEF Delivery!Abandon
<1> QED
  BY <1>3, <1>4

\* Every step of the mailbox is a step of the channel, or none.
LEMMA DeliveryStep ==
    ASSUME Inv, Inv', [Next]_vars
    PROVE  [Delivery!Next]_Delivery!vars
<1> USE DEF dir, engine, local, reports, history
<1>1. UNCHANGED issued => Accepted' = Accepted
  BY DEF Accepted
<1>2. UNCHANGED outcome => Told' = Told
  BY DEF Told
<1>3. CASE UNCHANGED <<issued, execs, outcome>>
  BY <1>1, <1>2, <1>3 DEF Delivery!vars
<1>4. ReportedWasEvaluated'
  BY DEF Inv, EvaluatedInv
<1>5. \A c \in Client : call[c] \in {"send", "wait"} =>
        op[c] \in Op /\ outcome[op[c]] = "running"
  BY BridgeAssumption DEF Inv, TypeOK, OpInv
<1>6. ASSUME NEW c \in Client, NEW o \in Op, Send(c, o)
      PROVE  UNCHANGED Delivery!vars
  <2>1. Told' = Told
    BY <1>6 DEF Send, Told, Inv, TypeOK
  <2>2. UNCHANGED <<issued, execs>>
    BY <1>6 DEF Send, BeginCollect
  <2> QED
    BY <2>1, <2>2, <1>1 DEF Delivery!vars
<1>7. ASSUME NEW c \in Client, NEW o \in Op, SendAndWait(c, o)
      PROVE  Delivery!Accept(o)
  <2>1. Told' = Told
    BY <1>7 DEF SendAndWait, Told, Inv, TypeOK
  <2>2. \A n \in Name : issued[n] # o
    BY <1>7, BridgeAssumption DEF SendAndWait, Inv, OpInv
  <2> QED
    BY <1>7, <2>1, <2>2, WriteAccepts DEF SendAndWait, Inv
<1>8. ASSUME NEW c \in Client, SendWrite(c)
      PROVE  Delivery!Accept(op[c])
  <2>1. op[c] \in Op /\ outcome[op[c]] = "running" /\ \A n \in Name : issued[n] # op[c]
    BY <1>8, <1>5 DEF SendWrite, Inv, OpInv
  <2>2. Told' = Told
    BY <1>8, <2>1 DEF SendWrite, Told, Inv, TypeOK
  <2> QED
    BY <1>8, <2>1, <2>2, WriteAccepts DEF SendWrite, Inv
<1>9. ASSUME NEW c \in Client, NEW o \in Op, SendAndWaitRefused(c, o)
      PROVE  Delivery!Abandon(o)
  BY <1>9, ReportOnly DEF SendAndWaitRefused
<1>10. ASSUME NEW c \in Client,
              SendRefused(c) \/ CancelUnknown(c) \/ ObserveNothing(c)
       PROVE  op[c] \in Op /\ Delivery!Abandon(op[c])
  <2>1. op[c] \in Op /\ outcome[op[c]] = "running"
    BY <1>10, <1>5 DEF SendRefused, CancelUnknown, ObserveNothing, Inv, ControlInv
  <2>2. UNCHANGED <<issued, execs>>
    BY <1>10 DEF SendRefused, CancelUnknown, ObserveNothing
  <2>3. \E told \in {"refused", "withdrawn", "unknown", "lost"} :
           outcome' = [outcome EXCEPT ![op[c]] = told]
    BY <1>10 DEF SendRefused, CancelUnknown, ObserveNothing
  <2> QED
    BY <2>1, <2>2, <2>3, ReportOnly
<1>11. ASSUME NEW c \in Client, Complete(c) \/ CancelExecuted(c) \/ ObserveLate(c)
       PROVE  op[c] \in Op /\ Delivery!Confirm(op[c])
  <2>1. op[c] \in Op /\ outcome[op[c]] = "running"
    BY <1>11, <1>5 DEF Complete, CancelExecuted, ObserveLate, Inv, ControlInv
  <2>2. UNCHANGED <<issued, execs>>
    BY <1>11 DEF Complete, CancelExecuted, ObserveLate
  <2>3. \E told \in {"completed", "late"} : outcome' = [outcome EXCEPT ![op[c]] = told]
    BY <1>11 DEF Complete, CancelExecuted, ObserveLate
  <2> QED
    BY <2>1, <2>2, <2>3, <1>4, ReportOnly
<1>12. ASSUME NEW c \in Client, Restart(c)
       PROVE  [Delivery!Next]_Delivery!vars
  <2>1. UNCHANGED <<issued, execs>>
    BY <1>12 DEF Restart
  <2>2. CASE op[c] = NoOp
    <3>1. UNCHANGED outcome
      BY <1>12, <2>2, BridgeAssumption DEF Restart, Inv, TypeOK
    <3> QED
      BY <1>3, <2>1, <3>1
  <2>3. CASE op[c] # NoOp
    <3>1. op[c] \in Op /\ outcome[op[c]] = "running"
      BY <2>3 DEF Inv, TypeOK, Payload, OpInv
    <3>2. outcome' = [outcome EXCEPT ![op[c]] = "lost"]
      BY <1>12, <3>1 DEF Restart, Inv, TypeOK
    <3>3. Delivery!Abandon(op[c])
      BY <2>1, <3>1, <3>2, ReportOnly
    <3> QED
      BY <3>1, <3>3 DEF Delivery!Next
  <2> QED
    BY <2>2, <2>3
<1>13. ASSUME Evaluate
       PROVE  job.op \in Op /\ Delivery!Execute({job.op})
  <2>1. /\ job.name \in Name /\ job.op \in Op /\ issued[job.name] = job.op
        /\ UNCHANGED <<issued, outcome>>
        /\ execs' = [execs EXCEPT ![job.op] = Count(@)]
    BY <1>13 DEF Evaluate, Inv, TypeOK, NameInv
  <2>2. job.op \in Accepted
    BY <2>1, BridgeAssumption DEF Accepted
  <2>3. \A k \in 0..2 : Count(k) = Delivery!More(k)
    BY DEF Count, Delivery!More
  <2>4. execs' = [o \in Op |-> IF o \in {job.op} THEN Delivery!More(execs[o]) ELSE execs[o]]
    BY <2>1, <2>3 DEF Inv, TypeOK
  <2> QED
    BY <2>1, <2>2, <2>4, <1>1, <1>2 DEF Delivery!Execute
<1>14. CASE Evaluate
  <2>1. {job.op} \in SUBSET Op /\ Delivery!Execute({job.op})
    BY <1>13, <1>14
  <2> QED
    BY <2>1 DEF Delivery!Next
<1>15. ASSUME NEW c \in Client, ClientCall(c) \/ ClientStep(c)
       PROVE  [Delivery!Next]_Delivery!vars
  <2>1. \/ \E o \in Op : Send(c, o) \/ SendAndWait(c, o) \/ SendAndWaitRefused(c, o)
        \/ SendWrite(c) \/ SendRefused(c) \/ CancelUnknown(c) \/ ObserveNothing(c)
        \/ Complete(c) \/ CancelExecuted(c) \/ ObserveLate(c)
        \/ UNCHANGED <<issued, execs, outcome>>
    BY <1>15 DEF ClientCall, ClientStep, CollectCompleted, BeginCollect, KeepPending,
       TakePending, RetirePending, CollectEnd, TakeResponse, CancelWithdraw
  <2>2. CASE SendWrite(c)
    BY <2>2, <1>5, <1>8 DEF SendWrite, Delivery!Next
  <2> QED
    BY <2>1, <2>2, <1>3, <1>6, <1>7, <1>9, <1>10, <1>11 DEF Delivery!Next
<1>16. CASE (EngineStep /\ ~Evaluate) \/ OpenPacketTracer \/ ClosePacketTracer \/ Age
            \/ UNCHANGED vars
  <2>1. UNCHANGED <<issued, outcome>>
    BY <1>16, EngineStepsAside DEF Inv
  <2>2. UNCHANGED execs
    BY <1>16 DEF EngineStep, OpenPacketTracer, ClosePacketTracer, Age, TickStart,
       VisitResponse, PurgeRequest, SkipRequest, ReadRequest, Reply, RemoveRequest,
       TickEnd, AgeRequest, AgeResponse, vars
  <2> QED
    BY <1>3, <2>1, <2>2
<1> QED
  BY <1>12, <1>14, <1>15, <1>16 DEF Next

\* The mailbox is a channel that may run a command again but runs none that
\* was not written to it, and tells a caller that a command ran only after it
\* did, whatever fails, restarts or is closed (CommandDelivery, MayRepeat TRUE).
THEOREM MailboxDelivers == Spec => DeliversCommands
<1>1. Inv /\ Inv' /\ [Next]_vars => [Delivery!Next]_Delivery!vars
  BY DeliveryStep
<1> QED
  BY <1>1, DeliveryInit, InvHolds, PTL DEF Spec, DeliversCommands, Delivery!Spec
=============================================================================
