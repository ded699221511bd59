----------------------------- MODULE AppProofs -----------------------------
(***************************************************************************)
(* Proofs about App, for any number of requests and Contexts and any chain *)
(* of middlewares: type correctness, the exclusive use of a Context, the   *)
(* isolation of Contexts and of responses, the status that goes out, and   *)
(* the lazy compilation of the chain.                                      *)
(***************************************************************************)
EXTENDS App, TLAPS

(* Type correctness. *)

(* TypeOK with what makes it inductive: a handler about to write is below  *)
(* the bound, and a request in flight holds a real Context.                *)
TypeInv ==
  /\ TypeOK
  /\ \A r \in Requests : hc[r] = "writing" => writes[r] < MaxWrites
  /\ \A r \in Requests : InFlight(r) => held[r] \in Contexts

(* A fresh application, its chain holding Recovery only, is well typed. *)
LEMMA TypeInvInit == Init => TypeInv
<1> SUFFICES ASSUME Init PROVE TypeInv
  OBVIOUS
<1> USE DEF Init
<1>1. middlewares \in Seq({Recovery} \cup Others) /\ handler \in Seq({Recovery} \cup Others)
  OBVIOUS
<1>2. ctx \in [Contexts -> Fields]
  BY DEF Fields, Idle
<1>3. done \in [Requests -> Seq(Outcomes)]
  OBVIOUS
<1>4. resp \in [Requests -> Responses]
  BY DEF Responses
<1>5. writes \in [Requests -> 0..MaxWrites]
  BY KindsAreKnown
<1> QED BY <1>1, <1>2, <1>3, <1>4, <1>5 DEF TypeInv, TypeOK, InFlight

(* Writing a header keeps the map of responses well typed. *)
LEMMA HeaderTypes ==
  \A q : \A rs \in [Requests -> Responses], code \in Nat :
    WriteHeader(rs, q, code) \in [Requests -> Responses]
BY DEF WriteHeader, Responses

(* Writing a body, or a header and a body, keeps the map of responses well typed. *)
LEMMA WriteTypes ==
  \A q : \A rs \in [Requests -> Responses], code \in Nat, who \in Parts :
    /\ WriteBody(rs, q, who) \in [Requests -> Responses]
    /\ Reply(rs, q, code, who) \in [Requests -> Responses]
<1>1. \A q : \A rs \in [Requests -> Responses], who \in Parts :
        WriteBody(rs, q, who) \in [Requests -> Responses]
  <2> TAKE q
  <2> TAKE rs \in [Requests -> Responses], who \in Parts
  <2>1. \A b \in SUBSET Parts : b \cup {who} \in SUBSET Parts
    OBVIOUS
  <2>2. \A p \in Requests : rs[p].status \in Nat /\ rs[p].body \in SUBSET Parts
    BY DEF Responses
  <2>3. \A p \in Requests :
          [status |-> IF rs[p].status = 0 THEN 200 ELSE rs[p].status,
           body |-> rs[p].body \cup {who}] \in Responses
    <3> TAKE p \in Requests
    <3>1. (IF rs[p].status = 0 THEN 200 ELSE rs[p].status) \in Nat
      BY <2>2
    <3>2. rs[p].body \cup {who} \in SUBSET Parts
      BY <2>1, <2>2
    <3>3. \A n \in Nat, b \in SUBSET Parts : [status |-> n, body |-> b] \in Responses
      BY DEF Responses
    <3> QED BY <3>1, <3>2, <3>3
  <2> QED BY <2>3 DEF WriteBody
<1> QED BY <1>1, HeaderTypes DEF Reply

(* The parts of a response that a request may write. *)
LEMMA PartTypes ==
  \A r \in Requests : <<r, "handler">> \in Parts /\ <<r, "framework">> \in Parts
BY DEF Parts

(* Every step of every goroutine keeps the types. *)
LEMMA TypeInvNext == TypeInv /\ [Next]_vars => TypeInv'
<1> SUFFICES ASSUME TypeInv, [Next]_vars PROVE TypeInv'
  OBVIOUS
<1>0. ASSUME NEW q \in Requests, NEW p, NEW code \in Nat
      PROVE  Reply(resp, p, code, <<q, "framework">>) \in [Requests -> Responses]
  <2>1. resp \in [Requests -> Responses]
    BY DEF TypeInv, TypeOK
  <2>2. <<q, "framework">> \in Parts
    BY PartTypes
  <2> QED BY <2>1, <2>2, WriteTypes
<1> USE DEF TypeInv, TypeOK
<1>1. ASSUME NEW m \in Others, Use(m) PROVE TypeInv'
  BY <1>1 DEF Use, poolVars, handlerVars, InFlight
<1>2. ASSUME NEW r \in Requests, Arrive(r) PROVE TypeInv'
  BY <1>2 DEF Arrive, setupVars, poolVars, handlerVars, InFlight
<1>3. ASSUME NEW r \in Requests, EnterSetup(r) PROVE TypeInv'
  BY <1>3 DEF EnterSetup, poolVars, handlerVars, InFlight
<1>4. ASSUME NEW r \in Requests, CompileChain(r) PROVE TypeInv'
  BY <1>4 DEF CompileChain, poolVars, handlerVars, InFlight
<1>5. ASSUME NEW r \in Requests, AwaitSetup(r) PROVE TypeInv'
  BY <1>5 DEF AwaitSetup, setupVars, poolVars, handlerVars, InFlight
<1>6. ASSUME NEW r \in Requests, AcquireContext(r) PROVE TypeInv'
  BY <1>6 DEF AcquireContext, Take, Reset, setupVars, handlerVars, InFlight, Fields
<1>7. ASSUME NEW r \in Requests, DispatchMiss(r) PROVE TypeInv'
  <2>1. resp' \in [Requests -> Responses]
    <3>1. 404 \in Nat
      OBVIOUS
    <3>2. Reply(resp, ctx[held[r]].writer, 404, <<r, "framework">>)
            \in [Requests -> Responses]
      BY <1>0, <3>1
    <3>3. resp' = Reply(resp, ctx[held[r]].writer, 404, <<r, "framework">>)
      BY <1>7 DEF DispatchMiss
    <3> QED BY <3>2, <3>3, Zenon
  <2> QED BY <1>7, <2>1 DEF DispatchMiss, setupVars, poolVars, handlerVars, InFlight
<1>8. ASSUME NEW r \in Requests, DispatchHit(r) PROVE TypeInv'
  <2>1. ctx' \in [Contexts -> Fields]
    <3>1. \A x \in Fields : Append(x.params, r) \in Seq(Requests)
      BY DEF Fields
    <3>2. \A x \in Fields : AddParam(x, r) \in Fields
      BY <3>1 DEF AddParam, Fields
    <3> QED BY <1>8, <3>2 DEF DispatchHit
  <2>2. PICK kind \in RouteKinds \ {"none"} :
          pc' = [pc EXCEPT ![r] = IF kind = "timed" THEN "select" ELSE "handler"]
    BY <1>8 DEF DispatchHit
  <2> QED BY <1>8, <2>1, <2>2 DEF DispatchHit, setupVars, poolVars, InFlight
<1>9. ASSUME NEW r \in Requests, HandlerCheck(r) PROVE TypeInv'
  BY <1>9 DEF HandlerCheck, setupVars, poolVars, InFlight
<1>10. ASSUME NEW r \in Requests, HandlerWrite(r) PROVE TypeInv'
  <2>1. resp' \in [Requests -> Responses]
    BY <1>10, WriteTypes, PartTypes DEF HandlerWrite
  <2>2. ctx' \in [Contexts -> Fields]
    BY <1>10 DEF HandlerWrite, Set, Fields
  <2>3. writes' \in [Requests -> 0..MaxWrites]
    BY <1>10, KindsAreKnown DEF HandlerWrite
  <2> QED BY <1>10, <2>1, <2>2, <2>3 DEF HandlerWrite, setupVars, poolVars, InFlight
<1>11. ASSUME NEW r \in Requests, NEW out \in Outcomes, HandlerReturn(r, out) PROVE TypeInv'
  BY <1>11 DEF HandlerReturn, setupVars, poolVars, InFlight
<1>12. ASSUME NEW r \in Requests, NEW out \in Outcomes, TimedReturn(r, out) PROVE TypeInv'
  BY <1>12, KindsAreKnown DEF TimedReturn, setupVars, poolVars, InFlight
<1>13. ASSUME NEW r \in Requests, HandlerPanic(r) PROVE TypeInv'
  <2>1. resp' \in [Requests -> Responses]
    <3>1. 500 \in Nat
      OBVIOUS
    <3>2. Reply(resp, ctx[held[r]].writer, 500, <<r, "framework">>)
            \in [Requests -> Responses]
      BY <1>0, <3>1
    <3>3. resp' = Reply(resp, ctx[held[r]].writer, 500, <<r, "framework">>)
      BY <1>13 DEF HandlerPanic
    <3> QED BY <3>2, <3>3, Zenon
  <2>2. /\ hc' = [hc EXCEPT ![r] = "gone"]
        /\ result' = [result EXCEPT ![r] = "panic"]
        /\ pc' = [pc EXCEPT ![r] = "put"]
        /\ pc[r] = "handler"
    BY <1>13 DEF HandlerPanic
  <2>3. UNCHANGED <<middlewares, handler, once, pool, allocated, ctx, held, writes,
                    done, expired, crashed>>
    BY <1>13 DEF HandlerPanic, setupVars, poolVars
  <2> QED BY <2>1, <2>2, <2>3 DEF InFlight
<1>14. ASSUME NEW r \in Requests, TimedPanic(r) PROVE TypeInv'
  BY <1>14 DEF TimedPanic, setupVars, poolVars, handlerVars, InFlight
<1>15. ASSUME NEW r \in Requests, TimedSend(r) PROVE TypeInv'
  BY <1>15 DEF TimedSend, RoomInDone, setupVars, poolVars, InFlight
<1>16. ASSUME NEW r \in Requests, TimerFires(r) PROVE TypeInv'
  BY <1>16 DEF TimerFires, setupVars, poolVars, InFlight
<1>17. ASSUME NEW r \in Requests, SelectDone(r) PROVE TypeInv'
  BY <1>17 DEF SelectDone, setupVars, poolVars, InFlight
<1>18. ASSUME NEW r \in Requests, SelectTimeout(r) PROVE TypeInv'
  <2>1. resp' \in [Requests -> Responses]
    <3>1. 503 \in Nat
      OBVIOUS
    <3>2. WriteHeader(resp, ctx[held[r]].writer, 503) \in [Requests -> Responses]
      BY <3>1, HeaderTypes
    <3> QED BY <1>18, <3>2 DEF SelectTimeout
  <2> QED BY <1>18, <2>1 DEF SelectTimeout, setupVars, poolVars, handlerVars, InFlight
<1>19. ASSUME NEW r \in Requests, HandleError(r) PROVE TypeInv'
  <2>1. resp' \in [Requests -> Responses]
    <3>1. ErrorCode(result[r]) \in Nat
      BY DEF ErrorCode
    <3>2. Reply(resp, ctx[held[r]].writer, ErrorCode(result[r]), <<r, "framework">>)
            \in [Requests -> Responses]
      BY <1>0, <3>1
    <3> QED BY <1>19, <3>2 DEF HandleError
  <2> QED BY <1>19, <2>1 DEF HandleError, setupVars, poolVars, handlerVars, InFlight
<1>20. ASSUME NEW r \in Requests, PutContext(r) PROVE TypeInv'
  <2>1. resp' \in [Requests -> Responses]
    <3>1. 200 \in Nat
      OBVIOUS
    <3>2. WriteHeader(resp, r, 200) \in [Requests -> Responses]
      BY <3>1, HeaderTypes
    <3> QED BY <1>20, <3>2 DEF PutContext
  <2> QED BY <1>20, <2>1 DEF PutContext, Put, setupVars, handlerVars, InFlight
<1>21. CASE UNCHANGED vars
  BY <1>21 DEF vars, setupVars, poolVars, handlerVars, InFlight
<1> QED
  BY <1>1, <1>2, <1>3, <1>4, <1>5, <1>6, <1>7, <1>8, <1>9, <1>10, <1>11, <1>12,
     <1>13, <1>14, <1>15, <1>16, <1>17, <1>18, <1>19, <1>20, <1>21
     DEF Next, Step, Serve, Handle

(* The application is well typed in every reachable state. *)
THEOREM TypeCorrect == Spec => []TypeOK
<1>1. TypeInv => TypeOK
  BY DEF TypeInv
<1> QED BY <1>1, TypeInvInit, TypeInvNext, PTL DEF Spec

----------------------------------------------------------------------------
(* The pool. *)

(* Only AcquireContext, DispatchMiss to PutContext and the handler's return *)
(* move a request through the states InFlight names; the rest leave both   *)
(* the pool and the pointers alone.                                        *)
LEMMA ExclusiveNext ==
  TypeInv /\ ContextExclusive /\ [Next]_vars => ContextExclusive'
<1> SUFFICES ASSUME TypeInv, ContextExclusive, [Next]_vars
             PROVE  ContextExclusive'
  OBVIOUS
<1> USE DEF TypeInv, TypeOK, ContextExclusive, InFlight
<1>1. ASSUME UNCHANGED <<poolVars, held>>,
             \A q \in Requests : InFlight(q)' => InFlight(q)
      PROVE  ContextExclusive'
  BY <1>1 DEF poolVars
<1>2. ASSUME NEW m \in Others, Use(m) PROVE ContextExclusive'
  BY <1>2, <1>1 DEF Use
<1>3. ASSUME NEW r \in Requests,
             Arrive(r) \/ EnterSetup(r) \/ CompileChain(r) \/ AwaitSetup(r)
      PROVE  ContextExclusive'
  BY <1>3, <1>1 DEF Arrive, EnterSetup, CompileChain, AwaitSetup
<1>4. ASSUME NEW r \in Requests, AcquireContext(r) PROVE ContextExclusive'
  <2>1. PICK c \in pool \cup (Contexts \ allocated) :
          /\ pool' = pool \ {c}
          /\ allocated' = allocated \cup {c}
          /\ held' = [held EXCEPT ![r] = c]
    BY <1>4 DEF AcquireContext, Take
  <2>2. pc' = [pc EXCEPT ![r] = "dispatch"]
    BY <1>4 DEF AcquireContext
  <2>3. \A q \in Requests : InFlight(q) => held[q] # c
    BY <2>1
  <2> QED BY <2>1, <2>2, <2>3
<1>5. ASSUME NEW r \in Requests, DispatchMiss(r) \/ DispatchHit(r)
      PROVE  ContextExclusive'
  BY <1>5, <1>1 DEF DispatchMiss, DispatchHit
<1>6. ASSUME NEW r \in Requests, HandlerCheck(r) \/ HandlerWrite(r) \/ HandlerPanic(r)
      PROVE  ContextExclusive'
  BY <1>6, <1>1 DEF HandlerCheck, HandlerWrite, HandlerPanic
<1>7. ASSUME NEW r \in Requests, NEW out \in Outcomes,
             HandlerReturn(r, out) \/ TimedReturn(r, out)
      PROVE  ContextExclusive'
  BY <1>7, <1>1 DEF HandlerReturn, TimedReturn
<1>8. ASSUME NEW r \in Requests, TimedPanic(r) \/ TimedSend(r) \/ TimerFires(r)
      PROVE  ContextExclusive'
  BY <1>8, <1>1 DEF TimedPanic, TimedSend, TimerFires
<1>9. ASSUME NEW r \in Requests, SelectDone(r) \/ SelectTimeout(r) \/ HandleError(r)
      PROVE  ContextExclusive'
  BY <1>9, <1>1 DEF SelectDone, SelectTimeout, HandleError
<1>10. ASSUME NEW r \in Requests, PutContext(r) PROVE ContextExclusive'
  BY <1>10 DEF PutContext, Put
<1>11. CASE UNCHANGED vars
  BY <1>11, <1>1 DEF vars
<1> QED
  BY <1>2, <1>3, <1>4, <1>5, <1>6, <1>7, <1>8, <1>9, <1>10, <1>11
     DEF Next, Step, Serve, Handle

(* However many requests are served at once, with or without Timeout, no   *)
(* two of them are between Get and Put with the same Context, and none     *)
(* with one that the pool could hand out again.                            *)
THEOREM ContextNeverShared == Spec => []ContextExclusive
<1>1. Init => ContextExclusive
  BY DEF Init, ContextExclusive, InFlight
<1> QED BY <1>1, TypeInvInit, TypeInvNext, ExclusiveNext, PTL DEF Spec

----------------------------------------------------------------------------
(* Isolation. *)

(* Where the handler of a request stands with its serving goroutine: it    *)
(* has not begun before DispatchHit, it is over once its result is in the  *)
(* channel, and it only runs on after pc "handler" or "select" if the      *)
(* request is in TimedOut.                                                 *)
HandlerPhase ==
  \A r \in Requests :
    /\ pc[r] \in {"idle", "setup", "compile", "get", "dispatch"} => hc[r] = "off"
    /\ done[r] # << >> => hc[r] = "gone"
    /\ r \in TimedOut => pc[r] \in {"error", "put", "done"}
    /\ HandlerActive(r) => pc[r] \in {"handler", "select"} \/ r \in TimedOut

(* A Context in flight carries the values of the request that holds it; a  *)
(* handler that outlives its Timeout can only change a key.                *)
OwnFields ==
  \A r \in Requests :
    /\ pc[r] \in {"handler", "select"} => ctx[held[r]].params = <<r>>
    /\ pc[r] = "dispatch" => ctx[held[r]].params = << >>
    /\ InFlight(r) => /\ ctx[held[r]].request = r
                      /\ ctx[held[r]].writer = r
                      /\ ctx[held[r]].key \in {NoReq, r} \cup TimedOut

(* Every step of handlers and serving goroutines keeps their phases in     *)
(* step, and no request leaves TimedOut.                                   *)
LEMMA PhaseNext ==
  TypeInv /\ HandlerPhase /\ [Next]_vars
    => HandlerPhase' /\ TimedOut \subseteq TimedOut'
<1> SUFFICES ASSUME TypeInv, HandlerPhase, [Next]_vars
             PROVE  HandlerPhase' /\ TimedOut \subseteq TimedOut'
  OBVIOUS
<1> USE DEF TypeInv, TypeOK, HandlerPhase, HandlerActive, TimedOut
<1>1. ASSUME UNCHANGED <<pc, hc, done, result>>
      PROVE  HandlerPhase' /\ TimedOut \subseteq TimedOut'
  BY <1>1
<1>2. ASSUME NEW m \in Others, Use(m) PROVE HandlerPhase' /\ TimedOut \subseteq TimedOut'
  BY <1>2, <1>1 DEF Use, handlerVars
<1>3. ASSUME NEW r \in Requests,
             Arrive(r) \/ EnterSetup(r) \/ CompileChain(r) \/ AwaitSetup(r)
      PROVE  HandlerPhase' /\ TimedOut \subseteq TimedOut'
  <2>1. PICK next \in {"setup", "get", "compile"} : pc' = [pc EXCEPT ![r] = next]
    BY <1>3 DEF Arrive, EnterSetup, CompileChain, AwaitSetup
  <2>2. UNCHANGED <<hc, done, result>> /\ pc[r] \in {"idle", "setup", "compile"}
    BY <1>3 DEF Arrive, EnterSetup, CompileChain, AwaitSetup, handlerVars
  <2> QED BY <2>1, <2>2
<1>4. ASSUME NEW r \in Requests, AcquireContext(r)
      PROVE  HandlerPhase' /\ TimedOut \subseteq TimedOut'
  BY <1>4 DEF AcquireContext, handlerVars
<1>5. ASSUME NEW r \in Requests, DispatchMiss(r)
      PROVE  HandlerPhase' /\ TimedOut \subseteq TimedOut'
  BY <1>5 DEF DispatchMiss, handlerVars
<1>6. ASSUME NEW r \in Requests, DispatchHit(r)
      PROVE  HandlerPhase' /\ TimedOut \subseteq TimedOut'
  <2>1. PICK next \in {"select", "handler"} : pc' = [pc EXCEPT ![r] = next]
    BY <1>6 DEF DispatchHit
  <2>2. /\ pc[r] = "dispatch"
        /\ hc' = [hc EXCEPT ![r] = "running"]
        /\ UNCHANGED <<done, result>>
    BY <1>6 DEF DispatchHit
  <2> QED BY <2>1, <2>2
<1>7. ASSUME NEW r \in Requests, HandlerCheck(r) \/ HandlerWrite(r)
      PROVE  HandlerPhase' /\ TimedOut \subseteq TimedOut'
  <2>1. PICK next \in {"running", "writing"} : hc' = [hc EXCEPT ![r] = next]
    BY <1>7 DEF HandlerCheck, HandlerWrite
  <2>2. HandlerActive(r) /\ UNCHANGED <<pc, done, result>>
    BY <1>7 DEF HandlerCheck, HandlerWrite
  <2> QED BY <2>1, <2>2
<1>8. ASSUME NEW r \in Requests, NEW out \in Outcomes, HandlerReturn(r, out)
      PROVE  HandlerPhase' /\ TimedOut \subseteq TimedOut'
  BY <1>8 DEF HandlerReturn
<1>9. ASSUME NEW r \in Requests, HandlerPanic(r)
      PROVE  HandlerPhase' /\ TimedOut \subseteq TimedOut'
  BY <1>9 DEF HandlerPanic
<1>10. ASSUME NEW r \in Requests, NEW out \in Outcomes, TimedReturn(r, out)
       PROVE  HandlerPhase' /\ TimedOut \subseteq TimedOut'
  BY <1>10, KindsAreKnown DEF TimedReturn
<1>11. ASSUME NEW r \in Requests, TimedPanic(r) \/ TimerFires(r)
       PROVE  HandlerPhase' /\ TimedOut \subseteq TimedOut'
  BY <1>11, <1>1 DEF TimedPanic, TimerFires, handlerVars
<1>12. ASSUME NEW r \in Requests, TimedSend(r)
       PROVE  HandlerPhase' /\ TimedOut \subseteq TimedOut'
  <2>1. /\ hc[r] \in Outcomes
        /\ hc' = [hc EXCEPT ![r] = "gone"]
        /\ \A q \in Requests \ {r} : done'[q] = done[q]
        /\ UNCHANGED <<pc, result>>
    BY <1>12 DEF TimedSend
  <2>2. pc[r] \notin {"idle", "setup", "compile", "get", "dispatch"}
    BY <2>1, KindsAreKnown
  <2> QED BY <2>1, <2>2
<1>13. ASSUME NEW r \in Requests, SelectDone(r)
       PROVE  HandlerPhase' /\ TimedOut \subseteq TimedOut'
  <2>1. PICK next \in {"put", "error"} : pc' = [pc EXCEPT ![r] = next]
    BY <1>13 DEF SelectDone
  <2>2. /\ pc[r] = "select"
        /\ hc[r] = "gone"
        /\ \A q \in Requests \ {r} : done'[q] = done[q] /\ result'[q] = result[q]
        /\ result'[r] \in Outcomes
        /\ UNCHANGED hc
    BY <1>13 DEF SelectDone
  <2> QED BY <2>1, <2>2
<1>14. ASSUME NEW r \in Requests, SelectTimeout(r)
       PROVE  HandlerPhase' /\ TimedOut \subseteq TimedOut'
  BY <1>14 DEF SelectTimeout, handlerVars
<1>15. ASSUME NEW r \in Requests, HandleError(r) \/ PutContext(r)
       PROVE  HandlerPhase' /\ TimedOut \subseteq TimedOut'
  <2>1. PICK next \in {"put", "done"} : pc' = [pc EXCEPT ![r] = next]
    BY <1>15 DEF HandleError, PutContext
  <2>2. pc[r] \in {"error", "put"} /\ UNCHANGED <<hc, done, result>>
    BY <1>15 DEF HandleError, PutContext, handlerVars
  <2> QED BY <2>1, <2>2
<1>16. CASE UNCHANGED vars
  BY <1>16, <1>1 DEF vars, handlerVars
<1> QED
  BY <1>2, <1>3, <1>4, <1>5, <1>6, <1>7, <1>8, <1>9, <1>10, <1>11, <1>12, <1>13,
     <1>14, <1>15, <1>16 DEF Next, Step, Serve, Handle

(* Every step leaves the fields of a Context in flight to its request.     *)
LEMMA FieldsNext ==
  TypeInv /\ HandlerPhase /\ ContextExclusive /\ OwnFields /\ [Next]_vars
    => OwnFields'
<1> SUFFICES ASSUME TypeInv, HandlerPhase, ContextExclusive, OwnFields, [Next]_vars
             PROVE  OwnFields'
  OBVIOUS
<1>0. TimedOut \subseteq TimedOut'
  BY PhaseNext
<1> USE DEF TypeInv, TypeOK, OwnFields, InFlight
<1>1. ASSUME UNCHANGED <<ctx, pc, held>> PROVE OwnFields'
  BY <1>1, <1>0
<1>2. ASSUME NEW m \in Others, Use(m) PROVE OwnFields'
  BY <1>2, <1>1 DEF Use
<1>3. ASSUME NEW r \in Requests,
             Arrive(r) \/ EnterSetup(r) \/ CompileChain(r) \/ AwaitSetup(r)
      PROVE  OwnFields'
  <2>1. PICK next \in {"setup", "get", "compile"} : pc' = [pc EXCEPT ![r] = next]
    BY <1>3 DEF Arrive, EnterSetup, CompileChain, AwaitSetup
  <2>2. UNCHANGED <<ctx, held>> /\ pc[r] \in {"idle", "setup", "compile"}
    BY <1>3 DEF Arrive, EnterSetup, CompileChain, AwaitSetup
  <2> QED BY <2>1, <2>2, <1>0
<1>4. ASSUME NEW r \in Requests, AcquireContext(r) PROVE OwnFields'
  <2>1. PICK c \in pool \cup (Contexts \ allocated) :
          /\ held' = [held EXCEPT ![r] = c]
          /\ ctx' = [ctx EXCEPT ![c] = Reset(@, r)]
    BY <1>4 DEF AcquireContext
  <2>2. pc[r] = "get" /\ pc' = [pc EXCEPT ![r] = "dispatch"]
    BY <1>4 DEF AcquireContext
  <2>3. \A q \in Requests : InFlight(q) => held[q] # c
    BY <2>1 DEF ContextExclusive
  <2>4. \A q \in Requests : InFlight(q) => q # r /\ ctx'[held'[q]] = ctx[held[q]]
    BY <2>1, <2>2, <2>3
  <2>5. /\ ctx'[held'[r]].request = r
        /\ ctx'[held'[r]].writer = r
        /\ ctx'[held'[r]].params = << >>
        /\ ctx'[held'[r]].key = NoReq
    BY <2>1 DEF Reset
  <2> QED BY <2>2, <2>4, <2>5, <1>0
<1>5. ASSUME NEW r \in Requests,
             DispatchMiss(r) \/ HandlerPanic(r) \/ SelectDone(r) \/ SelectTimeout(r)
               \/ HandleError(r) \/ PutContext(r)
      PROVE  OwnFields'
  <2>1. PICK next \in {"put", "error", "done"} : pc' = [pc EXCEPT ![r] = next]
    BY <1>5 DEF DispatchMiss, HandlerPanic, SelectDone, SelectTimeout, HandleError,
                PutContext
  <2>2. UNCHANGED <<ctx, held>> /\ InFlight(r)
    BY <1>5 DEF DispatchMiss, HandlerPanic, SelectDone, SelectTimeout, HandleError,
                PutContext
  <2> QED BY <2>1, <2>2, <1>0
<1>6. ASSUME NEW r \in Requests, DispatchHit(r) PROVE OwnFields'
  <2>1. PICK next \in {"select", "handler"} : pc' = [pc EXCEPT ![r] = next]
    BY <1>6 DEF DispatchHit
  <2>2. /\ pc[r] = "dispatch"
        /\ ctx' = [ctx EXCEPT ![held[r]] = AddParam(@, r)]
        /\ UNCHANGED held
    BY <1>6 DEF DispatchHit
  <2>3. \A q \in Requests \ {r} : InFlight(q) => ctx'[held[q]] = ctx[held[q]]
    BY <2>2 DEF ContextExclusive
  <2>4. Append(<< >>, r) = <<r>>
    OBVIOUS
  <2>5. /\ ctx'[held[r]].request = r
        /\ ctx'[held[r]].writer = r
        /\ ctx'[held[r]].params = <<r>>
        /\ ctx'[held[r]].key \in {NoReq, r} \cup TimedOut
    BY <2>2, <2>4 DEF AddParam
  <2> QED BY <2>1, <2>2, <2>3, <2>5, <1>0
<1>7. ASSUME NEW r \in Requests,
             HandlerCheck(r) \/ TimedPanic(r) \/ TimedSend(r) \/ TimerFires(r)
      PROVE  OwnFields'
  BY <1>7, <1>1 DEF HandlerCheck, TimedPanic, TimedSend, TimerFires
<1>8. ASSUME NEW r \in Requests, HandlerWrite(r) PROVE OwnFields'
  <2>1. /\ HandlerActive(r)
        /\ ctx' = [ctx EXCEPT ![held[r]] = Set(@, r)]
        /\ UNCHANGED <<pc, held, result>>
    BY <1>8 DEF HandlerWrite, HandlerActive
  <2>2. r \in TimedOut \/ InFlight(r)
    BY <2>1 DEF HandlerPhase
  <2>3. \A q \in Requests : InFlight(q) /\ held[q] = held[r] => q = r \/ r \in TimedOut
    BY <2>2 DEF ContextExclusive
  <2>4. ASSUME NEW q \in Requests, InFlight(q)
        PROVE  /\ ctx'[held[q]].request = ctx[held[q]].request
               /\ ctx'[held[q]].writer = ctx[held[q]].writer
               /\ ctx'[held[q]].params = ctx[held[q]].params
               /\ ctx'[held[q]].key \in {NoReq, q} \cup TimedOut
    <3>1. CASE held[q] = held[r]
      BY <2>1, <2>3, <2>4, <3>1 DEF Set
    <3>2. CASE held[q] # held[r]
      BY <2>1, <2>4, <3>2
    <3> QED BY <3>1, <3>2
  <2> QED BY <2>1, <2>4, <1>0
<1>9. ASSUME NEW r \in Requests, NEW out \in Outcomes, HandlerReturn(r, out)
      PROVE  OwnFields'
  BY <1>9, <1>0 DEF HandlerReturn
<1>10. ASSUME NEW r \in Requests, NEW out \in Outcomes, TimedReturn(r, out)
       PROVE  OwnFields'
  BY <1>10, <1>1 DEF TimedReturn
<1>11. CASE UNCHANGED vars
  BY <1>11, <1>1 DEF vars
<1> QED
  BY <1>2, <1>3, <1>4, <1>5, <1>6, <1>7, <1>8, <1>9, <1>10, <1>11
     DEF Next, Step, Serve, Handle

(* The phases and the fields together, in every reachable state.           *)
LEMMA FieldsAlways == Spec => [](HandlerPhase /\ OwnFields)
<1>1. Init => HandlerPhase /\ OwnFields
  BY DEF Init, HandlerPhase, OwnFields, HandlerActive, InFlight, TimedOut
<1> QED
  BY <1>1, PhaseNext, FieldsNext, TypeInvInit, TypeInvNext, ContextNeverShared, PTL
     DEF Spec

(* Whatever the pool hands out and whichever handlers outlive their        *)
(* Timeout, no other handler works on the request, the writer or the       *)
(* parameters of another request.                                          *)
THEOREM HandlersIsolated == Spec => []ContextIsolation
<1>1. HandlerPhase /\ OwnFields => ContextIsolation
  BY DEF HandlerPhase, OwnFields, ContextIsolation, InFlight
<1> QED BY <1>1, FieldsAlways, PTL

(* What a step may add to responses is a part of the request that takes    *)
(* it: in its own response, or by its handler after its Timeout.           *)
LEMMA OwnWrites ==
  ASSUME TypeInv, ResponseIsolation, TimedOut \subseteq TimedOut',
         NEW r \in Requests, NEW code, NEW who \in {"handler", "framework"},
         \/ ctx[held[r]].writer = r
         \/ r \in TimedOut /\ who = "handler",
         \/ resp' = Reply(resp, ctx[held[r]].writer, code, <<r, who>>)
         \/ resp' = WriteBody(resp, ctx[held[r]].writer, <<r, who>>)
  PROVE  ResponseIsolation'
<1>1. resp \in [Requests -> Responses]
  BY DEF TypeInv, TypeOK
<1>2. \A q \in Requests : resp'[q].body \subseteq resp[q].body
        \cup (IF q = ctx[held[r]].writer THEN {<<r, who>>} ELSE {})
  BY <1>1 DEF Reply, WriteBody, WriteHeader
<1>3. <<r, who>>[1] = r /\ <<r, who>>[2] = who
  OBVIOUS
<1> QED BY <1>2, <1>3 DEF ResponseIsolation

(* A header alone, and a step that writes nothing, add nothing to a body.  *)
LEMMA NoWrites ==
  ASSUME TypeInv, ResponseIsolation, TimedOut \subseteq TimedOut',
         \/ UNCHANGED resp
         \/ \E q, code : resp' = WriteHeader(resp, q, code)
  PROVE  ResponseIsolation'
<1>1. resp \in [Requests -> Responses]
  BY DEF TypeInv, TypeOK
<1>2. CASE UNCHANGED resp
  BY <1>2 DEF ResponseIsolation
<1>3. ASSUME NEW q, NEW code, resp' = WriteHeader(resp, q, code)
      PROVE  ResponseIsolation'
  <2>1. \A p \in Requests : resp'[p].body = resp[p].body
    BY <1>1, <1>3 DEF WriteHeader
  <2> QED BY <2>1 DEF ResponseIsolation
<1> QED BY <1>2, <1>3

(* Every step writes to the response of its own request only, but for the  *)
(* handlers that outlive their Timeout.                                    *)
LEMMA ResponseNext ==
  TypeInv /\ HandlerPhase /\ OwnFields /\ ResponseIsolation /\ [Next]_vars
    => ResponseIsolation'
<1> SUFFICES ASSUME TypeInv, HandlerPhase, OwnFields, ResponseIsolation, [Next]_vars
             PROVE  ResponseIsolation'
  OBVIOUS
<1>0. TimedOut \subseteq TimedOut'
  BY PhaseNext
<1>1. ASSUME NEW m \in Others, Use(m) PROVE ResponseIsolation'
  BY <1>1, <1>0, NoWrites DEF Use
<1>2. ASSUME NEW r \in Requests,
             Arrive(r) \/ EnterSetup(r) \/ CompileChain(r) \/ AwaitSetup(r)
               \/ AcquireContext(r) \/ DispatchHit(r)
      PROVE  ResponseIsolation'
  BY <1>2, <1>0, NoWrites
     DEF Arrive, EnterSetup, CompileChain, AwaitSetup, AcquireContext, DispatchHit
<1>3. ASSUME NEW r \in Requests,
             HandlerCheck(r) \/ TimedPanic(r) \/ TimedSend(r) \/ TimerFires(r)
               \/ SelectDone(r)
      PROVE  ResponseIsolation'
  BY <1>3, <1>0, NoWrites DEF HandlerCheck, TimedPanic, TimedSend, TimerFires, SelectDone
<1>4. ASSUME NEW r \in Requests, NEW out \in Outcomes,
             HandlerReturn(r, out) \/ TimedReturn(r, out)
      PROVE  ResponseIsolation'
  BY <1>4, <1>0, NoWrites DEF HandlerReturn, TimedReturn
<1>5. ASSUME NEW r \in Requests, SelectTimeout(r) \/ PutContext(r)
      PROVE  ResponseIsolation'
  <2>1. \E q, code : resp' = WriteHeader(resp, q, code)
    BY <1>5 DEF SelectTimeout, PutContext
  <2> QED BY <2>1, <1>0, NoWrites
<1>6. ASSUME NEW r \in Requests, NEW code,
             pc[r] \in {"dispatch", "handler", "error"},
             resp' = Reply(resp, ctx[held[r]].writer, code, <<r, "framework">>)
      PROVE  ResponseIsolation'
  <2>1. ctx[held[r]].writer = r
    BY <1>6 DEF OwnFields, InFlight
  <2> QED BY <1>6, <2>1, <1>0, OwnWrites
<1>7. ASSUME NEW r \in Requests, DispatchMiss(r) \/ HandlerPanic(r) \/ HandleError(r)
      PROVE  ResponseIsolation'
  BY <1>7, <1>6 DEF DispatchMiss, HandlerPanic, HandleError
<1>8. ASSUME NEW r \in Requests, HandlerWrite(r) PROVE ResponseIsolation'
  <2>1. r \in TimedOut \/ ctx[held[r]].writer = r
    BY <1>8 DEF HandlerWrite, HandlerPhase, HandlerActive, OwnFields, InFlight
  <2> QED BY <1>8, <2>1, <1>0, OwnWrites DEF HandlerWrite
<1>9. CASE UNCHANGED vars
  BY <1>9, <1>0, NoWrites DEF vars
<1> QED
  BY <1>1, <1>2, <1>3, <1>4, <1>5, <1>7, <1>8, <1>9 DEF Next, Step, Serve, Handle

(* A client reads nothing that was written for another request, unless a   *)
(* handler of that request has outlived its Timeout.                       *)
THEOREM ResponsesIsolated == Spec => []ResponseIsolation
<1>1. Init => ResponseIsolation
  BY DEF Init, ResponseIsolation
<1> QED
  BY <1>1, ResponseNext, FieldsAlways, TypeInvInit, TypeInvNext, PTL DEF Spec

----------------------------------------------------------------------------
(* The status that goes out. *)

(* Nothing has been written to the response of the request.                *)
Untouched(r) == resp[r].status = 0 /\ writes[r] = 0

(* A handler has begun a 200 response: its own, or one past its Timeout.   *)
Turned(r) == resp[r].status = 200 /\ \E q \in TimedOut \cup {r} : writes[q] > 0

(* The response carries the status of the outcome, and a handler that has  *)
(* not outlived its Timeout wrote nothing.                                 *)
Told(r) ==
  /\ resp[r].status = ExpectedStatus(result[r])
  /\ r \in TimedOut \/ writes[r] = 0

(* Where the status of a response stands with the goroutine that serves    *)
(* it: untouched until its outcome is known, then told by the framework or *)
(* by PutContext, unless a handler was there first.                        *)
Standing(r) ==
  /\ hc[r] = "off" => writes[r] = 0
  /\ pc[r] \notin {"error", "put", "done"} => Untouched(r) \/ Turned(r)
  /\ pc[r] = "error" =>
       \/ Turned(r)
       \/ r \in TimedOut /\ resp[r].status = 503
       \/ result[r] \in Outcomes \ {"ok"} /\ Untouched(r)
  /\ pc[r] = "put" => Turned(r) \/ Told(r) \/ (result[r] = "ok" /\ Untouched(r))
  /\ pc[r] = "done" => Turned(r) \/ Told(r)

StatusInv == \A r \in Requests : Standing(r)

(* Writes are counted up, and no request leaves TimedOut.                  *)
Onward ==
  /\ TimedOut \subseteq TimedOut'
  /\ \A q \in Requests : writes'[q] >= writes[q]

(* Nothing of what Standing says of a request has changed.                 *)
Same(q) ==
  /\ pc'[q] = pc[q]
  /\ hc'[q] = hc[q]
  /\ writes'[q] = writes[q]
  /\ result'[q] = result[q]
  /\ resp'[q] = resp[q]

(* The status each of the writes leaves in the responses.                  *)
LEMMA StatusWritten ==
  ASSUME NEW rs \in [Requests -> Responses], NEW q, NEW code \in Nat, NEW who
  PROVE  /\ \A p \in Requests : WriteHeader(rs, q, code)[p].status =
              IF p = q /\ rs[p].status = 0 THEN code ELSE rs[p].status
         /\ \A p \in Requests : WriteBody(rs, q, who)[p].status =
              IF p = q /\ rs[p].status = 0 THEN 200 ELSE rs[p].status
         /\ code # 0 => \A p \in Requests : Reply(rs, q, code, who)[p].status =
              IF p = q /\ rs[p].status = 0 THEN code ELSE rs[p].status
<1>1. \A p \in Requests : WriteHeader(rs, q, code)[p].status =
        IF p = q /\ rs[p].status = 0 THEN code ELSE rs[p].status
  BY DEF WriteHeader
<1>2. ASSUME NEW ws \in [Requests -> Responses]
      PROVE  \A p \in Requests : WriteBody(ws, q, who)[p].status =
               IF p = q /\ ws[p].status = 0 THEN 200 ELSE ws[p].status
  BY DEF WriteBody
<1>3. WriteHeader(rs, q, code) \in [Requests -> Responses]
  BY HeaderTypes
<1>4. \A p \in Requests : WriteBody(WriteHeader(rs, q, code), q, who)[p].status =
        IF p = q /\ WriteHeader(rs, q, code)[p].status = 0 THEN 200
        ELSE WriteHeader(rs, q, code)[p].status
  BY <1>2, <1>3
<1> QED BY <1>1, <1>2, <1>4 DEF Reply

(* A 200 that a handler began stays one.                                   *)
LEMMA TurnedStays ==
  ASSUME TypeInv, TypeInv', Onward, NEW q \in Requests, Turned(q),
         resp'[q].status = resp[q].status
  PROVE  Turned(q)'
<1>1. PICK p \in TimedOut \cup {q} : writes[p] > 0
  BY DEF Turned
<1>2. p \in TimedOut' \cup {q} /\ p \in Requests
  BY <1>1 DEF Onward, TimedOut
<1>3. writes'[p] >= writes[p] /\ writes'[p] \in Nat /\ writes[p] \in Nat
  BY <1>2 DEF Onward, TypeInv, TypeOK
<1>4. writes'[p] > 0
  BY <1>1, <1>3
<1> QED BY <1>2, <1>4 DEF Turned

(* A request that a step does not concern stands where it stood.           *)
LEMMA SameStands ==
  ASSUME TypeInv, TypeInv', Onward, NEW q \in Requests, Standing(q), Same(q)
  PROVE  Standing(q)'
<1>1. q \in TimedOut' <=> q \in TimedOut
  BY DEF Same, TimedOut
<1>2. Turned(q) => Turned(q)'
  BY TurnedStays DEF Same
<1>3. /\ Untouched(q) => Untouched(q)'
      /\ Told(q) => Told(q)'
  BY <1>1 DEF Same, Untouched, Told
<1> QED BY <1>1, <1>2, <1>3 DEF Standing, Same

(* A step of the serving goroutine up to the outcome, which writes nothing. *)
LEMMA QuietStands ==
  ASSUME TypeInv, TypeInv', StatusInv, NEW r \in Requests,
         UNCHANGED <<writes, result, resp>>,
         pc[r] \notin {"error", "put", "done"},
         pc'[r] \notin {"error", "put", "done"},
         hc'[r] = "off" => hc[r] = "off",
         \A q \in Requests \ {r} : pc'[q] = pc[q] /\ hc'[q] = hc[q]
  PROVE  StatusInv'
<1>1. Onward
  BY DEF Onward, TimedOut, TypeInv, TypeOK
<1>2. \A q \in Requests \ {r} : Standing(q)'
  BY <1>1, SameStands DEF Same, StatusInv
<1>3. Turned(r) => Turned(r)'
  BY <1>1, TurnedStays
<1>4. Untouched(r) => Untouched(r)'
  BY DEF Untouched
<1>5. Standing(r)'
  BY <1>3, <1>4 DEF Standing, StatusInv
<1> QED BY <1>2, <1>5 DEF StatusInv

(* An outcome reaches the serving goroutine: the handler has not outlived  *)
(* a Timeout, and what it wrote nothing to is still untouched.             *)
LEMMA OutcomeStands ==
  ASSUME TypeInv, TypeInv', HandlerPhase, StatusInv, NEW r \in Requests,
         NEW out \in Outcomes,
         UNCHANGED <<writes, resp>>,
         pc[r] \in {"handler", "select"},
         pc' = [pc EXCEPT ![r] = IF out = "ok" THEN "put" ELSE "error"],
         result' = [result EXCEPT ![r] = out],
         hc'[r] = "off" => hc[r] = "off",
         \A q \in Requests \ {r} : hc'[q] = hc[q]
  PROVE  StatusInv'
<1> USE DEF TypeInv, TypeOK
<1>1. r \notin TimedOut
  BY DEF HandlerPhase
<1>2. Onward
  BY <1>1 DEF Onward, TimedOut
<1>3. \A q \in Requests \ {r} : Standing(q)'
  BY <1>2, SameStands DEF Same, StatusInv
<1>4. Turned(r) => Turned(r)'
  BY <1>2, TurnedStays
<1>5. Untouched(r) => Untouched(r)'
  BY DEF Untouched
<1>6. Untouched(r) \/ Turned(r)
  BY DEF Standing, StatusInv
<1>7. /\ pc'[r] = IF out = "ok" THEN "put" ELSE "error"
      /\ result'[r] = out
  OBVIOUS
<1>8. (hc[r] = "off" => writes[r] = 0)
  BY DEF Standing, StatusInv
<1>9. Standing(r)'
  BY <1>4, <1>5, <1>6, <1>7, <1>8 DEF Standing
<1> QED BY <1>3, <1>9 DEF StatusInv

(* The serving goroutine answers for a request whose handler is over: an   *)
(* untouched response gets the status of the outcome, another keeps its own. *)
LEMMA AnswerStands ==
  ASSUME TypeInv, TypeInv', StatusInv, TimedOut \subseteq TimedOut',
         NEW r \in Requests, NEW code \in Nat \ {0}, NEW next \in {"put", "done"},
         pc' = [pc EXCEPT ![r] = next],
         UNCHANGED writes,
         hc'[r] = "off" => hc[r] = "off",
         \A q \in Requests \ {r} : hc'[q] = hc[q] /\ result'[q] = result[q],
         \/ resp' = Reply(resp, r, code, <<r, "framework">>)
         \/ resp' = WriteHeader(resp, r, code),
         \/ Untouched(r) /\ code = ExpectedStatus(result'[r])
         \/ Turned(r)
         \/ Told(r) /\ result'[r] = result[r]
  PROVE  StatusInv'
<1>1. /\ resp \in [Requests -> Responses]
      /\ \A q \in Requests : writes[q] \in Nat
      /\ pc'[r] = next
      /\ \A q \in Requests \ {r} : pc'[q] = pc[q]
  BY KindsAreKnown DEF TypeInv, TypeOK
<1>2. Onward
  BY <1>1 DEF Onward
<1>3. /\ \A q \in Requests \ {r} : resp'[q] = resp[q]
      /\ resp'[r].status = IF resp[r].status = 0 THEN code ELSE resp[r].status
  <2>1. CASE resp' = WriteHeader(resp, r, code)
    BY <1>1, <2>1 DEF WriteHeader
  <2>2. CASE resp' = Reply(resp, r, code, <<r, "framework">>)
    BY <1>1, <2>2 DEF Reply, WriteBody, WriteHeader
  <2> QED BY <2>1, <2>2
<1>4. \A q \in Requests \ {r} : Standing(q)'
  BY <1>1, <1>2, <1>3, SameStands DEF Same, StatusInv
<1>5. Turned(r) \/ Told(r) => resp'[r].status = resp[r].status
  BY <1>3 DEF Turned, Told, ExpectedStatus
<1>6. Turned(r) => Turned(r)'
  BY <1>2, <1>5, TurnedStays
<1>7. Told(r) /\ result'[r] = result[r] => Told(r)'
  BY <1>5 DEF Told, TimedOut
<1>8. Untouched(r) /\ code = ExpectedStatus(result'[r]) => Told(r)'
  BY <1>3 DEF Untouched, Told
<1>9. Turned(r)' \/ Told(r)'
  BY <1>6, <1>7, <1>8
<1>10. hc'[r] = "off" => writes'[r] = 0
  BY DEF Standing, StatusInv
<1>11. Standing(r)'
  BY <1>1, <1>9, <1>10 DEF Standing
<1> QED BY <1>4, <1>11 DEF StatusInv

(* The handler of r writes: to its own response, or past its Timeout to    *)
(* the response of whoever holds its Context now.                          *)
LEMMA WriteStands ==
  ASSUME TypeInv, TypeInv', HandlerPhase, OwnFields, StatusInv,
         NEW r \in Requests, HandlerWrite(r)
  PROVE  StatusInv'
<1>0. /\ resp \in [Requests -> Responses]
      /\ hc \in [Requests -> {"off", "running", "writing", "gone"} \cup Outcomes]
      /\ \A q \in Requests : writes[q] \in Nat
      /\ DOMAIN writes = Requests
  BY KindsAreKnown DEF TypeInv, TypeOK
<1>1. PICK w : w = ctx[held[r]].writer
  OBVIOUS
<1>2. /\ HandlerActive(r)
      /\ UNCHANGED <<pc, result>>
      /\ resp' = WriteBody(resp, w, <<r, "handler">>)
  BY <1>1 DEF HandlerWrite, HandlerActive
<1>3. /\ hc[r] = "writing" /\ hc'[r] = "running"
      /\ \A q \in Requests \ {r} : hc'[q] = hc[q]
  BY <1>0 DEF HandlerWrite
<1>4. /\ writes'[r] = writes[r] + 1
      /\ \A q \in Requests \ {r} : writes'[q] = writes[q]
  BY <1>0 DEF HandlerWrite
<1>5. r \in TimedOut \/ (pc[r] \in {"handler", "select"} /\ w = r)
  BY <1>1, <1>2 DEF HandlerPhase, OwnFields, InFlight
<1>6. TimedOut' = TimedOut
  BY <1>2 DEF TimedOut
<1>7. Onward /\ writes'[r] > 0
  BY <1>0, <1>4, <1>6 DEF Onward
<1>8. \A q \in Requests : resp'[q].status =
        IF q = w /\ resp[q].status = 0 THEN 200 ELSE resp[q].status
  <2>1. \A p \in Requests : WriteBody(resp, w, <<r, "handler">>)[p].status =
          IF p = w /\ resp[p].status = 0 THEN 200 ELSE resp[p].status
    BY <1>0 DEF WriteBody
  <2> QED BY <1>2, <2>1
<1>9. ASSUME NEW q \in Requests PROVE Standing(q)'
  <2>1. Standing(q)
    BY <1>9 DEF StatusInv
  <2>2. Turned(q) => Turned(q)'
    <3> SUFFICES ASSUME Turned(q) PROVE Turned(q)'
      OBVIOUS
    <3>1. resp'[q].status = resp[q].status
      BY <1>8 DEF Turned
    <3> QED BY <1>7, <3>1, TurnedStays
  <2>3. hc'[q] = "off" => writes'[q] = 0
    BY <1>3, <1>4, <2>1 DEF Standing
  <2>4. Told(q) /\ (q # r \/ q \in TimedOut) => Told(q)'
    <3>1. ExpectedStatus(result[q]) # 0
      BY DEF ExpectedStatus
    <3>2. Told(q) => resp'[q].status = resp[q].status
      BY <1>8, <3>1 DEF Told
    <3>3. q # r => writes'[q] = writes[q]
      BY <1>4
    <3> QED BY <1>2, <1>6, <3>2, <3>3 DEF Told
  <2>5. resp[q].status = 503 => resp'[q].status = 503
    BY <1>8
  <2>6. CASE q = r /\ r \in TimedOut
    <3>1. result[q] = "timeout" /\ "timeout" \notin Outcomes
      BY <2>6, KindsAreKnown DEF TimedOut
    <3>2. pc[q] \in {"error", "put", "done"}
      BY <2>6 DEF HandlerPhase
    <3> QED
      BY <1>2, <1>6, <2>1, <2>2, <2>3, <2>4, <2>5, <2>6, <3>1, <3>2 DEF Standing
  <2>7. CASE q = r /\ r \notin TimedOut
    <3>1. pc[q] \in {"handler", "select"} /\ w = q
      BY <1>5, <2>7
    <3>2. Untouched(q) => Turned(q)'
      BY <1>7, <1>8, <2>7, <3>1 DEF Untouched, Turned
    <3> QED BY <1>2, <2>1, <2>2, <2>3, <3>1, <3>2 DEF Standing
  <2>8. CASE q # r
    <3>1. Untouched(q) => Untouched(q)' \/ Turned(q)'
      <4>1. CASE q = w
        <5>1. r \in TimedOut'
          BY <1>5, <1>6, <2>8, <4>1
        <5> QED BY <1>7, <1>8, <4>1, <5>1 DEF Untouched, Turned
      <4>2. CASE q # w
        BY <1>4, <1>8, <2>8, <4>2 DEF Untouched
      <4> QED BY <4>1, <4>2
    <3> QED
      BY <1>2, <1>6, <2>1, <2>2, <2>3, <2>4, <2>5, <2>8, <3>1 DEF Standing
  <2> QED BY <2>6, <2>7, <2>8
<1> QED BY <1>9 DEF StatusInv

(* Every step of every goroutine keeps each status where it should stand.  *)
LEMMA StatusNext ==
  TypeInv /\ HandlerPhase /\ OwnFields /\ StatusInv /\ [Next]_vars => StatusInv'
<1> SUFFICES ASSUME TypeInv, HandlerPhase, OwnFields, StatusInv, [Next]_vars
             PROVE  StatusInv'
  OBVIOUS
<1>0. /\ TypeInv'
      /\ TimedOut \subseteq TimedOut'
  BY TypeInvNext, PhaseNext
<1>a. /\ resp \in [Requests -> Responses]
      /\ pc \in [Requests -> {"idle", "setup", "compile", "get", "dispatch",
                              "handler", "select", "error", "put", "done"}]
      /\ hc \in [Requests -> {"off", "running", "writing", "gone"} \cup Outcomes]
      /\ result \in [Requests -> {"none", "notFound", "timeout", "panic"} \cup Outcomes]
      /\ done \in [Requests -> Seq(Outcomes)]
      /\ \A q \in Requests : writes[q] \in Nat
  BY KindsAreKnown DEF TypeInv, TypeOK
<1>b. UNCHANGED writes => Onward
  BY <1>0, <1>a DEF Onward
<1>c. \A q \in Requests : Standing(q)
  BY DEF StatusInv
<1>d. "off" \notin Outcomes /\ "timeout" \notin Outcomes
  BY KindsAreKnown
<1>1. ASSUME UNCHANGED <<pc, hc, writes, result, resp>> PROVE StatusInv'
  <2>1. \A q \in Requests : Same(q)
    BY <1>1 DEF Same
  <2> QED BY <1>0, <1>1, <1>b, <1>c, <2>1, SameStands DEF StatusInv
<1>2. ASSUME NEW m \in Others, Use(m) PROVE StatusInv'
  BY <1>1, <1>2 DEF Use, handlerVars
<1>3. ASSUME NEW r \in Requests,
             Arrive(r) \/ EnterSetup(r) \/ CompileChain(r) \/ AwaitSetup(r)
               \/ AcquireContext(r) \/ DispatchHit(r)
      PROVE  StatusInv'
  <2>1. PICK next \in {"setup", "compile", "get", "dispatch", "handler", "select"} :
          pc' = [pc EXCEPT ![r] = next]
    BY <1>3 DEF Arrive, EnterSetup, CompileChain, AwaitSetup, AcquireContext, DispatchHit
  <2>2. /\ pc[r] \in {"idle", "setup", "compile", "get", "dispatch"}
        /\ UNCHANGED <<writes, result, resp>>
        /\ hc' = hc \/ hc' = [hc EXCEPT ![r] = "running"]
    BY <1>3 DEF Arrive, EnterSetup, CompileChain, AwaitSetup, AcquireContext,
                DispatchHit, handlerVars
  <2>3. /\ pc'[r] \notin {"error", "put", "done"}
        /\ \A q \in Requests \ {r} : pc'[q] = pc[q] /\ hc'[q] = hc[q]
        /\ hc'[r] = "off" => hc[r] = "off"
    BY <1>a, <2>1, <2>2
  <2> QED BY <1>0, <2>2, <2>3, QuietStands
<1>4. ASSUME NEW r \in Requests, HandlerWrite(r) PROVE StatusInv'
  BY <1>0, <1>4, WriteStands
<1>5. ASSUME NEW r \in Requests, NEW next,
             HandlerActive(r) \/ hc[r] \in Outcomes, next # "off",
             hc' = [hc EXCEPT ![r] = next],
             UNCHANGED <<pc, writes, result, resp>>
      PROVE  StatusInv'
  <2>1. \A q \in Requests \ {r} : Standing(q)'
    BY <1>0, <1>5, <1>a, <1>b, <1>c, SameStands DEF Same
  <2>2. hc'[r] # "off"
    BY <1>5, <1>a
  <2>3. Turned(r) => Turned(r)'
    BY <1>0, <1>5, <1>b, TurnedStays
  <2>4. TimedOut' = TimedOut
    BY <1>5 DEF TimedOut
  <2>5. /\ Untouched(r) => Untouched(r)'
        /\ Told(r) => Told(r)'
    BY <1>5, <2>4 DEF Untouched, Told
  <2>6. Standing(r)'
    BY <1>5, <1>c, <2>2, <2>3, <2>4, <2>5 DEF Standing
  <2> QED BY <2>1, <2>6 DEF StatusInv
<1>6. ASSUME NEW r \in Requests, HandlerCheck(r) PROVE StatusInv'
  <2>1. /\ HandlerActive(r)
        /\ hc' = [hc EXCEPT ![r] = "writing"]
        /\ UNCHANGED <<pc, writes, result, resp>>
    BY <1>6 DEF HandlerCheck, HandlerActive
  <2> QED BY <1>5, <2>1
<1>7. ASSUME NEW r \in Requests, NEW out \in Outcomes, TimedReturn(r, out)
      PROVE  StatusInv'
  <2>1. /\ HandlerActive(r)
        /\ hc' = [hc EXCEPT ![r] = out]
        /\ UNCHANGED <<pc, writes, result, resp>>
    BY <1>7 DEF TimedReturn, HandlerActive
  <2> QED BY <1>5, <1>d, <2>1
<1>8. ASSUME NEW r \in Requests, TimedSend(r) PROVE StatusInv'
  <2>1. /\ hc[r] \in Outcomes
        /\ hc' = [hc EXCEPT ![r] = "gone"]
        /\ UNCHANGED <<pc, writes, result, resp>>
    BY <1>8 DEF TimedSend
  <2> QED BY <1>5, <2>1
<1>9. ASSUME NEW r \in Requests, TimedPanic(r) \/ TimerFires(r) PROVE StatusInv'
  BY <1>1, <1>9 DEF TimedPanic, TimerFires, handlerVars
<1>10. ASSUME NEW r \in Requests, NEW out \in Outcomes, HandlerReturn(r, out)
       PROVE  StatusInv'
  <2>1. /\ pc[r] \in {"handler", "select"}
        /\ pc' = [pc EXCEPT ![r] = IF out = "ok" THEN "put" ELSE "error"]
        /\ result' = [result EXCEPT ![r] = out]
        /\ hc' = [hc EXCEPT ![r] = "gone"]
        /\ UNCHANGED <<writes, resp>>
    BY <1>10 DEF HandlerReturn
  <2>2. /\ hc'[r] = "off" => hc[r] = "off"
        /\ \A q \in Requests \ {r} : hc'[q] = hc[q]
    BY <1>a, <2>1
  <2> QED BY <1>0, <2>1, <2>2, OutcomeStands
<1>11. ASSUME NEW r \in Requests, SelectDone(r) PROVE StatusInv'
  <2>1. PICK out : out = Head(done[r])
    OBVIOUS
  <2>2. done[r] \in Seq(Outcomes) /\ done[r] # << >>
    BY <1>11, <1>a DEF SelectDone
  <2>3. out \in Outcomes
    BY <2>1, <2>2
  <2>4. /\ pc[r] \in {"handler", "select"}
        /\ pc' = [pc EXCEPT ![r] = IF out = "ok" THEN "put" ELSE "error"]
        /\ result' = [result EXCEPT ![r] = out]
        /\ UNCHANGED <<hc, writes, resp>>
    BY <1>11, <2>1 DEF SelectDone
  <2> QED BY <1>0, <2>3, <2>4, OutcomeStands
<1>12. ASSUME NEW r \in Requests, SelectTimeout(r) PROVE StatusInv'
  <2>1. /\ pc[r] = "select" /\ pc'[r] = "error"
        /\ result'[r] = "timeout"
        /\ \A q \in Requests \ {r} : pc'[q] = pc[q] /\ result'[q] = result[q]
        /\ UNCHANGED <<hc, writes>>
    BY <1>12, <1>a DEF SelectTimeout, handlerVars
  <2>2. ctx[held[r]].writer = r
    BY <2>1 DEF OwnFields, InFlight
  <2>3. resp' = WriteHeader(resp, r, 503)
    BY <1>12, <2>2 DEF SelectTimeout
  <2>4. /\ \A q \in Requests \ {r} : resp'[q] = resp[q]
        /\ resp'[r].status = IF resp[r].status = 0 THEN 503 ELSE resp[r].status
    BY <1>a, <2>3 DEF WriteHeader
  <2>5. \A q \in Requests \ {r} : Standing(q)'
    BY <1>0, <1>b, <1>c, <2>1, <2>4, SameStands DEF Same
  <2>6. Turned(r) => Turned(r)'
    <3> SUFFICES ASSUME Turned(r) PROVE Turned(r)'
      OBVIOUS
    <3>1. resp'[r].status = resp[r].status
      BY <2>4 DEF Turned
    <3> QED BY <1>0, <1>b, <2>1, <3>1, TurnedStays
  <2>7. r \in TimedOut'
    BY <2>1 DEF TimedOut
  <2>8. Untouched(r) => resp'[r].status = 503
    BY <2>4 DEF Untouched
  <2>9. Standing(r)'
    BY <1>c, <2>1, <2>6, <2>7, <2>8 DEF Standing
  <2> QED BY <2>5, <2>9 DEF StatusInv
<1>13. ASSUME NEW r \in Requests, InFlight(r) PROVE ctx[held[r]].writer = r
  BY <1>13 DEF OwnFields
<1>14. ASSUME NEW r \in Requests, DispatchMiss(r) PROVE StatusInv'
  <2>1. /\ pc[r] = "dispatch"
        /\ pc' = [pc EXCEPT ![r] = "put"]
        /\ result' = [result EXCEPT ![r] = "notFound"]
        /\ UNCHANGED <<hc, writes>>
    BY <1>14 DEF DispatchMiss, handlerVars
  <2>0. PICK code \in Nat \ {0} : code = 404
    OBVIOUS
  <2>2. resp' = Reply(resp, r, code, <<r, "framework">>)
    BY <1>13, <1>14, <2>0, <2>1 DEF DispatchMiss, InFlight
  <2>3. /\ \A q \in Requests \ {r} : result'[q] = result[q]
        /\ ExpectedStatus(result'[r]) = 404
    BY <1>a, <2>1 DEF ExpectedStatus
  <2>4. Untouched(r) \/ Turned(r)
    BY <1>c, <2>1 DEF Standing
  <2>5. "put" \in {"put", "done"}
    OBVIOUS
  <2>6. hc'[r] = "off" => hc[r] = "off"
    BY <2>1, <2>3
  <2>7. \A q \in Requests \ {r} : hc'[q] = hc[q] /\ result'[q] = result[q]
    BY <2>1, <2>3
  <2>8. \/ Untouched(r) /\ code = ExpectedStatus(result'[r])
        \/ Turned(r)
        \/ Told(r) /\ result'[r] = result[r]
    BY <2>0, <2>3, <2>4
  <2> QED BY <1>0, <2>1, <2>2, <2>5, <2>6, <2>7, <2>8, AnswerStands
<1>15. ASSUME NEW r \in Requests, HandlerPanic(r) PROVE StatusInv'
  <2>1. /\ pc[r] = "handler"
        /\ pc' = [pc EXCEPT ![r] = "put"]
        /\ result' = [result EXCEPT ![r] = "panic"]
        /\ hc' = [hc EXCEPT ![r] = "gone"]
        /\ UNCHANGED writes
    BY <1>15 DEF HandlerPanic
  <2>0. PICK code \in Nat \ {0} : code = 500
    OBVIOUS
  <2>2. resp' = Reply(resp, r, code, <<r, "framework">>)
    BY <1>13, <1>15, <2>0, <2>1 DEF HandlerPanic, InFlight
  <2>3. /\ \A q \in Requests \ {r} : result'[q] = result[q] /\ hc'[q] = hc[q]
        /\ hc'[r] # "off"
        /\ ExpectedStatus(result'[r]) = 500
    BY <1>a, <2>1 DEF ExpectedStatus
  <2>4. Untouched(r) \/ Turned(r)
    BY <1>c, <2>1 DEF Standing
  <2>5. "put" \in {"put", "done"}
    OBVIOUS
  <2>6. hc'[r] = "off" => hc[r] = "off"
    BY <2>1, <2>3
  <2>7. \A q \in Requests \ {r} : hc'[q] = hc[q] /\ result'[q] = result[q]
    BY <2>1, <2>3
  <2>8. \/ Untouched(r) /\ code = ExpectedStatus(result'[r])
        \/ Turned(r)
        \/ Told(r) /\ result'[r] = result[r]
    BY <2>0, <2>3, <2>4
  <2> QED BY <1>0, <2>1, <2>2, <2>5, <2>6, <2>7, <2>8, AnswerStands
<1>16. ASSUME NEW r \in Requests, HandleError(r) PROVE StatusInv'
  <2>1. /\ pc[r] = "error"
        /\ pc' = [pc EXCEPT ![r] = "put"]
        /\ UNCHANGED <<hc, writes, result>>
    BY <1>16 DEF HandleError, handlerVars
  <2>2. resp' = Reply(resp, r, ErrorCode(result[r]), <<r, "framework">>)
    BY <1>13, <1>16, <2>1 DEF HandleError, InFlight
  <2>3. ErrorCode(result[r]) \in Nat \ {0}
    BY DEF ErrorCode
  <2>4. \/ Turned(r)
        \/ r \in TimedOut /\ resp[r].status = 503
        \/ result[r] \in Outcomes \ {"ok"} /\ Untouched(r)
    BY <1>c, <2>1 DEF Standing
  <2>5. r \in TimedOut /\ resp[r].status = 503 => Told(r)
    BY DEF Told, TimedOut, ExpectedStatus
  <2>6. result[r] \in Outcomes \ {"ok"} =>
          ErrorCode(result[r]) = ExpectedStatus(result'[r])
    BY <2>1, KindsAreKnown DEF ErrorCode, ExpectedStatus
  <2> QED BY <1>0, <2>1, <2>2, <2>3, <2>4, <2>5, <2>6, AnswerStands
<1>17. ASSUME NEW r \in Requests, PutContext(r) PROVE StatusInv'
  <2>1. /\ pc[r] = "put"
        /\ pc' = [pc EXCEPT ![r] = "done"]
        /\ resp' = WriteHeader(resp, r, 200)
        /\ UNCHANGED <<hc, writes, result>>
    BY <1>17 DEF PutContext, handlerVars
  <2>2. Turned(r) \/ Told(r) \/ (result[r] = "ok" /\ Untouched(r))
    BY <1>c, <2>1 DEF Standing
  <2>3. result[r] = "ok" => ExpectedStatus(result'[r]) = 200
    BY <2>1 DEF ExpectedStatus
  <2>4. 200 \in Nat \ {0} /\ "done" \in {"put", "done"}
    OBVIOUS
  <2>5. \A q \in Requests \ {r} : hc'[q] = hc[q] /\ result'[q] = result[q]
    BY <2>1
  <2>6. hc'[r] = "off" => hc[r] = "off"
    BY <2>1
  <2>7. \/ Untouched(r) /\ 200 = ExpectedStatus(result'[r])
        \/ Turned(r)
        \/ Told(r) /\ result'[r] = result[r]
    BY <2>1, <2>2, <2>3
  <2> QED BY <1>0, <2>1, <2>4, <2>5, <2>6, <2>7, AnswerStands
<1>18. CASE UNCHANGED vars
  BY <1>1, <1>18 DEF vars, handlerVars
<1> QED
  BY <1>2, <1>3, <1>4, <1>6, <1>7, <1>8, <1>9, <1>10, <1>11, <1>12, <1>14, <1>15,
     <1>16, <1>17, <1>18 DEF Next, Step, Serve, Handle

(* However requests, handlers, timers and handlers past their Timeout      *)
(* interleave, the status a client reads is that of the outcome of its own *)
(* handler, or a 200 that a handler began before there was an outcome.     *)
THEOREM StatusIsOfOutcome == Spec => []StatusMatchesOutcome
<1>1. Init => StatusInv
  <2>1. ASSUME Init, NEW r \in Requests PROVE Standing(r)
    <3>1. pc[r] = "idle" /\ hc[r] = "off" /\ writes[r] = 0 /\ resp[r].status = 0
      BY <2>1 DEF Init
    <3> QED BY <3>1 DEF Standing, Untouched
  <2> QED BY <2>1 DEF StatusInv
<1>2. StatusInv => StatusMatchesOutcome
  BY DEF StatusInv, Standing, Turned, Told, StatusMatchesOutcome
<1> QED
  BY <1>1, <1>2, StatusNext, FieldsAlways, TypeInvInit, TypeInvNext, PTL DEF Spec

----------------------------------------------------------------------------
(* The lazy compilation of the chain. *)

(* At most one request is inside once.Do, and App.handler is set only when *)
(* the Once is over.                                                       *)
OnceInv ==
  /\ handler # << >> => once = "done"
  /\ \A r \in Requests : pc[r] = "compile" => once = "running"
  /\ \A r, q \in Requests : pc[r] = "compile" /\ pc[q] = "compile" => r = q

(* What a step keeps of the Once and of a compiled chain. *)
Kept == OnceInv' /\ (handler # << >> => UNCHANGED handler)

(* Every step keeps the Once exclusive, and none replaces a compiled chain. *)
LEMMA OnceNext ==
  TypeInv /\ OnceInv /\ [Next]_vars => Kept
<1> SUFFICES ASSUME TypeInv, OnceInv, [Next]_vars
             PROVE  Kept
  OBVIOUS
<1> USE DEF TypeInv, TypeOK, OnceInv
<1>1. ASSUME UNCHANGED <<handler, once>>,
             \A q \in Requests : pc'[q] = "compile" => pc[q] = "compile"
      PROVE  Kept
  BY <1>1 DEF Kept
<1>2. ASSUME NEW m \in Others, Use(m) PROVE Kept
  BY <1>2, <1>1 DEF Use
<1>3. ASSUME NEW r \in Requests, EnterSetup(r) PROVE Kept
  BY <1>3 DEF EnterSetup, OnceUnused, Kept
<1>4. ASSUME NEW r \in Requests, CompileChain(r) PROVE Kept
  BY <1>4 DEF CompileChain, Kept
<1>5. ASSUME NEW r \in Requests, Arrive(r) \/ AwaitSetup(r) \/ AcquireContext(r)
      PROVE  Kept
  BY <1>5, <1>1 DEF Arrive, AwaitSetup, SetupOver, AcquireContext, setupVars
<1>6. ASSUME NEW r \in Requests, DispatchMiss(r) \/ DispatchHit(r) PROVE Kept
  BY <1>6, <1>1 DEF DispatchMiss, DispatchHit, setupVars
<1>7. ASSUME NEW r \in Requests, HandlerCheck(r) \/ HandlerWrite(r) \/ HandlerPanic(r)
      PROVE  Kept
  BY <1>7, <1>1 DEF HandlerCheck, HandlerWrite, HandlerPanic, setupVars
<1>8. ASSUME NEW r \in Requests, NEW out \in Outcomes,
             HandlerReturn(r, out) \/ TimedReturn(r, out)
      PROVE  Kept
  BY <1>8, <1>1 DEF HandlerReturn, TimedReturn, setupVars
<1>9. ASSUME NEW r \in Requests, TimedPanic(r) \/ TimedSend(r) \/ TimerFires(r)
      PROVE  Kept
  BY <1>9, <1>1 DEF TimedPanic, TimedSend, TimerFires, setupVars
<1>10. ASSUME NEW r \in Requests, SelectDone(r) \/ SelectTimeout(r)
       PROVE  Kept
  BY <1>10, <1>1 DEF SelectDone, SelectTimeout, setupVars
<1>11. ASSUME NEW r \in Requests, HandleError(r) \/ PutContext(r) PROVE Kept
  BY <1>11, <1>1 DEF HandleError, PutContext, setupVars
<1>12. CASE UNCHANGED vars
  BY <1>12, <1>1 DEF vars, setupVars
<1> QED
  BY <1>2, <1>3, <1>4, <1>5, <1>6, <1>7, <1>8, <1>9, <1>10, <1>11, <1>12
     DEF Next, Step, Serve, Handle

(* Every chain, compiled or to be, begins with Recovery; once the Once is  *)
(* over there is one, and only then does a request go on to serve.         *)
ReadyInv ==
  /\ middlewares # << >> /\ middlewares[1] = Recovery
  /\ handler # << >> => handler[1] = Recovery
  /\ once = "done" => handler # << >>
  /\ \A r \in Requests : pc[r] = "get" \/ InFlight(r) => handler # << >>

(* A step that leaves the chain alone and lets no request in to serve.     *)
LEMMA ReadyKept ==
  ASSUME ReadyInv, UNCHANGED setupVars,
         \A q \in Requests : pc'[q] = "get" \/ InFlight(q)' =>
           handler # << >> \/ pc[q] = "get" \/ InFlight(q)
  PROVE  ReadyInv'
BY DEF ReadyInv, setupVars

LEMMA ReadyNext == TypeInv /\ ReadyInv /\ [Next]_vars => ReadyInv'
<1> SUFFICES ASSUME TypeInv, ReadyInv, [Next]_vars PROVE ReadyInv'
  OBVIOUS
<1> USE DEF TypeInv, TypeOK
<1>1. ASSUME NEW m \in Others, Use(m) PROVE ReadyInv'
  <2>1. middlewares' # << >> /\ middlewares'[1] = middlewares[1]
    <3>1. middlewares \in Seq({Recovery} \cup Others) /\ Len(middlewares) # 0
      BY DEF ReadyInv
    <3>2. middlewares' = Append(middlewares, m) /\ m \in {Recovery} \cup Others
      BY <1>1 DEF Use
    <3>3. QED
      BY <3>1, <3>2
  <2>2. UNCHANGED <<handler, once, pc>>
    BY <1>1 DEF Use
  <2>3. QED
    BY <2>1, <2>2 DEF ReadyInv, InFlight
<1>2. ASSUME NEW r \in Requests, CompileChain(r) PROVE ReadyInv'
  BY <1>2 DEF CompileChain, ReadyInv
<1>3. ASSUME NEW r \in Requests, EnterSetup(r) PROVE ReadyInv'
  BY <1>3 DEF EnterSetup, ReadyInv, InFlight
<1>4. ASSUME NEW r \in Requests, Arrive(r) \/ AwaitSetup(r) \/ AcquireContext(r)
      PROVE  ReadyInv'
  <2>1. ASSUME NEW q \in Requests, pc'[q] = "get" \/ InFlight(q)'
        PROVE  handler # << >> \/ pc[q] = "get" \/ InFlight(q)
    BY <1>4, <2>1 DEF Arrive, AwaitSetup, SetupOver, AcquireContext, ReadyInv, InFlight
  <2>2. UNCHANGED setupVars
    BY <1>4 DEF Arrive, AwaitSetup, AcquireContext, setupVars
  <2>3. QED
    BY <2>1, <2>2, ReadyKept
<1>5. ASSUME NEW r \in Requests,
             \/ DispatchMiss(r) \/ DispatchHit(r) \/ SelectDone(r) \/ SelectTimeout(r)
             \/ HandleError(r) \/ PutContext(r)
      PROVE  ReadyInv'
  <2>1. ASSUME NEW q \in Requests, pc'[q] = "get" \/ InFlight(q)'
        PROVE  pc[q] = "get" \/ InFlight(q)
    BY <1>5, <2>1 DEF DispatchMiss, DispatchHit, SelectDone, SelectTimeout, HandleError,
       PutContext, InFlight
  <2>2. UNCHANGED setupVars
    BY <1>5 DEF DispatchMiss, DispatchHit, SelectDone, SelectTimeout, HandleError, PutContext,
       setupVars
  <2>3. QED
    BY <2>1, <2>2, ReadyKept
<1>6. ASSUME NEW r \in Requests, Handle(r) \/ TimedSend(r) \/ TimerFires(r)
      PROVE  ReadyInv'
  <2>1. ASSUME NEW q \in Requests, pc'[q] = "get" \/ InFlight(q)'
        PROVE  pc[q] = "get" \/ InFlight(q)
    BY <1>6, <2>1 DEF Handle, HandlerCheck, HandlerWrite, HandlerReturn, TimedReturn,
       HandlerPanic, TimedPanic, TimedSend, TimerFires, InFlight
  <2>2. UNCHANGED setupVars
    BY <1>6 DEF Handle, HandlerCheck, HandlerWrite, HandlerReturn, TimedReturn, HandlerPanic,
       TimedPanic, TimedSend, TimerFires, setupVars
  <2>3. QED
    BY <2>1, <2>2, ReadyKept
<1>7. CASE UNCHANGED vars
  BY <1>7 DEF vars, setupVars, ReadyInv, InFlight
<1> QED
  BY <1>1, <1>2, <1>3, <1>4, <1>5, <1>6, <1>7 DEF Next, Step, Serve

(* However many first requests race into setup, and whatever the racy read *)
(* of App.handler returns, the chain is compiled at most once, and none is *)
(* served without it: Recovery is outermost for all.                       *)
THEOREM ChainStable == Spec => ChainCompiledOnce
<1>1. Init => OnceInv /\ ReadyInv
  BY DEF Init, OnceInv, ReadyInv, InFlight
<1>2. TypeInv /\ OnceInv /\ [Next]_vars => OnceInv'
  BY OnceNext DEF Kept
<1>3. ReadyInv' => ChainReady'
  BY DEF ReadyInv, ChainReady, InFlight
<1>4. TypeInv /\ OnceInv /\ ReadyInv /\ [Next]_vars
        => [(handler # << >> => UNCHANGED handler) /\ ChainReady']_<<handler, pc>>
  BY <1>3, OnceNext, ReadyNext DEF Kept
<1> QED
  BY <1>1, <1>2, <1>3, <1>4, ReadyNext, TypeInvInit, TypeInvNext, PTL
  DEF Spec, ChainCompiledOnce
=============================================================================
