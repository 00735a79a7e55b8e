-------------------------- MODULE IdempotencyProofs -------------------------
(***************************************************************************)
(* Proofs about Idempotency: at most one execution of a handler per        *)
(* lifetime of its key, and one answer per key until the store first drops *)
(* it, for any number of requests, keys and losses of a key.               *)
(***************************************************************************)
EXTENDS Idempotency, TLAPS

(***************************************************************************)
(* Types.                                                                  *)
(***************************************************************************)

\* A request under way has a key, and a handler that ended left a response.
Keyed ==
    \A r \in Requests :
        /\ request[r].pc # "idle" => request[r].key \in Keys
        /\ request[r].pc = "complete" => request[r].resp \in Responses

TypeInv == TypeOK /\ Keyed

LEMMA EntryTypes ==
    /\ Absent \in Entry
    /\ InProgress \in Entry
    /\ \A resp \in Responses : Completed(resp) \in Entry
  BY DEF Entry, Absent, InProgress, Completed

LEMMA EntriesDiffer == InProgress # Absent /\ \A resp : Completed(resp) # Absent
<1>1. InProgress.status # Absent.status
  BY DEF InProgress, Absent
<1>2. ASSUME NEW resp PROVE Completed(resp).status # Absent.status
  BY DEF Completed, Absent
<1> QED
  BY <1>1, <1>2

LEMMA IdleType == Idle \in Progress /\ Idle.pc = "idle"
  BY DEF Idle, Progress

LEMMA ReplyTypes ==
    /\ \A kind \in ReplyKinds \ {"fresh", "replayed"} : Short(kind) \in Reply
    /\ \A k \in Keys, resp \in Responses : Fresh(k, resp) \in Reply
    /\ \A k \in Keys, resp \in Responses \cup {Nil} : Replayed(k, resp) \in Reply
  BY DEF Short, Fresh, Replayed, Reply, ReplyKinds

LEMMA InitType == Init => TypeInv
  BY EntryTypes, IdleType, ReplyTypes DEF Init, TypeInv, TypeOK, Keyed, ReplyKinds

\* A step keeps the types if it leaves the request it concerns well-formed.
LEMMA TypeStep == TypeInv /\ [Next]_vars => TypeInv'
<1> SUFFICES ASSUME TypeInv, [Next]_vars PROVE TypeInv'
  OBVIOUS
<1> USE EntryTypes, IdleType, ReplyTypes DEF TypeInv, TypeOK, Keyed
<1>1. ASSUME NEW r \in Requests, NEW k \in Keys, Send(r, k) PROVE TypeInv'
  <2>1. [Idle EXCEPT !.pc = "acquire", !.key = k] \in Progress
    BY DEF Idle, Progress
  <2>2. Short("none") \in Reply
    BY DEF ReplyKinds
  <2> QED
    BY <1>1, <2>1, <2>2 DEF Send, Idle
<1>2. ASSUME NEW r \in Requests, Acquire(r) PROVE TypeInv'
  <2> DEFINE k == request[r].key
             after == [request[r] EXCEPT !.pc = "handler", !.run = executed[k] + 1]
  <2>1. k \in Keys
    BY <1>2 DEF Acquire
  <2>2. /\ store' = [store EXCEPT ![k] = InProgress]
        /\ executed' = [executed EXCEPT ![k] = @ + 1]
        /\ UNCHANGED <<reply, expired>>
        /\ request' = [request EXCEPT ![r] = after]
    BY <1>2 DEF Acquire, CallNext
  <2>3. executed[k] + 1 \in Nat /\ request[r] \in Progress
    BY <2>1
  <2> HIDE DEF TypeInv, TypeOK, Keyed
  <2>4. after \in Progress /\ after.key = k /\ after.pc = "handler"
    BY <2>3 DEF Progress
  <2> HIDE DEF k, after
  <2> QED
    BY <2>1, <2>2, <2>3, <2>4 DEF TypeInv, TypeOK, Keyed
<1>3. ASSUME NEW r \in Requests, NotAcquired(r) PROVE TypeInv'
  BY <1>3 DEF NotAcquired, Goto, Progress
<1>4. ASSUME NEW r \in Requests, AcquireFails(r) PROVE TypeInv'
  <2>1. Short("internal") \in Reply
    BY DEF ReplyKinds
  <2>2. store' \in [Keys -> Entry]
    BY <1>4 DEF AcquireFails
  <2> QED
    BY <1>4, <2>1, <2>2 DEF AcquireFails, Finish
<1>5. ASSUME NEW r \in Requests, State(r) PROVE TypeInv'
  <2> DEFINE k == request[r].key
             answer == CASE store[k].status = "IN_PROGRESS" -> Short("conflict")
                         [] store[k].status = "COMPLETED" -> Replayed(k, store[k].resp)
                         [] OTHER -> Short("internal")
  <2>1. k \in Keys /\ store[k].resp \in Responses \cup {Nil}
    BY <1>5 DEF State, Entry
  <2>2. answer \in Reply
    BY <2>1 DEF ReplyKinds
  <2>3. Finish(r, answer) /\ UNCHANGED <<store, executed, expired>>
    BY <1>5 DEF State
  <2> HIDE DEF answer
  <2> QED
    BY <2>2, <2>3 DEF Finish
<1>6. ASSUME NEW r \in Requests, StateFails(r) \/ HandlerFails(r) PROVE TypeInv'
  <2>1. Short("internal") \in Reply
    BY DEF ReplyKinds
  <2> QED
    BY <1>6, <2>1 DEF StateFails, HandlerFails, Finish
<1>7. ASSUME NEW r \in Requests, Handle(r) PROVE TypeInv'
  <2>1. PICK outcome \in Outcomes :
          LET resp == [outcome |-> outcome, run |-> request[r].run]
          IN /\ reply' = [reply EXCEPT ![r] = Fresh(request[r].key, resp)]
             /\ request' = [request EXCEPT ![r].pc = "complete", ![r].resp = resp]
    BY <1>7 DEF Handle
  <2> DEFINE resp == [outcome |-> outcome, run |-> request[r].run]
             after == [request[r] EXCEPT !.pc = "complete", !.resp = resp]
  <2>2. request[r] \in Progress /\ request[r].key \in Keys
    BY <1>7 DEF Handle
  <2>3. resp \in Responses
    BY <2>2 DEF Responses, Progress
  <2>4. Fresh(request[r].key, resp) \in Reply
    BY <2>2, <2>3
  <2>5. /\ reply' = [reply EXCEPT ![r] = Fresh(request[r].key, resp)]
        /\ request' = [request EXCEPT ![r] = after]
    BY <2>1
  <2> HIDE DEF TypeInv, TypeOK, Keyed, resp
  <2>6. after \in Progress /\ after.key \in Keys /\ after.resp \in Responses
    BY <2>2, <2>3 DEF Progress
  <2> HIDE DEF after
  <2> QED
    BY <1>7, <2>4, <2>5, <2>6 DEF Handle, TypeInv, TypeOK, Keyed
<1>8. ASSUME NEW r \in Requests, Complete(r) PROVE TypeInv'
  <2>1. Completed(request[r].resp) \in Entry
    BY <1>8 DEF Complete
  <2> QED
    BY <1>8, <2>1 DEF Complete
<1>9. ASSUME NEW r \in Requests, CompleteFails(r) PROVE TypeInv'
  BY <1>9 DEF CompleteFails
<1>10. ASSUME NEW r \in Requests, Crash(r) PROVE TypeInv'
  <2>1. Short("lost") \in Reply
    BY DEF ReplyKinds
  <2> QED
    BY <1>10, <2>1 DEF Crash
<1>11. ASSUME NEW k \in Keys, Expire(k) PROVE TypeInv'
  BY <1>11 DEF Expire
<1>12. CASE UNCHANGED vars
  BY <1>12 DEF vars
<1> QED
  BY <1>1, <1>2, <1>3, <1>4, <1>5, <1>6, <1>7, <1>8, <1>9, <1>10, <1>11, <1>12
  DEF Next, ServerStep

LEMMA TypeAlways == Spec => []TypeInv
  BY InitType, TypeStep, PTL DEF Spec

(***************************************************************************)
(* At most one execution per lifetime.  The count alone is not inductive:  *)
(* a key that is absent must have an execution in hand.                    *)
(***************************************************************************)
Claimed(k) == IF store[k] = Absent THEN 0 ELSE 1

ExecutionsCovered == \A k \in Keys : executed[k] <= expired[k] + Claimed(k)

LEMMA InitCovered == Init => ExecutionsCovered
  BY DEF Init, ExecutionsCovered, Claimed

\* Only Acquire executes and only Expire empties an entry.
LEMMA CoveredStep == TypeInv /\ ExecutionsCovered /\ [Next]_vars => ExecutionsCovered'
<1> SUFFICES ASSUME TypeInv, ExecutionsCovered, [Next]_vars PROVE ExecutionsCovered'
  OBVIOUS
<1> USE EntriesDiffer DEF TypeInv, TypeOK, Keyed, ExecutionsCovered, Claimed
<1>1. CASE UNCHANGED <<store, executed, expired>>
  BY <1>1
<1>2. ASSUME NEW r \in Requests, Acquire(r) PROVE ExecutionsCovered'
  <2> DEFINE k == request[r].key
  <2>1. k \in Keys /\ store[k] = Absent
    BY <1>2 DEF Acquire
  <2>2. /\ store' = [store EXCEPT ![k] = InProgress]
        /\ executed' = [executed EXCEPT ![k] = @ + 1]
        /\ expired' = expired
    BY <1>2 DEF Acquire, CallNext
  <2> HIDE DEF k
  <2> QED
    BY <2>1, <2>2
<1>3. ASSUME NEW r \in Requests, AcquireFails(r) PROVE ExecutionsCovered'
  <2> DEFINE k == request[r].key
  <2>1. /\ \/ store' = store
           \/ store' = [store EXCEPT ![k] = InProgress]
        /\ UNCHANGED <<executed, expired>>
    BY <1>3 DEF AcquireFails
  <2> HIDE DEF k
  <2> QED
    BY <2>1
<1>4. ASSUME NEW r \in Requests, Complete(r) PROVE ExecutionsCovered'
  <2> DEFINE k == request[r].key
             entry == Completed(request[r].resp)
  <2>1. store' = [store EXCEPT ![k] = entry] /\ UNCHANGED <<executed, expired>>
    BY <1>4 DEF Complete
  <2>2. entry # Absent
    OBVIOUS
  <2> HIDE DEF k, entry
  <2> QED
    BY <2>1, <2>2
<1>5. ASSUME NEW k \in Keys, Expire(k) PROVE ExecutionsCovered'
  BY <1>5 DEF Expire
<1> QED
  BY <1>1, <1>2, <1>3, <1>4, <1>5
  DEF Next, ServerStep, vars, Send, NotAcquired, State, StateFails, Handle,
      HandlerFails, CompleteFails, Crash

\* The middleware executes a handler at most once per lifetime of its key,
\* whatever is retried, fails or crashes.
THEOREM AtMostOnce == Spec => []AtMostOncePerLifetime
<1>1. TypeInv /\ ExecutionsCovered => AtMostOncePerLifetime
  BY DEF TypeInv, TypeOK, ExecutionsCovered, Claimed, AtMostOncePerLifetime
<1> QED
  BY <1>1, TypeAlways, InitCovered, CoveredStep, PTL DEF Spec

(***************************************************************************)
(* One answer per key.  Until the store drops a key for the first time,    *)
(* the request that claimed it is the only one to hold it, and what it is  *)
(* about to answer or to cache is all there is to know of the key.         *)
(***************************************************************************)
Holds(r, k) == request[r].pc \in {"handler", "complete"} /\ request[r].key = k

HasAnswer(q, k) == Answered(q) /\ reply[q].key = k

\* A key that is held is in progress, and by one request.
SoleHolder(k) ==
    /\ \A r \in Requests : Holds(r, k) => store[k] = InProgress
    /\ \A r, q \in Requests : Holds(r, k) /\ Holds(q, k) => r = q

\* What the answers that clients hold have in common, by the key's state.
AnswersAgree(k) ==
    /\ store[k] = Absent => \A q \in Requests : ~ HasAnswer(q, k)
    /\ store[k].status = "COMPLETED" =>
            \A q \in Requests : HasAnswer(q, k) => reply[q].resp = store[k].resp
    /\ \A r \in Requests : Holds(r, k) =>
            \A q \in Requests : HasAnswer(q, k) =>
                request[r].pc = "complete" /\ reply[q].resp = request[r].resp
    /\ \A r, q \in Requests :
            HasAnswer(r, k) /\ HasAnswer(q, k) => reply[r].resp = reply[q].resp

KeyInv == \A k \in Keys : expired[k] = 0 => SoleHolder(k) /\ AnswersAgree(k)

LEMMA InitKey == Init => KeyInv
<1> SUFFICES ASSUME Init PROVE KeyInv
  OBVIOUS
<1>1. \A r \in Requests, k \in Keys : ~ Holds(r, k)
  BY DEF Init, Holds, Idle
<1>2. \A r \in Requests, k \in Keys : ~ HasAnswer(r, k)
  BY DEF Init, HasAnswer, Answered, Short
<1> QED
  BY <1>1, <1>2 DEF KeyInv, SoleHolder, AnswersAgree

\* A step that leaves the store alone, takes hold of no key and only passes
\* on what is cached.
LEMMA QuietStep ==
    ASSUME KeyInv, store' = store, expired' = expired,
           \A q \in Requests, k \in Keys :
                Holds(q, k)' => Holds(q, k) /\ request'[q] = request[q],
           \A q \in Requests, k \in Keys :
                HasAnswer(q, k)' =>
                    \/ HasAnswer(q, k) /\ reply'[q] = reply[q]
                    \/ store[k].status = "COMPLETED" /\ reply'[q].resp = store[k].resp
    PROVE  KeyInv'
<1> SUFFICES ASSUME NEW k \in Keys, expired[k] = 0
             PROVE SoleHolder(k)' /\ AnswersAgree(k)'
  BY DEF KeyInv
<1>1. SoleHolder(k) /\ AnswersAgree(k)
  BY DEF KeyInv
<1>2. SoleHolder(k)'
  BY <1>1 DEF SoleHolder
<1>3. /\ Absent.status # "COMPLETED"
      /\ InProgress.status # "COMPLETED"
  BY DEF Absent, InProgress
<1>4. (store[k] = Absent => \A q \in Requests : ~ HasAnswer(q, k))'
  BY <1>1, <1>3 DEF AnswersAgree
<1>5. (store[k].status = "COMPLETED" =>
            \A q \in Requests : HasAnswer(q, k) => reply[q].resp = store[k].resp)'
  BY <1>1 DEF AnswersAgree
<1>6. (\A r \in Requests : Holds(r, k) =>
            \A q \in Requests : HasAnswer(q, k) =>
                request[r].pc = "complete" /\ reply[q].resp = request[r].resp)'
  BY <1>1, <1>3 DEF AnswersAgree, SoleHolder
<1>7. (\A r, q \in Requests :
            HasAnswer(r, k) /\ HasAnswer(q, k) => reply[r].resp = reply[q].resp)'
  BY <1>1 DEF AnswersAgree
<1> QED
  BY <1>2, <1>4, <1>5, <1>6, <1>7 DEF AnswersAgree

\* A request of its own: after a step that replaces one request's entry, all
\* others hold what they held.
LEMMA HoldsFrame ==
    ASSUME TypeOK, NEW r \in Requests, NEW entry,
           request' = [request EXCEPT ![r] = entry]
    PROVE  /\ request'[r] = entry
           /\ \A q \in Requests \ {r}, k \in Keys :
                request'[q] = request[q] /\ (Holds(q, k)' <=> Holds(q, k))
           /\ \A k \in Keys : Holds(r, k)' <=>
                entry.pc \in {"handler", "complete"} /\ entry.key = k
  BY DEF TypeOK, Holds

LEMMA AnswerFrame ==
    ASSUME TypeOK, NEW r \in Requests, NEW answer,
           reply' = [reply EXCEPT ![r] = answer]
    PROVE  /\ reply'[r] = answer
           /\ \A q \in Requests \ {r}, k \in Keys :
                reply'[q] = reply[q] /\ (HasAnswer(q, k)' <=> HasAnswer(q, k))
           /\ \A k \in Keys : HasAnswer(r, k)' <=>
                answer.kind \in {"fresh", "replayed"} /\ answer.key = k
  BY DEF TypeOK, HasAnswer, Answered

\* The request ends, with an answer that is no handler's or is the cached one.
LEMMA FinishStep ==
    ASSUME TypeOK, KeyInv, NEW r \in Requests, NEW answer,
           store' = store, expired' = expired, Finish(r, answer),
           answer.kind \in {"fresh", "replayed"} =>
                /\ answer.key = request[r].key
                /\ store[request[r].key].status = "COMPLETED"
                /\ answer.resp = store[request[r].key].resp
    PROVE  KeyInv'
<1>1. /\ request' = [request EXCEPT ![r] = Idle]
      /\ reply' = [reply EXCEPT ![r] = answer]
  BY DEF Finish
<1>2. \A q \in Requests, k \in Keys :
          Holds(q, k)' => Holds(q, k) /\ request'[q] = request[q]
  <2>1. Idle.pc \notin {"handler", "complete"}
    BY DEF Idle
  <2> QED
    BY <1>1, <2>1, HoldsFrame
<1>3. \A q \in Requests, k \in Keys :
          HasAnswer(q, k)' =>
              \/ HasAnswer(q, k) /\ reply'[q] = reply[q]
              \/ store[k].status = "COMPLETED" /\ reply'[q].resp = store[k].resp
  <2>1. /\ reply'[r] = answer
        /\ \A q \in Requests \ {r}, k \in Keys :
              reply'[q] = reply[q] /\ (HasAnswer(q, k)' <=> HasAnswer(q, k))
        /\ \A k \in Keys : HasAnswer(r, k)' <=>
              answer.kind \in {"fresh", "replayed"} /\ answer.key = k
    BY <1>1, AnswerFrame
  <2>2. ASSUME NEW k \in Keys, HasAnswer(r, k)'
        PROVE store[k].status = "COMPLETED" /\ reply'[r].resp = store[k].resp
    BY <2>1, <2>2
  <2> QED
    BY <2>1, <2>2
<1> QED
  BY <1>2, <1>3, QuietStep

\* The request's place in the code moves without taking hold of a key.
LEMMA MoveStep ==
    ASSUME TypeOK, KeyInv, NEW r \in Requests, NEW entry,
           request' = [request EXCEPT ![r] = entry],
           entry.pc \notin {"handler", "complete"},
           UNCHANGED <<store, reply, expired>>
    PROVE  KeyInv'
<1>1. \A q \in Requests, k \in Keys :
          Holds(q, k)' => Holds(q, k) /\ request'[q] = request[q]
  BY HoldsFrame
<1>2. \A q \in Requests, k \in Keys :
          HasAnswer(q, k)' => HasAnswer(q, k) /\ reply'[q] = reply[q]
  BY DEF HasAnswer, Answered
<1> QED
  BY <1>1, <1>2, QuietStep

\* Each step of a request keeps KeyInv.
LEMMA KeyStep == TypeInv /\ KeyInv /\ [Next]_vars => KeyInv'
<1> SUFFICES ASSUME TypeInv, KeyInv, [Next]_vars PROVE KeyInv'
  OBVIOUS
<1>0. TypeOK /\ Keyed
  BY DEF TypeInv
<1>1. ASSUME NEW r \in Requests, NEW k \in Keys, Send(r, k) PROVE KeyInv'
  <2> DEFINE entry == [Idle EXCEPT !.pc = "acquire", !.key = k]
  <2>1. /\ request' = [request EXCEPT ![r] = entry]
        /\ reply' = [reply EXCEPT ![r] = Short("none")]
        /\ UNCHANGED <<store, expired>>
    BY <1>1 DEF Send
  <2>2. entry.pc \notin {"handler", "complete"}
    BY DEF Idle
  <2>3. Short("none").kind \notin {"fresh", "replayed"}
    BY DEF Short
  <2> HIDE DEF entry
  <2>4. \A q \in Requests, j \in Keys :
            Holds(q, j)' => Holds(q, j) /\ request'[q] = request[q]
    BY <1>0, <2>1, <2>2, HoldsFrame
  <2>5. \A q \in Requests, j \in Keys :
            HasAnswer(q, j)' => HasAnswer(q, j) /\ reply'[q] = reply[q]
    BY <1>0, <2>1, <2>3, AnswerFrame
  <2> QED
    BY <2>1, <2>4, <2>5, QuietStep
<1>2. ASSUME NEW r \in Requests, Acquire(r) PROVE KeyInv'
  <2> DEFINE k == request[r].key
             entry == [request[r] EXCEPT !.pc = "handler", !.run = executed[k] + 1]
  <2>1. /\ k \in Keys
        /\ store[k] = Absent
        /\ store' = [store EXCEPT ![k] = InProgress]
        /\ request' = [request EXCEPT ![r] = entry]
        /\ UNCHANGED <<reply, expired>>
    BY <1>0, <1>2 DEF Acquire, CallNext, Keyed
  <2>2. entry.pc = "handler" /\ entry.key = k /\ request[r].pc = "acquire"
    BY <1>0, <1>2 DEF TypeOK, Progress, Acquire
  <2> HIDE DEF k, entry
  <2>3. \A q \in Requests, j \in Keys : HasAnswer(q, j)' <=> HasAnswer(q, j)
    BY <2>1 DEF HasAnswer, Answered
  <2>4. ASSUME NEW j \in Keys, expired[j] = 0 PROVE SoleHolder(j)' /\ AnswersAgree(j)'
    <3>1. SoleHolder(j) /\ AnswersAgree(j)
      BY <2>4 DEF KeyInv
    <3>2. CASE j # k
      <4>1. /\ store'[j] = store[j]
            /\ \A q \in Requests : Holds(q, j)' => Holds(q, j) /\ request'[q] = request[q]
        BY <1>0, <2>1, <2>2, <3>2, HoldsFrame DEF TypeOK
      <4> QED
        BY <2>1, <2>3, <3>1, <4>1 DEF SoleHolder, AnswersAgree
    <3>3. CASE j = k
      <4>1. \A q \in Requests : ~ HasAnswer(q, j)'
        BY <2>1, <2>3, <3>1, <3>3 DEF AnswersAgree
      <4>2. \A q \in Requests : ~ Holds(q, j)
        BY <2>1, <3>1, <3>3, EntriesDiffer DEF SoleHolder
      <4>3. \A q \in Requests : Holds(q, j)' => q = r
        BY <1>0, <2>1, <4>2, HoldsFrame
      <4>4. store'[j] = InProgress
        BY <1>0, <2>1, <3>3 DEF TypeOK
      <4>5. InProgress # Absent
        BY EntriesDiffer
      <4> QED
        BY <4>1, <4>3, <4>4, <4>5 DEF SoleHolder, AnswersAgree
    <3> QED
      BY <3>2, <3>3
  <2> QED
    BY <2>1, <2>4 DEF KeyInv
<1>3. ASSUME NEW r \in Requests, NotAcquired(r) PROVE KeyInv'
  <2> DEFINE entry == [request[r] EXCEPT !.pc = "state"]
  <2>1. /\ request' = [request EXCEPT ![r] = entry]
        /\ UNCHANGED <<store, reply, expired>>
    BY <1>3 DEF NotAcquired, Goto
  <2>2. entry.pc \notin {"handler", "complete"}
    BY <1>0 DEF TypeOK, Progress
  <2> HIDE DEF entry
  <2> QED
    BY <1>0, <2>1, <2>2, MoveStep
<1>4. ASSUME NEW r \in Requests, AcquireFails(r) PROVE KeyInv'
  <2> DEFINE k == request[r].key
  <2>1. Finish(r, Short("internal")) /\ expired' = expired
    BY <1>4 DEF AcquireFails
  <2>2. Short("internal").kind \notin {"fresh", "replayed"}
    BY DEF Short
  <2>3. CASE store' = store
    BY <1>0, <2>1, <2>2, <2>3, FinishStep
  <2>4. CASE store[k] = Absent /\ store' = [store EXCEPT ![k] = InProgress]
    <3> HIDE DEF k
    <3>1. \A q \in Requests, j \in Keys :
              Holds(q, j)' => Holds(q, j) /\ request'[q] = request[q]
      <4>1. Idle.pc \notin {"handler", "complete"}
        BY DEF Idle
      <4> QED
        BY <1>0, <2>1, <4>1, HoldsFrame DEF Finish
    <3>2. \A q \in Requests, j \in Keys :
              HasAnswer(q, j)' => HasAnswer(q, j) /\ reply'[q] = reply[q]
      BY <1>0, <2>1, <2>2, AnswerFrame DEF Finish
    <3>3. ASSUME NEW j \in Keys, expired[j] = 0
          PROVE SoleHolder(j)' /\ AnswersAgree(j)'
      <4>1. SoleHolder(j) /\ AnswersAgree(j)
        BY <3>3 DEF KeyInv
      <4>2. CASE j # k
        <5>1. store'[j] = store[j]
          BY <1>0, <2>4, <4>2 DEF TypeOK
        <5> QED
          BY <3>1, <3>2, <4>1, <5>1 DEF SoleHolder, AnswersAgree
      <4>3. CASE j = k
        <5>1. store'[j] = InProgress
          BY <1>0, <2>4, <4>3 DEF TypeOK
        <5>2. \A q \in Requests : ~ HasAnswer(q, j)'
          BY <2>4, <3>2, <4>1, <4>3 DEF AnswersAgree
        <5>3. \A q \in Requests : ~ Holds(q, j)'
          BY <2>4, <3>1, <4>1, <4>3, EntriesDiffer DEF SoleHolder
        <5> QED
          BY <5>1, <5>2, <5>3 DEF SoleHolder, AnswersAgree
      <4> QED
        BY <4>2, <4>3
    <3> QED
      BY <2>1, <3>3 DEF KeyInv
  <2> QED
    BY <1>4, <2>3, <2>4 DEF AcquireFails
<1>5. ASSUME NEW r \in Requests, State(r) PROVE KeyInv'
  <2> DEFINE k == request[r].key
             answer == CASE store[k].status = "IN_PROGRESS" -> Short("conflict")
                         [] store[k].status = "COMPLETED" -> Replayed(k, store[k].resp)
                         [] OTHER -> Short("internal")
  <2>1. Finish(r, answer) /\ UNCHANGED <<store, expired>>
    BY <1>5 DEF State
  <2>2. answer.kind \in {"fresh", "replayed"} =>
            /\ answer.key = k
            /\ store[k].status = "COMPLETED"
            /\ answer.resp = store[k].resp
    BY DEF Short, Replayed
  <2> HIDE DEF answer
  <2> QED
    BY <1>0, <2>1, <2>2, FinishStep
<1>6. ASSUME NEW r \in Requests, StateFails(r) \/ HandlerFails(r) PROVE KeyInv'
  <2>1. Finish(r, Short("internal")) /\ UNCHANGED <<store, expired>>
    BY <1>6 DEF StateFails, HandlerFails
  <2>2. Short("internal").kind \notin {"fresh", "replayed"}
    BY DEF Short
  <2> QED
    BY <1>0, <2>1, <2>2, FinishStep
<1>7. ASSUME NEW r \in Requests, Handle(r) PROVE KeyInv'
  <2>1. PICK outcome \in Outcomes :
          LET resp == [outcome |-> outcome, run |-> request[r].run]
          IN /\ reply' = [reply EXCEPT ![r] = Fresh(request[r].key, resp)]
             /\ request' = [request EXCEPT ![r].pc = "complete", ![r].resp = resp]
    BY <1>7 DEF Handle
  <2> DEFINE k == request[r].key
             resp == [outcome |-> outcome, run |-> request[r].run]
             entry == [request[r] EXCEPT !.pc = "complete", !.resp = resp]
             answer == Fresh(k, resp)
  <2>2. /\ reply' = [reply EXCEPT ![r] = answer]
        /\ request' = [request EXCEPT ![r] = entry]
        /\ UNCHANGED <<store, expired>>
    BY <1>7, <2>1 DEF Handle
  <2>3. k \in Keys /\ Holds(r, k)
    BY <1>0, <1>7 DEF Handle, Keyed, Holds
  <2> HIDE DEF k, resp
  <2>4. entry.pc = "complete" /\ entry.key = k /\ entry.resp = resp
    BY <1>0 DEF TypeOK, Progress, k
  <2>5. answer.kind = "fresh" /\ answer.key = k /\ answer.resp = resp
    BY DEF Fresh
  <2> HIDE DEF entry, answer
  <2>6. /\ request'[r] = entry
        /\ \A q \in Requests \ {r}, j \in Keys :
              request'[q] = request[q] /\ (Holds(q, j)' <=> Holds(q, j))
        /\ \A j \in Keys : Holds(r, j)' <=> j = k
    BY <1>0, <2>2, <2>4, HoldsFrame
  <2>7. /\ reply'[r] = answer
        /\ \A q \in Requests \ {r}, j \in Keys :
              reply'[q] = reply[q] /\ (HasAnswer(q, j)' <=> HasAnswer(q, j))
        /\ \A j \in Keys : HasAnswer(r, j)' <=>
              answer.kind \in {"fresh", "replayed"} /\ answer.key = j
    BY <1>0, <2>2, AnswerFrame
  <2>8. ASSUME NEW j \in Keys, expired[j] = 0 PROVE SoleHolder(j)' /\ AnswersAgree(j)'
    <3>1. SoleHolder(j) /\ AnswersAgree(j)
      BY <2>8 DEF KeyInv
    <3>2. CASE j # k
      <4>1. ~ HasAnswer(r, j)'
        BY <2>5, <2>7, <3>2
      <4> QED
        BY <2>2, <2>6, <2>7, <3>1, <3>2, <4>1 DEF SoleHolder, AnswersAgree
    <3>3. CASE j = k
      <4>1. /\ store'[j] = InProgress
            /\ \A q \in Requests : Holds(q, j) => q = r
        BY <2>2, <2>3, <3>1, <3>3 DEF SoleHolder
      <4>2. \A q \in Requests : HasAnswer(q, j)' => q = r
        <5>1. \A q \in Requests : HasAnswer(q, j) => request[r].pc = "complete"
          BY <2>3, <3>1, <3>3 DEF AnswersAgree
        <5>2. request[r].pc # "complete"
          BY <1>7 DEF Handle
        <5> QED
          BY <2>7, <5>1, <5>2
      <4>3. \A q \in Requests : Holds(q, j)' => q = r
        BY <2>6, <4>1
      <4>4. InProgress.status # "COMPLETED" /\ InProgress # Absent
        BY EntriesDiffer DEF InProgress
      <4> QED
        BY <2>4, <2>5, <2>6, <2>7, <4>1, <4>2, <4>3, <4>4 DEF SoleHolder, AnswersAgree
    <3> QED
      BY <3>2, <3>3
  <2> QED
    BY <2>2, <2>8 DEF KeyInv
<1>8. ASSUME NEW r \in Requests, Complete(r) PROVE KeyInv'
  <2> DEFINE k == request[r].key
             entry == Completed(request[r].resp)
  <2>1. /\ k \in Keys /\ Holds(r, k)
        /\ request' = [request EXCEPT ![r] = Idle]
        /\ store' = [store EXCEPT ![k] = entry]
        /\ UNCHANGED <<reply, expired>>
    BY <1>0, <1>8 DEF Complete, Keyed, Holds
  <2>2. /\ entry # Absent
        /\ entry.resp = request[r].resp
    BY entry.status # Absent.status DEF Completed, Absent
  <2> HIDE DEF k, entry
  <2>3. \A q \in Requests, j \in Keys :
            Holds(q, j)' => q # r /\ Holds(q, j) /\ request'[q] = request[q]
    <3>1. Idle.pc \notin {"handler", "complete"}
      BY DEF Idle
    <3> QED
      BY <1>0, <2>1, <3>1, HoldsFrame
  <2>4. \A q \in Requests, j \in Keys : HasAnswer(q, j)' <=> HasAnswer(q, j)
    BY <2>1 DEF HasAnswer, Answered
  <2>5. ASSUME NEW j \in Keys, expired[j] = 0 PROVE SoleHolder(j)' /\ AnswersAgree(j)'
    <3>1. SoleHolder(j) /\ AnswersAgree(j)
      BY <2>5 DEF KeyInv
    <3>2. CASE j # k
      <4>1. store'[j] = store[j]
        BY <1>0, <2>1, <3>2 DEF TypeOK
      <4> QED
        BY <2>1, <2>3, <2>4, <3>1, <4>1 DEF SoleHolder, AnswersAgree
    <3>3. CASE j = k
      <4>1. store'[j] = entry
        BY <1>0, <2>1, <3>3 DEF TypeOK
      <4>2. \A q \in Requests : ~ Holds(q, j)'
        BY <2>1, <2>3, <3>1, <3>3 DEF SoleHolder
      <4>3. \A q \in Requests : HasAnswer(q, j)' => reply'[q].resp = entry.resp
        BY <2>1, <2>2, <2>4, <3>1, <3>3 DEF AnswersAgree
      <4> QED
        BY <2>2, <4>1, <4>2, <4>3 DEF SoleHolder, AnswersAgree
    <3> QED
      BY <3>2, <3>3
  <2> QED
    BY <2>1, <2>5 DEF KeyInv
<1>9. ASSUME NEW r \in Requests, CompleteFails(r) PROVE KeyInv'
  <2>1. Idle.pc \notin {"handler", "complete"}
    BY DEF Idle
  <2> QED
    BY <1>0, <1>9, <2>1, MoveStep DEF CompleteFails
<1>10. ASSUME NEW r \in Requests, Crash(r) PROVE KeyInv'
  <2>1. CASE reply' = reply
    <3>1. Idle.pc \notin {"handler", "complete"}
      BY DEF Idle
    <3> QED
      BY <1>0, <1>10, <2>1, <3>1, MoveStep DEF Crash
  <2>2. CASE reply' = [reply EXCEPT ![r] = Short("lost")]
    <3>1. Short("lost").kind \notin {"fresh", "replayed"}
      BY DEF Short
    <3> QED
      BY <1>0, <1>10, <2>2, <3>1, FinishStep DEF Crash, Finish
  <2> QED
    BY <1>10, <2>1, <2>2 DEF Crash
<1>11. ASSUME NEW k \in Keys, Expire(k) PROVE KeyInv'
  <2>1. /\ store' = [store EXCEPT ![k] = Absent]
        /\ expired' = [expired EXCEPT ![k] = @ + 1]
        /\ UNCHANGED <<request, reply>>
    BY <1>11 DEF Expire
  <2>2. expired'[k] # 0
    BY <1>0, <2>1 DEF TypeOK
  <2>3. \A j \in Keys \ {k} : store'[j] = store[j] /\ expired'[j] = expired[j]
    BY <1>0, <2>1 DEF TypeOK
  <2>4. \A q \in Requests, j \in Keys :
            /\ Holds(q, j)' <=> Holds(q, j)
            /\ HasAnswer(q, j)' <=> HasAnswer(q, j)
    BY <2>1 DEF Holds, HasAnswer, Answered
  <2>5. ASSUME NEW j \in Keys, expired'[j] = 0 PROVE SoleHolder(j)' /\ AnswersAgree(j)'
    <3>1. j # k
      BY <2>2, <2>5
    <3>2. SoleHolder(j) /\ AnswersAgree(j)
      BY <2>3, <2>5, <3>1 DEF KeyInv
    <3> QED
      BY <2>1, <2>3, <2>4, <3>1, <3>2 DEF SoleHolder, AnswersAgree
  <2> QED
    BY <2>5 DEF KeyInv
<1>12. CASE UNCHANGED vars
  BY <1>12 DEF vars, KeyInv, SoleHolder, AnswersAgree, Holds, HasAnswer, Answered
<1> QED
  BY <1>1, <1>2, <1>3, <1>4, <1>5, <1>6, <1>7, <1>8, <1>9, <1>10, <1>11, <1>12
  DEF Next, ServerStep

LEMMA KeyAlways == Spec => [](TypeInv /\ KeyInv)
  BY InitType, TypeStep, InitKey, KeyStep, PTL DEF Spec

\* Until the store first drops a key, all clients that hold an answer for it
\* hold the same one, however many retried and whatever failed.
THEOREM OneAnswer == Spec => []OneAnswerPerKey
<1>1. TypeInv /\ KeyInv => OneAnswerPerKey
  <2> SUFFICES ASSUME TypeInv, KeyInv, NEW r \in Requests, NEW q \in Requests,
                      Answered(r), Answered(q), reply[r].key = reply[q].key,
                      expired[reply[r].key] = 0
               PROVE  reply[r].resp = reply[q].resp
    BY DEF OneAnswerPerKey
  <2>1. reply[r].key \in Keys
    BY DEF TypeInv, TypeOK, Reply, Answered
  <2> QED
    BY <2>1 DEF KeyInv, AnswersAgree, HasAnswer
<1> QED
  BY <1>1, KeyAlways, PTL

\* A completed key is only ever removed: the unconditional SET of Complete
\* finds a key completed only after the store has dropped it once.
LEMMA CompletedStep ==
    TypeInv /\ KeyInv /\ [Next]_vars =>
        \A k \in Keys : store[k].status = "COMPLETED" /\ expired'[k] = 0
            => store'[k] = store[k]
<1> SUFFICES ASSUME TypeInv, KeyInv, [Next]_vars, NEW k \in Keys,
                    store[k].status = "COMPLETED", expired'[k] = 0
             PROVE  store'[k] = store[k]
  OBVIOUS
<1> USE DEF TypeInv, TypeOK
<1>0. store[k] # Absent /\ store[k] # InProgress
  BY Absent.status # "COMPLETED", InProgress.status # "COMPLETED"
  DEF Absent, InProgress
<1>1. CASE store' = store
  BY <1>1
<1>2. ASSUME NEW r \in Requests, Acquire(r) PROVE store'[k] = store[k]
  BY <1>0, <1>2 DEF Acquire, CallNext
<1>3. ASSUME NEW r \in Requests, AcquireFails(r) PROVE store'[k] = store[k]
  BY <1>0, <1>3 DEF AcquireFails
<1>4. ASSUME NEW r \in Requests, Complete(r) PROVE store'[k] = store[k]
  <2>1. expired[k] = 0
    BY <1>4 DEF Complete
  <2>2. SoleHolder(k)
    BY <2>1 DEF KeyInv
  <2>3. request[r].key # k
    BY <1>0, <1>4, <2>2 DEF Complete, SoleHolder, Holds
  <2> QED
    BY <1>4, <2>3 DEF Complete
<1>5. ASSUME NEW j \in Keys, Expire(j) PROVE store'[k] = store[k]
  <2>1. j # k
    BY <1>5 DEF Expire
  <2> QED
    BY <1>5, <2>1 DEF Expire
<1> QED
  BY <1>1, <1>2, <1>3, <1>4, <1>5
  DEF Next, ServerStep, vars, Send, NotAcquired, State, StateFails, Handle,
      HandlerFails, CompleteFails, Crash

\* A completed key is only ever removed: the unconditional SET of Complete
\* finds a key completed only after the store has dropped it once.
THEOREM CompletedIsFinal == Spec => CompletedStays
<1>1. TypeInv /\ KeyInv /\ [Next]_vars =>
        [\A k \in Keys : store[k].status = "COMPLETED" /\ expired'[k] = 0
            => store'[k] = store[k]]_vars
  BY CompletedStep
<1> QED
  BY <1>1, KeyAlways, PTL DEF Spec, CompletedStays

\* The store, the requests and their replies have their types in every
\* reachable state; in particular every answer names its key.
THEOREM IdempotencyTypeCorrect == Spec => []TypeOK
<1>1. TypeInv => TypeOK
  BY DEF TypeInv
<1> QED
  BY <1>1, TypeAlways, PTL
=============================================================================
