----------------------------- MODULE AIReplyProofs -----------------------------
(***************************************************************************)
(* CallsInv is an invariant of AIReply for any requests, conversations and *)
(* limits: provider calls are paid for by admissions.  WindowInv is one    *)
(* too: the admissions of a limiter never overrun its window, and nobody   *)
(* is refused who has not used it up.                                      *)
(***************************************************************************)
EXTENDS AIReply, SequenceLemmas, FiniteSetTheorems, TLAPS

LEMMA CurTyped ==
  ASSUME CallsInv, NEW r \in Request, step[r] # "next"
  PROVE  Cur(r) \in Conversation
<1>1. /\ MessagesOf[r] \in Seq(Conversation) /\ pos[r] \in Nat /\ pos[r] < Len(MessagesOf[r])
  BY AIAssumption DEF CallsInv, AIAssumption
<1>2. pos[r] + 1 \in 1..Len(MessagesOf[r])
  BY <1>1
<1>. QED  BY <1>1, <1>2 DEF Cur

LEMMA WorthOfOneMore ==
  ASSUME NEW n \in Nat
  PROVE  Worth(n) \in Nat /\ Worth(n + 1) = Worth(n) + MaxRetries + 1 /\ Worth(0) = 0
<1>1. \A m \in Nat : m * n \in Nat /\ m * (n + 1) = m * n + m /\ m * 0 = 0
  OBVIOUS
<1>2. MaxRetries + 1 \in Nat /\ MaxRetries \in Nat
  BY AIAssumption DEF AIAssumption
<1>3. (MaxRetries + 1) * n \in Nat /\ (MaxRetries + 1) * 0 = 0
  BY <1>1, <1>2
<1>4. (MaxRetries + 1) * (n + 1) = (MaxRetries + 1) * n + (MaxRetries + 1)
  BY <1>1, <1>2
<1>. QED  BY <1>2, <1>3, <1>4 DEF Worth

\* What is left is never less than nothing, and a call takes one of it.
LEMMA LeftBounded ==
  ASSUME CallsInv, NEW r \in Request, NEW c \in Conversation
  PROVE  /\ Left(r, c) \in Nat
         /\ step[r] = "call" /\ c = Cur(r) => Left(r, c) = MaxRetries + 1 - attempt[r] /\ Left(r, c) > 0
         /\ ~Pending(r) \/ c # Cur(r) => Left(r, c) = 0
BY AIAssumption DEF CallsInv, Left, Pending, AIAssumption

LEMMA InitCalls == Init => CallsInv
<1>. SUFFICES ASSUME Init PROVE CallsInv
  OBVIOUS
<1>1. /\ now = 0 /\ pos = [r \in Request |-> 0] /\ step = [r \in Request |-> "next"]
      /\ attempt = [r \in Request |-> 0]
      /\ admitted = [r \in Request |-> [c \in Conversation |-> <<>>]]
      /\ calls = [r \in Request |-> [c \in Conversation |-> 0]]
  BY DEF Init
<1>2. MaxRetries \in Nat
  BY AIAssumption DEF AIAssumption
<1>3. ASSUME NEW r \in Request, NEW c \in Conversation
      PROVE  calls[r][c] + Left(r, c) <= Worth(Len(admitted[r][c]))
  <2>1. Left(r, c) = 0
    BY <1>1 DEF Left, Pending
  <2>2. calls[r][c] = 0 /\ Len(admitted[r][c]) = 0
    BY <1>1
  <2>. QED  BY <1>2, <2>1, <2>2, WorthOfOneMore
<1>4. admitted \in [Request -> [Conversation -> Seq(Nat)]]
  BY <1>1
<1>. QED  BY <1>1, <1>2, <1>3, <1>4 DEF CallsInv

\* A request that goes on without a call, an admission or an answer.
LEMMA StepCalls == CallsInv /\ [Next]_vars => CallsInv'
<1>. SUFFICES ASSUME CallsInv, [Next]_vars PROVE CallsInv'
  OBVIOUS
<1>0. MaxRetries \in Nat
  BY AIAssumption DEF AIAssumption
\* A step of request r that ends in a well-formed state keeps the balance if
\* it keeps that of r.
<1>1. ASSUME NEW r \in Request, now' = now,
             admitted' \in [Request -> [Conversation -> Seq(Nat)]],
             calls' \in [Request -> [Conversation -> Nat]],
             NEW s \in {"next", "limits", "context", "call", "wait"},
             NEW p \in Nat, NEW a \in 0..MaxRetries,
             step' = [step EXCEPT ![r] = s], pos' = [pos EXCEPT ![r] = p],
             attempt' = [attempt EXCEPT ![r] = a],
             \A q \in Request \ {r} : admitted'[q] = admitted[q] /\ calls'[q] = calls[q],
             s # "next" => p < Len(MessagesOf[r]),
             s \in {"next", "limits", "context"} => a = 0,
             s = "wait" => a < MaxRetries,
             \A c \in Conversation :
               calls'[r][c] + Left(r, c)' <= Worth(Len(admitted'[r][c]))
      PROVE  CallsInv'
  <2>1. /\ step' \in [Request -> {"next", "limits", "context", "call", "wait"}]
        /\ pos' \in [Request -> Nat] /\ attempt' \in [Request -> 0..MaxRetries] /\ now' \in Nat
    BY <1>1 DEF CallsInv
  <2>2. /\ step'[r] = s /\ pos'[r] = p /\ attempt'[r] = a
        /\ \A q \in Request \ {r} : step'[q] = step[q] /\ pos'[q] = pos[q] /\ attempt'[q] = attempt[q]
    BY <1>1 DEF CallsInv
  <2>3. ASSUME NEW q \in Request, q # r
        PROVE  /\ step'[q] # "next" => pos'[q] < Len(MessagesOf[q])
               /\ step'[q] \in {"next", "limits", "context"} => attempt'[q] = 0
               /\ step'[q] = "wait" => attempt'[q] < MaxRetries
               /\ \A c \in Conversation :
                    calls'[q][c] + Left(q, c)' <= Worth(Len(admitted'[q][c]))
    <3>1. /\ step'[q] = step[q] /\ pos'[q] = pos[q] /\ attempt'[q] = attempt[q]
          /\ admitted'[q] = admitted[q] /\ calls'[q] = calls[q]
      BY <1>1, <2>2, <2>3
    <3>2. \A c \in Conversation : Left(q, c)' = Left(q, c)
      BY <3>1 DEF Left, Pending, Cur
    <3>. QED  BY <3>1, <3>2 DEF CallsInv
  <2>4. ASSUME NEW q \in Request
        PROVE  /\ step'[q] # "next" => pos'[q] < Len(MessagesOf[q])
               /\ step'[q] \in {"next", "limits", "context"} => attempt'[q] = 0
               /\ step'[q] = "wait" => attempt'[q] < MaxRetries
               /\ \A c \in Conversation :
                    calls'[q][c] + Left(q, c)' <= Worth(Len(admitted'[q][c]))
    <3>1. CASE q = r
      BY <1>1, <2>2, <3>1
    <3>2. CASE q # r
      BY <2>3, <3>2
    <3>. QED  BY <3>1, <3>2
  <2>. QED  BY <1>1, <2>1, <2>4 DEF CallsInv
<1>2. ASSUME NEW r \in Request,
             UNCHANGED <<now, admitted, calls>>,
             NEW s \in {"next", "limits", "context", "call", "wait"},
             NEW p \in Nat, NEW a \in 0..MaxRetries,
             step' = [step EXCEPT ![r] = s], pos' = [pos EXCEPT ![r] = p],
             attempt' = [attempt EXCEPT ![r] = a],
             s # "next" => p < Len(MessagesOf[r]),
             s \in {"next", "limits", "context"} => a = 0,
             s = "wait" => a < MaxRetries,
             \A c \in Conversation : Left(r, c)' <= Left(r, c)
      PROVE  CallsInv'
  <2>1. ASSUME NEW c \in Conversation
        PROVE  calls'[r][c] + Left(r, c)' <= Worth(Len(admitted'[r][c]))
    <3>1. /\ calls[r][c] + Left(r, c) <= Worth(Len(admitted[r][c]))
          /\ calls[r][c] \in Nat /\ Worth(Len(admitted[r][c])) \in Nat
      <4>1. Len(admitted[r][c]) \in Nat
        BY DEF CallsInv
      <4>. QED  BY <1>0, <4>1, WorthOfOneMore DEF CallsInv
    <3>2. Left(r, c) \in Int /\ Left(r, c)' \in Int
      BY <1>0, <1>2 DEF Left, CallsInv
    <3>. QED  BY <1>2, <3>1, <3>2
  <2>. QED  BY <1>1, <1>2, <2>1 DEF CallsInv
<1>3. ASSUME NEW r \in Request, NextMessage(r) PROVE CallsInv'
  <2>1. \A c \in Conversation : Left(r, c)' = 0
    BY <1>3 DEF NextMessage, Goto, Left, Pending, CallsInv
  <2>2. /\ attempt[r] = 0 /\ pos[r] \in Nat /\ pos[r] < Len(MessagesOf[r])
        /\ pos' = [pos EXCEPT ![r] = pos[r]] /\ attempt' = [attempt EXCEPT ![r] = 0]
        /\ step' = [step EXCEPT ![r] = "limits"] /\ UNCHANGED <<now, admitted, calls>>
    BY <1>3 DEF NextMessage, Goto, CallsInv
  <2>3. \A c \in Conversation : Left(r, c)' <= Left(r, c)
    BY <2>1, LeftBounded
  <2>4. 0 \in 0..MaxRetries
    BY <1>0
  <2>. QED  BY <1>2, <2>2, <2>3, <2>4
\* The message is answered without a call.
<1>4. ASSUME NEW r \in Request, NEW words, step[r] # "next", Answer(r, words), UNCHANGED <<now, admitted, calls>>
      PROVE  CallsInv'
  <2>1. \A c \in Conversation : Left(r, c)' = 0
    BY <1>4 DEF Answer, Goto, Left, Pending, CallsInv
  <2>2. /\ pos[r] + 1 \in Nat
        /\ pos' = [pos EXCEPT ![r] = pos[r] + 1] /\ attempt' = [attempt EXCEPT ![r] = 0]
        /\ step' = [step EXCEPT ![r] = "next"]
    BY <1>4 DEF Answer, Goto, CallsInv
  <2>3. \A c \in Conversation : Left(r, c)' <= Left(r, c)
    BY <2>1, LeftBounded
  <2>4. 0 \in 0..MaxRetries
    BY <1>0
  <2>. QED  BY <1>2, <1>4, <2>2, <2>3, <2>4
<1>5. ASSUME NEW r \in Request, Admit(r) PROVE CallsInv'
  <2>1. /\ step[r] = "limits" /\ Cur(r) \in Conversation /\ attempt[r] = 0 /\ now \in Nat
        /\ admitted' = [admitted EXCEPT ![r][Cur(r)] = Append(admitted[r][Cur(r)], now)]
        /\ step' = [step EXCEPT ![r] = "context"]
        /\ UNCHANGED <<now, calls, pos, attempt>>
    BY <1>5, CurTyped DEF Admit, Goto, CallsInv
  <2>2. /\ admitted' \in [Request -> [Conversation -> Seq(Nat)]]
        /\ Len(admitted'[r][Cur(r)]) = Len(admitted[r][Cur(r)]) + 1
        /\ \A c \in Conversation \ {Cur(r)} : admitted'[r][c] = admitted[r][c]
        /\ \A q \in Request \ {r} : admitted'[q] = admitted[q]
    BY <2>1 DEF CallsInv
  <2>3. ASSUME NEW c \in Conversation
        PROVE  calls'[r][c] + Left(r, c)' <= Worth(Len(admitted'[r][c]))
    <3>1. /\ calls[r][c] <= Worth(Len(admitted[r][c]))
          /\ calls[r][c] \in Nat /\ Len(admitted[r][c]) \in Nat
      <4>1. Left(r, c) = 0
        BY <2>1 DEF Left, Pending
      <4>2. /\ calls[r][c] + Left(r, c) <= Worth(Len(admitted[r][c]))
            /\ calls[r][c] \in Nat /\ Len(admitted[r][c]) \in Nat
        BY DEF CallsInv
      <4>. QED  BY <4>1, <4>2
    <3>2. Left(r, c)' = IF c = Cur(r) THEN MaxRetries + 1 ELSE 0
      BY <1>0, <2>1 DEF Left, Pending, Cur, CallsInv
    <3>3. CASE c = Cur(r)
      <4>1. Len(admitted'[r][c]) = Len(admitted[r][c]) + 1
        BY <2>2, <3>3
      <4>2. /\ Worth(Len(admitted[r][c]) + 1) = Worth(Len(admitted[r][c])) + MaxRetries + 1
            /\ Worth(Len(admitted[r][c])) \in Nat
        BY <3>1, WorthOfOneMore
      <4>. QED  BY <1>0, <2>1, <3>1, <3>2, <3>3, <4>1, <4>2
    <3>4. CASE c # Cur(r)
      BY <2>1, <2>2, <3>1, <3>2, <3>4
    <3>. QED  BY <3>3, <3>4
  <2>4. /\ pos' = [pos EXCEPT ![r] = pos[r]] /\ attempt' = [attempt EXCEPT ![r] = 0]
        /\ pos[r] \in Nat /\ pos[r] < Len(MessagesOf[r])
        /\ calls' \in [Request -> [Conversation -> Nat]]
    BY <2>1 DEF CallsInv
  <2>5. 0 \in 0..MaxRetries
    BY <1>0
  <2>6. \A q \in Request \ {r} : admitted'[q] = admitted[q] /\ calls'[q] = calls[q]
    BY <2>1, <2>2
  <2>. QED  BY <1>1, <2>1, <2>2, <2>3, <2>4, <2>5, <2>6
<1>6. ASSUME NEW r \in Request, BuildContext(r) PROVE CallsInv'
  <2>1. step[r] = "context" /\ UNCHANGED <<now, admitted, calls>>
    BY <1>6 DEF BuildContext
  <2>2. CASE Answer(r, "DEFAULT")
    BY <1>4, <2>1, <2>2
  <2>3. CASE Goto(r, "call") /\ UNCHANGED <<pos, reply, attempt>>
    <3>1. \A c \in Conversation : Left(r, c)' = Left(r, c)
      BY <2>1, <2>3 DEF Goto, Left, Pending, Cur, CallsInv
    <3>2. /\ pos' = [pos EXCEPT ![r] = pos[r]] /\ attempt' = [attempt EXCEPT ![r] = 0]
          /\ pos[r] \in Nat /\ pos[r] < Len(MessagesOf[r]) /\ step' = [step EXCEPT ![r] = "call"]
      BY <2>1, <2>3 DEF Goto, CallsInv
    <3>3. \A c \in Conversation : Left(r, c)' <= Left(r, c)
      <4>1. \A c \in Conversation : Left(r, c) \in Nat
        BY LeftBounded
      <4>. QED  BY <3>1, <4>1
    <3>4. 0 \in 0..MaxRetries
      BY <1>0
    <3>. QED  BY <1>2, <2>1, <3>2, <3>3, <3>4
  <2>. QED  BY <1>6, <2>2, <2>3 DEF BuildContext
<1>7. ASSUME NEW r \in Request, NEW outcome, Generate(r, outcome) PROVE CallsInv'
  <2>1. /\ step[r] = "call" /\ Cur(r) \in Conversation
        /\ calls' = [calls EXCEPT ![r][Cur(r)] = calls[r][Cur(r)] + 1]
        /\ UNCHANGED <<now, admitted>>
    BY <1>7, CurTyped DEF Generate, CallsInv
  <2>2. /\ calls' \in [Request -> [Conversation -> Nat]]
        /\ calls'[r][Cur(r)] = calls[r][Cur(r)] + 1
        /\ \A c \in Conversation \ {Cur(r)} : calls'[r][c] = calls[r][c]
        /\ \A q \in Request \ {r} : calls'[q] = calls[q]
    BY <2>1 DEF CallsInv
  \* The call is one of those that were left.
  <2>3. ASSUME NEW c \in Conversation,
               c = Cur(r) => Left(r, c)' \in Nat /\ Left(r, c)' <= MaxRetries - attempt[r],
               c # Cur(r) => Left(r, c)' = 0
        PROVE  calls'[r][c] + Left(r, c)' <= Worth(Len(admitted'[r][c]))
    <3>1. /\ calls[r][c] + Left(r, c) <= Worth(Len(admitted[r][c]))
          /\ calls[r][c] \in Nat /\ Len(admitted[r][c]) \in Nat /\ admitted' = admitted
          /\ attempt[r] \in 0..MaxRetries
      BY <2>1 DEF CallsInv
    <3>2. Worth(Len(admitted[r][c])) \in Nat
      BY <1>0, <3>1, WorthOfOneMore
    <3>3. CASE c = Cur(r)
      <4>1. Left(r, c) = MaxRetries + 1 - attempt[r]
        BY <2>1, <3>3, LeftBounded
      <4>2. /\ calls'[r][c] = calls[r][c] + 1
            /\ Left(r, c)' \in Nat /\ Left(r, c)' <= MaxRetries - attempt[r]
        BY <2>2, <2>3, <3>3
      <4> DEFINE worth == Worth(Len(admitted[r][c]))
      <4>3. /\ Worth(Len(admitted'[r][c])) = worth /\ worth \in Nat
            /\ calls[r][c] + Left(r, c) <= worth
        BY <3>1, <3>2
      <4> HIDE DEF worth
      <4>4. calls[r][c] \in Nat /\ attempt[r] \in Nat /\ MaxRetries \in Nat
        BY <1>0, <3>1
      <4>. QED  BY <4>1, <4>2, <4>3, <4>4
    <3>4. CASE c # Cur(r)
      <4>1. Left(r, c) = 0
        BY <3>4, LeftBounded
      <4>2. calls'[r][c] = calls[r][c] /\ Left(r, c)' = 0
        BY <2>2, <2>3, <3>4
      <4>. QED  BY <3>1, <4>1, <4>2
    <3>. QED  BY <3>3, <3>4
  <2>4. ASSUME NEW words, Answer(r, words) PROVE CallsInv'
    <3>1. /\ pos[r] + 1 \in Nat
          /\ pos' = [pos EXCEPT ![r] = pos[r] + 1] /\ attempt' = [attempt EXCEPT ![r] = 0]
          /\ step' = [step EXCEPT ![r] = "next"] /\ attempt[r] \in 0..MaxRetries
      BY <2>4 DEF Answer, Goto, CallsInv
    <3>2. \A c \in Conversation : Left(r, c)' = 0
      BY <2>4 DEF Answer, Goto, Left, Pending, CallsInv
    <3>3. \A c \in Conversation :
            calls'[r][c] + Left(r, c)' <= Worth(Len(admitted'[r][c]))
      BY <1>0, <2>3, <3>1, <3>2
    <3>4. admitted' \in [Request -> [Conversation -> Seq(Nat)]]
      BY <2>1 DEF CallsInv
    <3>5. 0 \in 0..MaxRetries
      BY <1>0
    <3>6. \A q \in Request \ {r} : admitted'[q] = admitted[q] /\ calls'[q] = calls[q]
      BY <2>1, <2>2
    <3>. QED  BY <1>1, <2>1, <2>2, <3>1, <3>3, <3>4, <3>5, <3>6
  <2>5. CASE ~LastAttempt(attempt[r]) /\ Goto(r, "wait") /\ UNCHANGED <<pos, reply, attempt>>
    <3>1. /\ pos[r] \in Nat /\ pos[r] < Len(MessagesOf[r]) /\ attempt[r] \in 0..MaxRetries
          /\ pos' = [pos EXCEPT ![r] = pos[r]] /\ attempt' = [attempt EXCEPT ![r] = attempt[r]]
          /\ step' = [step EXCEPT ![r] = "wait"] /\ attempt[r] < MaxRetries
          /\ step'[r] = "wait" /\ UNCHANGED <<pos, attempt>>
      BY <1>0, <2>1, <2>5 DEF LastAttempt, Goto, CallsInv
    <3>2. \A c \in Conversation : Left(r, c)' = IF c = Cur(r) THEN MaxRetries - attempt[r] ELSE 0
      BY <3>1 DEF Left, Pending, Cur
    <3>3. MaxRetries - attempt[r] \in Nat
      BY <1>0, <3>1
    <3>4. \A c \in Conversation :
            calls'[r][c] + Left(r, c)' <= Worth(Len(admitted'[r][c]))
      BY <2>3, <3>2, <3>3
    <3>5. admitted' \in [Request -> [Conversation -> Seq(Nat)]]
      BY <2>1 DEF CallsInv
    <3>6. \A q \in Request \ {r} : admitted'[q] = admitted[q] /\ calls'[q] = calls[q]
      BY <2>1, <2>2
    <3>. QED  BY <1>1, <2>1, <2>2, <3>1, <3>4, <3>5, <3>6
  <2>. QED  BY <1>7, <2>4, <2>5 DEF Generate
<1>8. ASSUME NEW r \in Request, Retry(r) PROVE CallsInv'
  <2>1. /\ step[r] = "wait" /\ attempt[r] \in 0..MaxRetries /\ attempt[r] < MaxRetries
        /\ attempt' = [attempt EXCEPT ![r] = attempt[r] + 1] /\ step' = [step EXCEPT ![r] = "call"]
        /\ pos[r] \in Nat /\ pos[r] < Len(MessagesOf[r]) /\ pos' = [pos EXCEPT ![r] = pos[r]]
        /\ UNCHANGED <<now, admitted, calls, pos>>
    BY <1>8 DEF Retry, Goto, CallsInv
  <2>2. \A c \in Conversation : Left(r, c)' <= Left(r, c)
    BY <1>0, <2>1 DEF Left, Pending, Cur, CallsInv
  <2>3. attempt[r] + 1 \in 0..MaxRetries
    BY <1>0, <2>1
  <2>. QED  BY <1>2, <2>1, <2>2, <2>3
<1>9. CASE Tick
  <2>1. UNCHANGED <<admitted, calls, pos, step, attempt>> /\ now' \in Nat
    BY <1>9 DEF Tick, CallsInv
  <2>. QED  BY <2>1 DEF CallsInv, Left, Pending, Cur
<1>10. CASE UNCHANGED vars
  BY <1>10 DEF vars, CallsInv, Left, Pending, Cur
<1>11. ASSUME NEW r \in Request, RefuseTooLong(r) \/ RefuseRateLimited(r) PROVE CallsInv'
  BY <1>4, <1>11 DEF RefuseTooLong, RefuseRateLimited
<1>. QED  BY <1>3, <1>5, <1>6, <1>7, <1>8, <1>9, <1>10, <1>11 DEF Next, AllAnswered

-----------------------------------------------------------------------------
\* Calls made and calls still to be made are paid for by admissions, in every
\* execution (generate_reply, _generate_with_retries).
THEOREM CallsInvariant == Spec => []CallsInv
<1>. QED  BY InitCalls, StepCalls, PTL DEF Spec

\* No conversation costs more than ai_max_retries + 1 provider calls for each
\* message its limiter admits, for any limits, requests and provider.
THEOREM CallsArePaidFor == Spec => []CallsPaidFor
<1>1. ASSUME CallsInv PROVE CallsPaidFor
  <2>1. SUFFICES ASSUME NEW r \in Request, NEW c \in Conversation
                 PROVE  calls[r][c] <= Worth(Len(admitted[r][c]))
    BY DEF CallsPaidFor
  <2>2. /\ calls[r][c] \in Nat /\ Left(r, c) \in Nat /\ MaxRetries \in Nat /\ Len(admitted[r][c]) \in Nat
        /\ calls[r][c] + Left(r, c) <= Worth(Len(admitted[r][c]))
    BY <1>1, LeftBounded, AIAssumption DEF CallsInv, AIAssumption
  <2>3. Worth(Len(admitted[r][c])) \in Nat
    BY <2>2, WorthOfOneMore
  <2>. QED  BY <2>2, <2>3
<1>. QED  BY <1>1, CallsInvariant, PTL

-----------------------------------------------------------------------------
(* The adapters and the retry loop.                                        *)

\* What an adapter takes for transient, of every answer: what may be cured, but
\* for a 429 of Ollama, which it takes for a refusal.
MistakenRefusal(a, answer) == a = "ollama" /\ answer.code = 429

LEMMA TransientIsCurable ==
  ASSUME NEW a \in Adapter, NEW answer \in HttpAnswer
  PROVE  /\ OutcomeOf(a, answer) \in Outcome
         /\ OutcomeOf(a, answer) \in Transient <=> Curable(a, answer) /\ ~MistakenRefusal(a, answer)
         /\ Unserved(a, answer) => Curable(a, answer) /\ ~MistakenRefusal(a, answer)
<1>. USE DEF Outcome, Transient, Curable, Unserved, MistakenRefusal
<1>1. /\ answer.lost \in Lost \cup {"no"}
      /\ answer.lost \in Lost => answer.code = 0 /\ answer.body = "notJson"
      /\ answer.lost = "no" => answer.code \in Code /\ answer.body \in Body
  BY DEF HttpAnswer, Http, Lost, Code, Body
<1>2. CASE a = "unkeyed"
  BY <1>2 DEF OutcomeOf
<1>3. CASE a # "unkeyed" /\ answer.lost \in Lost
  BY <1>1, <1>3 DEF OutcomeOf, Lost
<1>4. CASE a # "unkeyed" /\ answer.lost = "no" /\ answer.code = 200
  <2>1. OutcomeOf(a, answer) = Validated(Parsed(a, answer.body))
    BY <1>4 DEF OutcomeOf
  <2>2. Validated(Parsed(a, answer.body)) \in {"refusal", "unexpected", "text", "blank"}
    BY <1>1, <1>4 DEF Validated, Parsed, Body
  <2>. QED  BY <1>4, <2>1, <2>2
<1>5. CASE a = "openai" /\ answer.lost = "no" /\ answer.code # 200
  <2>1. OutcomeOf(a, answer) = OpenAIStatus(answer.code) /\ answer.code \in {401, 404, 429, 503}
    BY <1>1, <1>5 DEF OutcomeOf, Code
  <2>. QED  BY <1>5, <2>1 DEF OpenAIStatus, OllamaStatus
<1>6. CASE a = "ollama" /\ answer.lost = "no" /\ answer.code # 200
  <2>1. OutcomeOf(a, answer) = OllamaStatus(answer.code) /\ answer.code \in {401, 404, 429, 503}
    BY <1>1, <1>6 DEF OutcomeOf, Code
  <2>. QED  BY <1>6, <2>1 DEF OllamaStatus
<1>. QED  BY <1>1, <1>2, <1>3, <1>4, <1>5, <1>6 DEF Adapter

\* A call is followed by a wait exactly when its outcome is transient and an
\* attempt is left.
LEMMA WaitIffTransient ==
  ASSUME CallsInv, NEW r \in Request, NEW outcome \in Outcome, Generate(r, outcome)
  PROVE  step'[r] = "wait" <=> outcome \in Transient /\ attempt[r] < MaxRetries
<1>1. step \in [Request -> {"next", "limits", "context", "call", "wait"}]
      /\ MaxRetries \in Nat /\ attempt[r] \in 0..MaxRetries
  BY AIAssumption DEF CallsInv, AIAssumption
<1>2. ASSUME NEW words, Answer(r, words) PROVE step'[r] = "next"
  BY <1>1, <1>2 DEF Answer, Goto
<1>3. CASE outcome \in Transient /\ ~LastAttempt(attempt[r])
  <2>1. step'[r] = "wait"
    BY <1>1, <1>3 DEF Generate, Goto, Transient
  <2>. QED  BY <1>1, <1>3, <2>1 DEF LastAttempt
<1>4. CASE ~(outcome \in Transient /\ ~LastAttempt(attempt[r]))
  <2>1. step'[r] = "next"
    BY <1>2, <1>4 DEF Generate
  <2>. QED  BY <1>1, <1>4, <2>1 DEF LastAttempt
<1>. QED  BY <1>3, <1>4

AdapterOK == adapter \in Adapter

LEMMA AdapterStays == Spec => []AdapterOK
<1>1. Init => AdapterOK
  BY DEF Init, AdapterOK
<1>2. AdapterOK /\ [Next]_vars => AdapterOK'
  BY DEF AdapterOK, Next, vars, NextMessage, RefuseTooLong, Admit, RefuseRateLimited, BuildContext,
         Generate, Retry, Tick, AllAnswered
<1>. QED  BY <1>1, <1>2, PTL DEF Spec

\* No call is repeated in vain, and the provider's own trouble is waited out,
\* for every adapter, limits and requests: the classification of answers in the
\* adapters and the retry loop of the orchestrator fit each other.
THEOREM RetriesAreJustified == Spec => RetriesJustified
<1>1. Spec => [](CallsInv /\ AdapterOK)
  BY CallsInvariant, AdapterStays, PTL
<1>2. ASSUME CallsInv, AdapterOK, NEW r \in Request, NEW answer \in HttpAnswer, Concluded(r, answer)
      PROVE  /\ step'[r] = "wait" => Curable(adapter, answer) /\ attempt[r] < MaxRetries
             /\ Unserved(adapter, answer) /\ attempt[r] < MaxRetries => step'[r] = "wait"
  <2>1. OutcomeOf(adapter, answer) \in Outcome /\ Generate(r, OutcomeOf(adapter, answer))
    BY <1>2, TransientIsCurable DEF AdapterOK, Concluded
  <2>2. step'[r] = "wait" <=> OutcomeOf(adapter, answer) \in Transient /\ attempt[r] < MaxRetries
    BY <1>2, <2>1, WaitIffTransient
  <2>. QED  BY <1>2, <2>2, TransientIsCurable DEF AdapterOK
<1>3. CallsInv /\ AdapterOK /\ [Next]_vars =>
        [\A r \in Request, answer \in HttpAnswer :
           Concluded(r, answer) =>
             /\ step'[r] = "wait" => Curable(adapter, answer) /\ attempt[r] < MaxRetries
             /\ Unserved(adapter, answer) /\ attempt[r] < MaxRetries => step'[r] = "wait"]_vars
  BY <1>2
<1>. QED  BY <1>1, <1>3, PTL DEF Spec, RetriesJustified

\* What TLC refutes for Ollama holds for the other adapters: the provider is
\* asked again exactly while that may help, a 429 included (the 429 test of the
\* OpenAI adapter comes before that of the client errors).
THEOREM RetriesAreWorthwhile == Spec /\ adapter # "ollama" => RetriesWorthwhile
<1> DEFINE Other == adapter \in Adapter \ {"ollama"}
<1>1. Spec => []CallsInv
  BY CallsInvariant
<1>2. Init /\ adapter # "ollama" => Other
  BY DEF Init
<1>3. Other /\ [Next]_vars => Other'
  BY DEF Next, vars, NextMessage, RefuseTooLong, Admit, RefuseRateLimited, BuildContext,
         Generate, Retry, Tick, AllAnswered
<1>4. ASSUME CallsInv, Other, NEW r \in Request, NEW answer \in HttpAnswer, Concluded(r, answer)
      PROVE  step'[r] = "wait" <=> Curable(adapter, answer) /\ attempt[r] < MaxRetries
  <2>1. /\ OutcomeOf(adapter, answer) \in Outcome /\ Generate(r, OutcomeOf(adapter, answer))
        /\ OutcomeOf(adapter, answer) \in Transient <=> Curable(adapter, answer)
    BY <1>4, TransientIsCurable DEF Concluded, MistakenRefusal
  <2>. QED  BY <1>4, <2>1, WaitIffTransient
<1>5. CallsInv /\ Other /\ [Next]_vars =>
        [\A r \in Request, answer \in HttpAnswer :
           Concluded(r, answer) =>
             (step'[r] = "wait" <=> Curable(adapter, answer) /\ attempt[r] < MaxRetries)]_vars
  BY <1>4
<1> HIDE DEF Other
<1>. QED  BY <1>1, <1>2, <1>3, <1>5, PTL DEF Spec, RetriesWorthwhile
-----------------------------------------------------------------------------
(* The sliding window of one limiter.                                      *)

LEMMA LimitsAreNumbers == MaxRequests \in Nat /\ Window \in Nat /\ MaxRetries \in Nat /\ Horizon \in Nat
BY AIAssumption DEF AIAssumption

\* What the window still counts is the admissions after the cut-off.
LEMMA RecentTail ==
  ASSUME NEW a \in Seq(Nat), NEW s \in Seq(Nat), now \in Nat, Remembers(a, s)
  PROVE  \E k \in 0..Len(a) :
           /\ CutAt(a, now - Window, k)
           /\ Recent(s) = SubSeq(a, k + 1, Len(a))
           /\ Recent(s) \in Seq(Nat) /\ Len(Recent(s)) = Len(a) - k
<1> DEFINE d == Len(a) - Len(s)
<1>1. /\ Window \in Nat /\ d \in 0..Len(a) /\ s = SubSeq(a, d + 1, Len(a))
      /\ \A i \in 1..d : a[i] <= now - Window
      /\ Ascending(a)
  <2>1. Len(a) \in Nat /\ Len(s) \in Nat /\ d >= 0
    BY DEF Remembers
  <2>2. d \in 0..Len(a) /\ \A i \in 1..d : i \in 1..Len(a) /\ i <= d
    BY <2>1
  <2>3. s = SubSeq(a, d + 1, Len(a)) /\ \A i \in 1..Len(a) : i <= d => a[i] <= now - Window
    BY DEF Remembers
  <2>4. Ascending(a)
    BY DEF Remembers, Ascending
  <2>. QED  BY <2>2, <2>3, <2>4, LimitsAreNumbers
<1> HIDE DEF d
<1>2. now - Window \in Int
  BY <1>1
<1>3. PICK k \in d..Len(a) :
         /\ CutAt(a, now - Window, k)
         /\ Only(SubSeq(a, d + 1, Len(a)), { t \in Nat : t > now - Window }) = SubSeq(a, k + 1, Len(a))
  BY <1>1, <1>2, AscendingTail
<1>4. k \in 0..Len(a) /\ Recent(s) = SubSeq(a, k + 1, Len(a))
  BY <1>1, <1>3 DEF Recent
<1>5. SubSeq(a, k + 1, Len(a)) \in Seq(Nat) /\ Len(SubSeq(a, k + 1, Len(a))) = Len(a) - k
  BY <1>4
<1>. QED  BY <1>3, <1>4, <1>5

\* Remembers, when it is known how many admissions are forgotten.
LEMMA RemembersFrom ==
  ASSUME NEW a, NEW s, NEW d \in Nat, d = Len(a) - Len(s), s = SubSeq(a, d + 1, Len(a)),
         \A i \in 1..Len(a) : a[i] <= now /\ (i <= d => a[i] <= now - Window) /\ \A j \in 1..i : a[j] <= a[i]
  PROVE  Remembers(a, s)
<1>1. Len(a) - Len(s) >= 0
  OBVIOUS
<1>2. s = SubSeq(a, (Len(a) - Len(s)) + 1, Len(a))
  OBVIOUS
<1>3. \A i \in 1..Len(a) : /\ a[i] <= now
                            /\ i <= Len(a) - Len(s) => a[i] <= now - Window
                            /\ \A j \in 1..i : a[j] <= a[i]
  OBVIOUS
<1>. QED  BY <1>1, <1>2, <1>3, Zenon DEF Remembers

\* A refusal forgets what is out of the window, and comes when the window is
\* full.
LEMMA RefusalKeeps ==
  ASSUME NEW a \in Seq(Nat), NEW s \in Seq(Nat), now \in Nat, Remembers(a, s)
  PROVE  /\ Remembers(a, Recent(s))
         /\ Len(Recent(s)) <= Crowd(a, now)
<1>1. PICK k \in 0..Len(a) :
         /\ CutAt(a, now - Window, k)
         /\ Recent(s) = SubSeq(a, k + 1, Len(a))
         /\ Recent(s) \in Seq(Nat) /\ Len(Recent(s)) = Len(a) - k
  BY RecentTail
<1>2. /\ \A i \in 1..k : a[i] <= now - Window
      /\ \A i \in (k + 1)..Len(a) : a[i] > now - Window
  BY <1>1 DEF CutAt
<1>3. Len(a) \in Nat /\ \A i \in 1..Len(a) : a[i] \in Nat /\ a[i] <= now /\ \A j \in 1..i : a[j] <= a[i]
  BY DEF Remembers
<1>4. Remembers(a, Recent(s))
  <2>1. Len(a) - Len(Recent(s)) = k
    BY <1>1, <1>3
  <2>2. \A i \in 1..Len(a) : i <= k => a[i] <= now - Window
    BY <1>2
  <2> DEFINE kept == Recent(s)
  <2>3. k \in Nat /\ k = Len(a) - Len(kept) /\ kept = SubSeq(a, k + 1, Len(a))
    BY <1>1, <1>3, <2>1
  <2> HIDE DEF kept
  <2>4. Remembers(a, kept)
    BY <1>3, <2>2, <2>3, RemembersFrom
  <2>. QED  BY <2>4 DEF kept
<1>5. Len(Recent(s)) <= Crowd(a, now)
  <2> DEFINE crowd == { i \in DOMAIN a : a[i] \in (now - Window + 1)..now }
  <2>1. (k + 1)..Len(a) \subseteq crowd
    <3>1. SUFFICES ASSUME NEW i \in (k + 1)..Len(a) PROVE i \in crowd
      OBVIOUS
    <3>2. i \in 1..Len(a) /\ i \in DOMAIN a
      BY <1>1, <1>3, <3>1
    <3>3. a[i] \in Nat /\ a[i] <= now /\ a[i] > now - Window
      BY <1>2, <1>3, <3>1, <3>2
    <3>4. a[i] \in (now - Window + 1)..now
      BY <3>3, LimitsAreNumbers
    <3>. QED  BY <3>2, <3>4
  <2>2. IsFiniteSet(DOMAIN a) /\ crowd \subseteq DOMAIN a
    <3>1. DOMAIN a = 1..Len(a)
      OBVIOUS
    <3>. QED  BY <1>3, <3>1, FS_Interval
  <2>3. IsFiniteSet(crowd)
    BY <2>2, FS_Subset
  <2> HIDE DEF crowd
  <2>4. Cardinality((k + 1)..Len(a)) <= Cardinality(crowd)
    BY <2>1, <2>3, FS_Subset
  <2>5. Cardinality((k + 1)..Len(a)) = Len(a) - k
    <3> DEFINE lo == k + 1
    <3>1. lo \in Int /\ Len(a) \in Int
      BY <1>1, <1>3
    <3> HIDE DEF lo
    <3>2. Cardinality(lo..Len(a)) = IF lo <= Len(a) THEN Len(a) - lo + 1 ELSE 0
      BY <3>1, FS_Interval
    <3>. QED  BY <1>1, <1>3, <3>1, <3>2 DEF lo
  <2>. QED  BY <1>1, <2>4, <2>5 DEF Crowd, crowd
<1>. QED  BY <1>4, <1>5

\* An admission is remembered, and no window holds too many of them.
LEMMA AdmissionKeeps ==
  ASSUME NEW a \in Seq(Nat), NEW s \in Seq(Nat), now \in Nat, Remembers(a, s),
         Len(Recent(s)) < MaxRequests
  PROVE  /\ Remembers(Append(a, now), Append(Recent(s), now))
         /\ \A t \in 0..Horizon : Crowd(a, t) <= MaxRequests => Crowd(Append(a, now), t) <= MaxRequests
<1>1. PICK k \in 0..Len(a) :
         /\ CutAt(a, now - Window, k)
         /\ Recent(s) = SubSeq(a, k + 1, Len(a))
         /\ Recent(s) \in Seq(Nat) /\ Len(Recent(s)) = Len(a) - k
  BY RecentTail
<1>2. /\ \A i \in 1..k : a[i] <= now - Window
      /\ \A i \in (k + 1)..Len(a) : a[i] > now - Window
  BY <1>1 DEF CutAt
<1>3. Len(a) \in Nat /\ \A i \in 1..Len(a) : a[i] \in Nat /\ a[i] <= now /\ \A j \in 1..i : a[j] <= a[i]
  BY DEF Remembers
<1> DEFINE b == Append(a, now)
           q == Append(Recent(s), now)
<1>4. /\ b \in Seq(Nat) /\ Len(b) = Len(a) + 1 /\ b[Len(a) + 1] = now
      /\ \A i \in 1..Len(a) : b[i] = a[i]
  BY <1>3
<1>5. Len(q) = Len(a) - k + 1
  BY <1>1
<1>6. q \in Seq(Nat) /\ q[Len(a) - k + 1] = now /\ \A i \in 1..(Len(a) - k) : q[i] = a[k + i]
  <2>1. \A i \in 1..(Len(a) - k) : SubSeq(a, k + 1, Len(a))[i] = a[k + i]
    BY <1>3
  <2> DEFINE recent == Recent(s)
  <2>2. recent \in Seq(Nat) /\ Len(recent) = Len(a) - k /\ \A i \in 1..(Len(a) - k) : recent[i] = a[k + i]
    BY <1>1, <2>1
  <2> HIDE DEF recent
  <2>3. /\ Append(recent, now) \in Seq(Nat) /\ Append(recent, now)[Len(recent) + 1] = now
        /\ \A i \in 1..Len(recent) : Append(recent, now)[i] = recent[i]
    BY <2>2
  <2>. QED  BY <2>2, <2>3 DEF recent
<1> HIDE DEF b, q
<1>7. q = SubSeq(b, k + 1, Len(b))
  <2> DEFINE tail == SubSeq(b, k + 1, Len(b))
  <2>1. /\ tail \in Seq(Nat) /\ Len(tail) = Len(a) - k + 1
        /\ \A i \in 1..(Len(a) - k + 1) : tail[i] = b[k + i]
    <3>1. k + 1 \in Int /\ Len(b) \in Int /\ k + 1 <= Len(b) /\ Len(b) = Len(a) + 1 /\ k \in Nat
      BY <1>3, <1>4
    <3>2. \A i \in (k + 1)..Len(b) : b[i] \in Nat
      BY <1>4, <3>1
    <3> DEFINE lo == k + 1
    <3>3. lo \in Int /\ \A i \in lo..Len(b) : b[i] \in Nat
      BY <3>1, <3>2
    <3> HIDE DEF lo
    <3>4. /\ SubSeq(b, lo, Len(b)) \in Seq(Nat)
          /\ Len(SubSeq(b, lo, Len(b))) = IF lo <= Len(b) THEN Len(b) - lo + 1 ELSE 0
          /\ \A i \in 1..(Len(b) - lo + 1) : SubSeq(b, lo, Len(b))[i] = b[lo + i - 1]
      BY <3>1, <3>3, SubSeqProperties
    <3>5. /\ SubSeq(b, lo, Len(b)) \in Seq(Nat) /\ Len(SubSeq(b, lo, Len(b))) = Len(a) - k + 1
          /\ Len(b) - lo + 1 = Len(a) - k + 1
      BY <1>3, <3>1, <3>4 DEF lo
    <3>6. ASSUME NEW i \in 1..(Len(a) - k + 1) PROVE SubSeq(b, lo, Len(b))[i] = b[k + i]
      <4>1. lo + i - 1 = k + i
        BY <1>3, <3>1 DEF lo
      <4>. QED  BY <3>4, <3>5, <4>1
    <3>. QED  BY <3>5, <3>6 DEF lo
  <2> HIDE DEF tail
  <2>2. ASSUME NEW i \in 1..(Len(a) - k + 1) PROVE q[i] = tail[i]
    <3>1. CASE i = Len(a) - k + 1
      <4>1. k + i = Len(a) + 1
        BY <1>3, <3>1
      <4>. QED  BY <1>4, <1>6, <2>1, <3>1, <4>1
    <3>2. CASE i # Len(a) - k + 1
      <4>1. i \in 1..(Len(a) - k) /\ k + i \in 1..Len(a)
        BY <1>3, <3>2
      <4>. QED  BY <1>4, <1>6, <2>1, <4>1
    <3>. QED  BY <3>1, <3>2
  <2>3. q = tail
    BY <1>5, <1>6, <2>1, <2>2, SeqEqual
  <2>. QED  BY <2>3 DEF tail
<1>8. Remembers(b, q)
  <2>1. Len(b) - Len(q) = k
    BY <1>1, <1>3, <1>4, <1>5
  <2>2. ASSUME NEW i \in 1..Len(b)
        PROVE  /\ b[i] <= now
               /\ i <= k => b[i] <= now - Window
               /\ \A j \in 1..i : b[j] <= b[i]
    <3>1. CASE i \in 1..Len(a)
      <4>1. \A j \in 1..i : j \in 1..Len(a)
        BY <1>3, <3>1
      <4>2. b[i] = a[i] /\ \A j \in 1..i : b[j] = a[j]
        BY <1>4, <3>1, <4>1
      <4>3. i <= k => i \in 1..k
        BY <1>3, <3>1
      <4>. QED  BY <1>2, <1>3, <3>1, <4>2, <4>3
    <3>2. CASE i = Len(a) + 1
      <4>1. ~(i <= k) /\ b[i] = now
        BY <1>3, <1>4, <3>2
      <4>2. ASSUME NEW j \in 1..i PROVE b[j] <= now
        <5>1. CASE j = Len(a) + 1
          BY <1>4, <5>1
        <5>2. CASE j # Len(a) + 1
          <6>1. j \in 1..Len(a)
            BY <1>3, <3>2, <5>2
          <6>. QED  BY <1>3, <1>4, <6>1
        <5>. QED  BY <5>1, <5>2
      <4>. QED  BY <4>1, <4>2
    <3>. QED  BY <1>3, <1>4, <3>1, <3>2
  <2>3. k \in Nat /\ k = Len(b) - Len(q)
    BY <1>3, <2>1
  <2>. QED  BY <1>7, <2>2, <2>3, RemembersFrom
<1>9. ASSUME NEW t \in 0..Horizon, Crowd(a, t) <= MaxRequests
      PROVE  Crowd(b, t) <= MaxRequests
  <2> DEFINE before == { i \in DOMAIN a : a[i] \in (t - Window + 1)..t }
             after == { i \in DOMAIN b : b[i] \in (t - Window + 1)..t }
  <2>0. DOMAIN a = 1..Len(a) /\ DOMAIN b = 1..(Len(a) + 1) /\ t \in Nat
    BY <1>4, LimitsAreNumbers
  <2>1. CASE t < now
    <3>1. after = before
      BY <1>3, <1>4, <2>0, <2>1
    <3>. QED  BY <1>9, <3>1 DEF Crowd
  <2>2. CASE t >= now
    <3>1. after \subseteq (k + 1)..(Len(a) + 1)
      <4>0. \A i \in 1..(Len(a) + 1) : i <= k \/ i \in (k + 1)..(Len(a) + 1)
        BY <1>3
      <4>1. SUFFICES ASSUME NEW i \in 1..(Len(a) + 1), b[i] \in (t - Window + 1)..t, i <= k PROVE FALSE
        BY <2>0, <4>0
      <4>2. i \in 1..Len(a) /\ i \in 1..k
        BY <1>1, <1>3, <4>1
      <4>3. b[i] <= now - Window /\ b[i] >= t - Window + 1 /\ b[i] \in Nat
        BY <1>2, <1>3, <1>4, <2>0, <4>1, <4>2, LimitsAreNumbers
      <4>. QED  BY <2>0, <2>2, <4>3, LimitsAreNumbers
    <3>2. /\ IsFiniteSet((k + 1)..(Len(a) + 1))
          /\ Cardinality((k + 1)..(Len(a) + 1)) = Len(a) - k + 1
      <4>1. k + 1 \in Int /\ Len(a) + 1 \in Int /\ k + 1 <= Len(a) + 1
        BY <1>1, <1>3
      <4>. QED  BY <1>1, <1>3, <4>1, FS_Interval
    <3> DEFINE span == (k + 1)..(Len(a) + 1)
    <3>a. after \subseteq span /\ IsFiniteSet(span)
      BY <3>1, <3>2
    <3>b. Cardinality(span) = Len(a) - k + 1
      BY <3>2
    <3> HIDE DEF after, span
    <3>c. IsFiniteSet(after) /\ Cardinality(after) <= Cardinality(span)
      BY <3>a, FS_Subset
    <3>3. Cardinality(after) <= Len(a) - k + 1
      BY <3>b, <3>c
    <3>4. IsFiniteSet(after) /\ Cardinality(after) \in Nat
      BY <3>c, FS_CardinalityType
    <3>5. Cardinality(after) <= MaxRequests
      BY <1>1, <1>3, <3>3, <3>4, LimitsAreNumbers
    <3>. QED  BY <3>5 DEF Crowd, after
  <2>. QED  BY <2>0, <2>1, <2>2
<1>. QED  BY <1>8, <1>9 DEF b, q
-----------------------------------------------------------------------------
(* The types.                                                              *)

LEMMA InitTypes == Init => TypeOK
BY LimitsAreNumbers DEF Init, TypeOK, Reply

LEMMA RecentTyped ==
  ASSUME NEW s \in Seq(0..Horizon)
  PROVE  Recent(s) \in Seq(0..Horizon)
BY OnlyType DEF Recent

\* The variables an answer changes.
LEMMA AnswerTyped ==
  ASSUME TypeOK, NEW r \in Request, NEW words \in Reply, Answer(r, words)
  PROVE  /\ pos' \in [Request -> Nat]
         /\ reply' \in [Request -> Reply \cup {"none"}]
         /\ step' \in [Request -> {"next", "limits", "context", "call", "wait"}]
         /\ attempt' \in [Request -> 0..MaxRetries]
<1>1. 0 \in 0..MaxRetries
  BY LimitsAreNumbers
<1>. QED  BY <1>1 DEF TypeOK, Answer, Goto

LEMMA StepTypes == CallsInv /\ TypeOK /\ [Next]_vars => TypeOK'
<1>. SUFFICES ASSUME CallsInv, TypeOK, [Next]_vars PROVE TypeOK'
  OBVIOUS
<1>. USE DEF TypeOK
<1>1. ASSUME NEW r \in Request, NextMessage(r) PROVE TypeOK'
  BY <1>1 DEF NextMessage, Goto
<1>2. ASSUME NEW r \in Request, RefuseTooLong(r) PROVE TypeOK'
  <2>1. Answer(r, "AI_INPUT_TOO_LONG") /\ UNCHANGED <<now, stamps, admitted, calls, adapter>>
    BY <1>2 DEF RefuseTooLong
  <2>2. "AI_INPUT_TOO_LONG" \in Reply
    BY DEF Reply
  <2>3. /\ pos' \in [Request -> Nat] /\ reply' \in [Request -> Reply \cup {"none"}]
        /\ step' \in [Request -> {"next", "limits", "context", "call", "wait"}]
        /\ attempt' \in [Request -> 0..MaxRetries]
    BY <2>1, <2>2, AnswerTyped
  <2>. QED  BY <2>1, <2>3
<1>3. ASSUME NEW r \in Request, Admit(r) PROVE TypeOK'
  <2> DEFINE recent == Recent(stamps[r][Cur(r)])
  <2>1. Cur(r) \in Conversation
    BY <1>3, CurTyped DEF Admit
  <2>2. recent \in Seq(0..Horizon) /\ now \in 0..Horizon
    BY <2>1, RecentTyped
  <2>3. /\ stamps' = [stamps EXCEPT ![r][Cur(r)] = Append(recent, now)]
        /\ admitted' = [admitted EXCEPT ![r][Cur(r)] = Append(admitted[r][Cur(r)], now)]
        /\ step' = [step EXCEPT ![r] = "context"]
        /\ UNCHANGED <<now, calls, pos, reply, attempt, adapter>>
    BY <1>3 DEF Admit, Goto
  <2>4. admitted[r][Cur(r)] \in Seq(0..Horizon)
    BY <2>1
  <2> HIDE DEF recent
  <2>5. Append(recent, now) \in Seq(0..Horizon) /\ Append(admitted[r][Cur(r)], now) \in Seq(0..Horizon)
    BY <2>2, <2>4
  <2>6. stamps' \in [Request -> [Conversation -> Seq(0..Horizon)]]
    BY <2>1, <2>3, <2>5
  <2>7. admitted' \in [Request -> [Conversation -> Seq(0..Horizon)]]
    BY <2>1, <2>3, <2>5
  <2>8. step' \in [Request -> {"next", "limits", "context", "call", "wait"}]
    BY <2>3
  <2>. QED  BY <2>3, <2>6, <2>7, <2>8
<1>4. ASSUME NEW r \in Request, RefuseRateLimited(r) PROVE TypeOK'
  <2> DEFINE recent == Recent(stamps[r][Cur(r)])
  <2>1. Cur(r) \in Conversation
    BY <1>4, CurTyped DEF RefuseRateLimited
  <2>2. recent \in Seq(0..Horizon)
    BY <2>1, RecentTyped
  <2>3. /\ stamps' = [stamps EXCEPT ![r][Cur(r)] = recent]
        /\ Answer(r, "AI_RATE_LIMITED")
        /\ UNCHANGED <<now, admitted, calls, adapter>>
    BY <1>4 DEF RefuseRateLimited
  <2> HIDE DEF recent
  <2>4. stamps' \in [Request -> [Conversation -> Seq(0..Horizon)]]
    BY <2>1, <2>2, <2>3
  <2>5. "AI_RATE_LIMITED" \in Reply
    BY DEF Reply
  <2>6. /\ pos' \in [Request -> Nat] /\ reply' \in [Request -> Reply \cup {"none"}]
        /\ step' \in [Request -> {"next", "limits", "context", "call", "wait"}]
        /\ attempt' \in [Request -> 0..MaxRetries]
    BY <2>3, <2>5, AnswerTyped
  <2>. QED  BY <2>3, <2>4, <2>6
<1>5. ASSUME NEW r \in Request, BuildContext(r) PROVE TypeOK'
  <2>1. UNCHANGED <<now, stamps, admitted, calls, adapter>>
    BY <1>5 DEF BuildContext
  <2>2. CASE Goto(r, "call") /\ UNCHANGED <<pos, reply, attempt>>
    BY <2>1, <2>2 DEF Goto
  <2>3. CASE Answer(r, "DEFAULT")
    <3>1. "DEFAULT" \in Reply
      BY DEF Reply
    <3>2. /\ pos' \in [Request -> Nat] /\ reply' \in [Request -> Reply \cup {"none"}]
          /\ step' \in [Request -> {"next", "limits", "context", "call", "wait"}]
          /\ attempt' \in [Request -> 0..MaxRetries]
      BY <2>3, <3>1, AnswerTyped
    <3>. QED  BY <2>1, <3>2
  <2>. QED  BY <1>5, <2>2, <2>3 DEF BuildContext
<1>6. ASSUME NEW r \in Request, NEW outcome, Generate(r, outcome) PROVE TypeOK'
  <2>1. /\ step[r] = "call" /\ UNCHANGED <<now, stamps, admitted, adapter>>
        /\ calls' = [calls EXCEPT ![r][Cur(r)] = calls[r][Cur(r)] + 1]
    BY <1>6 DEF Generate
  <2>2. Cur(r) \in Conversation
    BY <2>1, CurTyped
  <2>3. calls' \in [Request -> [Conversation -> Nat]]
    BY <2>1, <2>2
  <2>4. ASSUME NEW words \in Reply, Answer(r, words) PROVE TypeOK'
    <3>1. /\ pos' \in [Request -> Nat] /\ reply' \in [Request -> Reply \cup {"none"}]
          /\ step' \in [Request -> {"next", "limits", "context", "call", "wait"}]
          /\ attempt' \in [Request -> 0..MaxRetries]
      BY <2>4, AnswerTyped
    <3>. QED  BY <2>1, <2>3, <3>1
  <2>5. CASE Goto(r, "wait") /\ UNCHANGED <<pos, reply, attempt>>
    BY <2>1, <2>3, <2>5 DEF Goto
  <2>6. {"TEXT", "AI_UNAVAILABLE", "DEFAULT"} \subseteq Reply
    BY DEF Reply
  <2>7. \/ Answer(r, "TEXT") \/ Answer(r, "AI_UNAVAILABLE") \/ Answer(r, "DEFAULT")
        \/ Goto(r, "wait") /\ UNCHANGED <<pos, reply, attempt>>
    BY <1>6 DEF Generate
  <2>. HIDE DEF TypeOK
  <2>. QED  BY <2>4, <2>5, <2>6, <2>7
<1>7. ASSUME NEW r \in Request, Retry(r) PROVE TypeOK'
  <2>1. /\ step[r] = "wait" /\ attempt' = [attempt EXCEPT ![r] = attempt[r] + 1]
        /\ step' = [step EXCEPT ![r] = "call"]
        /\ UNCHANGED <<now, stamps, admitted, calls, pos, reply, adapter>>
    BY <1>7 DEF Retry, Goto
  <2>2. attempt[r] + 1 \in 0..MaxRetries
    BY <2>1, LimitsAreNumbers DEF CallsInv
  <2>. QED  BY <2>1, <2>2
<1>8. CASE Tick
  <2>1. now' \in 0..Horizon /\ UNCHANGED <<stamps, admitted, calls, pos, reply, step, attempt, adapter>>
    BY <1>8, LimitsAreNumbers DEF Tick
  <2>. QED  BY <2>1
<1>9. CASE UNCHANGED vars
  BY <1>9 DEF vars
<1>. HIDE DEF TypeOK
<1>. QED  BY <1>1, <1>2, <1>3, <1>4, <1>5, <1>6, <1>7, <1>8, <1>9 DEF Next, AllAnswered

\* Every variable keeps its type, for any requests and limits.
THEOREM ReplyTypes == Spec => []TypeOK
<1>1. CallsInv /\ [Next]_vars /\ TypeOK => TypeOK'
  BY StepTypes
<1>. QED  BY <1>1, InitTypes, CallsInvariant, PTL DEF Spec

-----------------------------------------------------------------------------
(* Nobody overruns the window, and nobody is refused early.                *)

\* The types without the bound of the clock.
LEMMA TimesTyped ==
  ASSUME TypeOK
  PROVE  /\ now \in Nat /\ now \in Int
         /\ \A r \in Request, c \in Conversation :
              admitted[r][c] \in Seq(Nat) /\ stamps[r][c] \in Seq(Nat)
<1>1. \A s \in Seq(0..Horizon) : s \in Seq(Nat)
  BY LimitsAreNumbers
<1>. QED  BY <1>1, LimitsAreNumbers DEF TypeOK

LEMMA InitWindow == Init => WindowInv /\ WindowRespected
<1>. SUFFICES ASSUME Init PROVE WindowInv /\ WindowRespected
  OBVIOUS
<1>1. \A r \in Request, c \in Conversation : admitted[r][c] = <<>> /\ stamps[r][c] = <<>>
  BY DEF Init
<1>2. Remembers(<<>>, <<>>)
  <2>1. Len(<<>>) = 0 /\ 1..Len(<<>>) = {} /\ SubSeq(<<>>, 0 - 0 + 1, 0) = <<>>
    OBVIOUS
  <2>. QED  BY <2>1 DEF Remembers
<1>3. ASSUME NEW t \in 0..Horizon PROVE Crowd(<<>>, t) <= MaxRequests
  <2>1. { i \in DOMAIN <<>> : <<>>[i] \in (t - Window + 1)..t } = {}
    OBVIOUS
  <2>2. Crowd(<<>>, t) = 0
    BY <2>1, FS_EmptySet DEF Crowd
  <2>. QED  BY <2>2, LimitsAreNumbers
<1>. QED  BY <1>1, <1>2, <1>3 DEF WindowInv, WindowRespected

\* What a step does to the limiters: nothing, or one of the two ways of
\* allow() to one conversation of one request.
LEMMA LimiterShape ==
  ASSUME CallsInv, TypeOK, [Next]_vars
  PROVE  \/ UNCHANGED <<stamps, admitted>> /\ now' \in Nat /\ now' >= now
         \/ \E r \in Request : Admit(r) \/ RefuseRateLimited(r)
<1>1. now \in Nat
  BY TimesTyped
<1>2. CASE Tick
  BY <1>1, <1>2 DEF Tick
<1>3. CASE UNCHANGED vars
  BY <1>1, <1>3 DEF vars
<1>4. ASSUME NEW r \in Request, NEW outcome, NextMessage(r) \/ RefuseTooLong(r) \/ BuildContext(r) \/ Retry(r)
                                             \/ Generate(r, outcome)
      PROVE  UNCHANGED <<stamps, admitted, now>>
  BY <1>4 DEF NextMessage, RefuseTooLong, BuildContext, Retry, Generate
<1>. QED  BY <1>1, <1>2, <1>3, <1>4 DEF Next, AllAnswered

LEMMA StepWindow ==
  CallsInv /\ TypeOK /\ WindowInv /\ WindowRespected /\ [Next]_vars => WindowInv' /\ WindowRespected'
<1>. SUFFICES ASSUME CallsInv, TypeOK, WindowInv, WindowRespected, [Next]_vars
              PROVE  WindowInv' /\ WindowRespected'
  OBVIOUS
<1>1. CASE UNCHANGED <<stamps, admitted>> /\ now' \in Nat /\ now' >= now
  <2>1. ASSUME NEW r \in Request, NEW c \in Conversation
        PROVE  Remembers(admitted[r][c], stamps[r][c])'
    <3> DEFINE a == admitted[r][c]
               s == stamps[r][c]
    <3>1. a' = a /\ s' = s
      BY <1>1
    <3>2. /\ Len(a) - Len(s) >= 0 /\ s = SubSeq(a, Len(a) - Len(s) + 1, Len(a))
          /\ \A i \in 1..Len(a) : /\ a[i] <= now
                                  /\ i <= Len(a) - Len(s) => a[i] <= now - Window
                                  /\ \A j \in 1..i : a[j] <= a[i]
      BY DEF WindowInv, Remembers
    <3>3. a \in Seq(Nat) /\ now \in Nat /\ Window \in Nat
      BY TimesTyped, LimitsAreNumbers
    <3> HIDE DEF a, s
    <3>4. \A i \in 1..Len(a) : a[i] <= now' /\ (i <= Len(a) - Len(s) => a[i] <= now' - Window)
      BY <1>1, <3>2, <3>3
    <3>. QED  BY <3>1, <3>2, <3>4 DEF Remembers, a, s
  <2>2. WindowRespected'
    BY <1>1 DEF WindowRespected, Crowd
  <2>. QED  BY <2>1, <2>2 DEF WindowInv
\* One limiter is asked about one conversation.
<1>2. ASSUME NEW r \in Request, Cur(r) \in Conversation, now' = now,
             NEW a, NEW s, Remembers(a, s),
             admitted' = [admitted EXCEPT ![r][Cur(r)] = a],
             stamps' = [stamps EXCEPT ![r][Cur(r)] = s],
             \A t \in 0..Horizon : Crowd(a, t) <= MaxRequests
      PROVE  WindowInv' /\ WindowRespected'
  <2>1. ASSUME NEW q \in Request, NEW c \in Conversation
        PROVE  /\ Remembers(admitted'[q][c], stamps'[q][c])
               /\ \A t \in 0..Horizon : Crowd(admitted'[q][c], t) <= MaxRequests
    <3>1. CASE q = r /\ c = Cur(r)
      <4>1. admitted'[q][c] = a /\ stamps'[q][c] = s
        BY <1>2, <3>1 DEF TypeOK
      <4>. QED  BY <1>2, <4>1
    <3>2. CASE ~(q = r /\ c = Cur(r))
      <4>1. admitted'[q][c] = admitted[q][c] /\ stamps'[q][c] = stamps[q][c]
        BY <1>2, <3>2 DEF TypeOK
      <4>. QED  BY <4>1 DEF WindowInv, WindowRespected
    <3>. QED  BY <3>1, <3>2
  <2>2. ASSUME NEW q \in Request, NEW c \in Conversation
        PROVE  Remembers(admitted[q][c], stamps[q][c])'
    BY <1>2, <2>1 DEF Remembers
  <2>3. ASSUME NEW q \in Request, NEW c \in Conversation, NEW t \in 0..Horizon
        PROVE  Crowd(admitted[q][c], t)' <= MaxRequests
    BY <2>1 DEF Crowd
  <2>. QED  BY <2>2, <2>3 DEF WindowInv, WindowRespected
<1>3. ASSUME NEW r \in Request, Admit(r) PROVE WindowInv' /\ WindowRespected'
  <2> DEFINE c == Cur(r)
             recent == Recent(stamps[r][c])
  <2>1. /\ c \in Conversation /\ now' = now /\ Len(recent) < MaxRequests
        /\ stamps' = [stamps EXCEPT ![r][Cur(r)] = Append(recent, now)]
        /\ admitted' = [admitted EXCEPT ![r][Cur(r)] = Append(admitted[r][c], now)]
    BY <1>3, CurTyped DEF Admit
  <2>2. /\ admitted[r][c] \in Seq(Nat) /\ stamps[r][c] \in Seq(Nat) /\ now \in Nat
        /\ Remembers(admitted[r][c], stamps[r][c])
        /\ \A t \in 0..Horizon : Crowd(admitted[r][c], t) <= MaxRequests
    BY <2>1, TimesTyped DEF WindowInv, WindowRespected
  <2>3. /\ Remembers(Append(admitted[r][c], now), Append(recent, now))
        /\ \A t \in 0..Horizon : Crowd(Append(admitted[r][c], now), t) <= MaxRequests
    BY <2>1, <2>2, AdmissionKeeps
  <2> HIDE DEF recent
  <2>. QED  BY <1>2, <2>1, <2>3
<1>4. ASSUME NEW r \in Request, RefuseRateLimited(r) PROVE WindowInv' /\ WindowRespected'
  <2> DEFINE c == Cur(r)
             recent == Recent(stamps[r][c])
  <2>1. /\ c \in Conversation /\ now' = now
        /\ stamps' = [stamps EXCEPT ![r][Cur(r)] = recent]
        /\ admitted' = admitted
    BY <1>4, CurTyped DEF RefuseRateLimited
  <2>2. /\ admitted[r][c] \in Seq(Nat) /\ stamps[r][c] \in Seq(Nat) /\ now \in Nat
        /\ Remembers(admitted[r][c], stamps[r][c])
        /\ \A t \in 0..Horizon : Crowd(admitted[r][c], t) <= MaxRequests
    BY <2>1, TimesTyped DEF WindowInv, WindowRespected
  <2>3. Remembers(admitted[r][c], recent)
    BY <2>2, RefusalKeeps
  <2>4. admitted' = [admitted EXCEPT ![r][Cur(r)] = admitted[r][c]]
    BY <2>1 DEF TypeOK
  <2> HIDE DEF recent
  <2>. QED  BY <1>2, <2>1, <2>2, <2>3, <2>4
<1>. QED  BY <1>1, <1>3, <1>4, LimiterShape

\* What a limiter remembers is what matters of its admissions, and no window
\* is overrun (ConversationRateLimiter.allow): for any limits, any number of
\* requests and any order of their messages.
THEOREM LimitsInvariant == Spec => []LimitsInv
<1>1. CallsInv /\ TypeOK /\ (WindowInv /\ WindowRespected) /\ [Next]_vars => (WindowInv /\ WindowRespected)'
  BY StepWindow
<1>2. Spec => [](WindowInv /\ WindowRespected)
  BY <1>1, InitWindow, CallsInvariant, ReplyTypes, PTL DEF Spec
<1>. QED  BY <1>2, CallsInvariant, PTL DEF LimitsInv

\* No window of ai_request_window_seconds holds more than max_requests of a
\* limiter's admissions.
THEOREM WindowIsRespected == Spec => []WindowRespected
<1>1. CallsInv /\ TypeOK /\ (WindowInv /\ WindowRespected) /\ [Next]_vars => (WindowInv /\ WindowRespected)'
  BY StepWindow
<1>. QED  BY <1>1, InitWindow, CallsInvariant, ReplyTypes, PTL DEF Spec

\* A message is told of the rate limit only when its conversation has used it
\* up within the window.
THEOREM RefusalsAreDeserved == Spec => RefusalsDeserved
<1>1. ASSUME LimitsInv, TypeOK, Next, NEW r \in Request,
             pos'[r] > pos[r], reply'[r] = "AI_RATE_LIMITED"
      PROVE  Crowd(admitted[r][Cur(r)], now) >= MaxRequests
  <2>0. CallsInv /\ WindowInv /\ pos \in [Request -> Nat] /\ reply \in [Request -> Reply \cup {"none"}]
    BY <1>1 DEF LimitsInv, TypeOK
  <2>1. pos' # pos /\ pos'[r] # pos[r]
    BY <1>1, <2>0
  \* Another request, or another answer, is no refusal of r.
  <2>2. ASSUME NEW q \in Request, NEW words, words # "AI_RATE_LIMITED", Answer(q, words) PROVE FALSE
    BY <1>1, <2>0, <2>1, <2>2 DEF Answer
  <2>3. RefuseRateLimited(r)
    <3>1. PICK q \in Request : \/ NextMessage(q) \/ RefuseTooLong(q) \/ Admit(q) \/ RefuseRateLimited(q)
                               \/ BuildContext(q) \/ Retry(q) \/ \E outcome \in Ends : Generate(q, outcome)
      BY <1>1, <2>1 DEF Next, Tick, AllAnswered, vars
    <3>2. ~NextMessage(q) /\ ~Admit(q) /\ ~Retry(q)
      BY <2>1 DEF NextMessage, Admit, Retry
    <3>3. ~RefuseTooLong(q) /\ ~BuildContext(q)
      BY <2>1, <2>2 DEF RefuseTooLong, BuildContext
    <3>4. ASSUME NEW outcome, Generate(q, outcome) PROVE FALSE
      BY <2>1, <2>2, <3>4 DEF Generate
    <3>5. RefuseRateLimited(q)
      BY <3>1, <3>2, <3>3, <3>4
    <3>6. q = r
      BY <2>0, <2>1, <3>5 DEF RefuseRateLimited, Answer
    <3>. QED  BY <3>5, <3>6
  <2> DEFINE c == Cur(r)
             recent == Recent(stamps[r][c])
  <2>4. c \in Conversation /\ Len(recent) >= MaxRequests
    BY <2>0, <2>3, CurTyped DEF RefuseRateLimited
  <2>5. /\ admitted[r][c] \in Seq(Nat) /\ stamps[r][c] \in Seq(Nat) /\ now \in Nat
        /\ Remembers(admitted[r][c], stamps[r][c])
    BY <1>1, <2>0, <2>4, TimesTyped DEF WindowInv
  <2>6. Len(recent) <= Crowd(admitted[r][c], now)
    BY <2>5, RefusalKeeps
  <2>7. PICK k \in 0..Len(admitted[r][c]) : recent \in Seq(Nat)
    BY <2>5, RecentTail
  <2>8. Crowd(admitted[r][c], now) \in Nat
    <3>1. DOMAIN admitted[r][c] = 1..Len(admitted[r][c]) /\ Len(admitted[r][c]) \in Int
      BY <2>5
    <3>2. IsFiniteSet(DOMAIN admitted[r][c])
      BY <3>1, FS_Interval
    <3>. QED  BY <3>2, FS_Subset, FS_CardinalityType DEF Crowd
  <2> HIDE DEF recent, c
  <2>9. Crowd(admitted[r][c], now) >= MaxRequests
    BY <2>4, <2>6, <2>7, <2>8, LimitsAreNumbers
  <2>. QED  BY <2>9 DEF c
<1>2. ASSUME LimitsInv, TypeOK, [Next]_vars
      PROVE  [\A r \in Request :
                pos'[r] > pos[r] /\ reply'[r] = "AI_RATE_LIMITED" =>
                  Crowd(admitted[r][Cur(r)], now) >= MaxRequests]_vars
  BY <1>1, <1>2
<1>. QED  BY <1>2, LimitsInvariant, ReplyTypes, PTL DEF Spec, RefusalsDeserved
=============================================================================
