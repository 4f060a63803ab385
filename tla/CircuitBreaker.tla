----------------------------- MODULE CircuitBreaker -----------------------------
(***************************************************************************)
(* The circuit breaker on one of the gateway's gRPC connections, the       *)
(* service behind it, and the limiter in front of the auth service.        *)
(*                                                                         *)
(* Every call of the gateway passes the interceptor of its connection: it  *)
(* takes a permit, waits for the answer and records whether it was a       *)
(* failure.  Permit and record are apart, so a record may meet a breaker   *)
(* that has changed its state meanwhile.  The breaker is failsafe-go's.    *)
(*                                                                         *)
(* Time is kept in ages and countdowns, which need no bound on a clock.    *)
(***************************************************************************)
EXTENDS Naturals, FiniteSets, Sequences

CONSTANTS Calls,             \* the requests that may be in flight at once
          Services,          \* what may be behind the connection
          FailureThreshold,  \* CB_FAILURE_THRESHOLD: 6
          WindowSize,        \* CB_WINDOW_SIZE: 10
          SuccessThreshold,  \* CB_SUCCESS_THRESHOLD: 3
          Timeout,           \* GRPC_TIMEOUT: 5 seconds
          Delay,             \* CB_DELAY: 30 seconds
          MaxExecutions,     \* GRPC_RATE_LIMIT of the auth service: 60
          Interval,          \* GRPC_RATE_WINDOW: 1 minute
          None

ServiceNames == {"AuthService", "UserService", "ChatService", "MessageService", "MatchingService"}

\* The status codes that occur.
StatusCodes == {"OK", "NotFound", "Internal", "ResourceExhausted",
                "Unavailable", "DeadlineExceeded", "Canceled"}

\* A call in flight: what has passed of its deadline, and the answer under way.
CallRecord == [age : 0..Timeout, code : StatusCodes \cup {None}]

\* Each of these can be set by itself.  That a call ends before the breaker that
\* admitted it may open and half-open again is true of the defaults only.
ASSUME BreakerAssumption ==
    /\ Services \subseteq ServiceNames
    /\ FailureThreshold \in Nat \ {0} /\ WindowSize \in Nat
    /\ FailureThreshold <= WindowSize
    /\ SuccessThreshold \in Nat \ {0}
    /\ Timeout \in Nat \ {0} /\ Delay \in Nat /\ Timeout < Delay
    /\ MaxExecutions \in Nat \ {0} /\ Interval \in Nat \ {0}
    /\ None \notin StatusCodes \cup CallRecord

VARIABLES service,    \* which service this connection leads to
          health,     \* "up", "down" (refuses connections) or "stuck" (does not answer)
          state,      \* of the breaker
          outcomes,   \* the last ones recorded in this state: TRUE for a success
          permits,    \* free ones of a half-open breaker
          delayLeft,  \* of an open breaker
          calls,      \* those in flight: age, and the answer under way
          executions, \* the limiter's, free in this interval
          nextIn,     \* time to its next interval
          upSince,    \* auxiliary: the service was up since the breaker opened
          hungUp      \* auxiliary: clients that left since it half-opened

breaker == <<state, outcomes, permits, delayLeft, upSince, hungUp>>
limiter == <<executions, nextIn>>
vars == <<service, health, breaker, calls, limiter>>

InFlight == {c \in Calls : calls[c] # None}

(***************************************************************************)
(* What the services answer.  Four of them put their errors into a         *)
(* response; the user service returns codes, of which NotFound stands for  *)
(* those that refuse a request.                                            *)
(***************************************************************************)

AuthCodes == {"OK"}

UserCodes == {"OK", "NotFound", "Internal"}

ChatCodes == {"OK"}

MessageCodes == {"OK"}

MatchingCodes == {"OK"}

Codes ==
    [AuthService |-> AuthCodes, UserService |-> UserCodes, ChatService |-> ChatCodes,
     MessageService |-> MessageCodes, MatchingService |-> MatchingCodes][service]

\* Mutant: a deadline that passed is the client's affair.
FailureWithoutDeadline(code) == code \in {"Unavailable", "ResourceExhausted", "Internal"}

\* Mutant: every error is a failure but the client's leaving.
FailureUnlessOK(code) == code \notin {"OK", "Canceled"}

\* isGRPCFailure, for the codes that occur: Canceled is none of them.
IsGRPCFailure(code) == code \in {"Unavailable", "DeadlineExceeded", "ResourceExhausted", "Internal"}

(***************************************************************************)
(* The breaker.                                                            *)
(***************************************************************************)

Failures(s) == Cardinality({i \in DOMAIN s : ~ s[i]})

\* The outcomes the breaker looks at: the window's, or those of the probes.
LastOutcomes(outcome) ==
    LET s == Append(outcomes, outcome)
    IN  IF Len(s) > WindowSize THEN Tail(s) ELSE s

Open ==
    /\ state' = "open"
    /\ delayLeft' = Delay
    /\ permits' = 0
    /\ outcomes' = <<>>
    /\ upSince' = (health = "up")
    /\ hungUp' = 0

Close ==
    /\ state' = "closed"
    /\ outcomes' = <<>>
    /\ permits' = 0
    /\ upSince' = FALSE
    /\ hungUp' = 0
    /\ UNCHANGED delayLeft

RecordClosed(outcome) ==
    /\ state = "closed"
    /\ IF Failures(LastOutcomes(outcome)) >= FailureThreshold
       THEN Open
       ELSE /\ outcomes' = LastOutcomes(outcome)
            /\ UNCHANGED <<state, permits, delayLeft, upSince, hungUp>>

\* Every probe has to succeed; one that did not decide gives its permit back.
RecordHalf(code) ==
    /\ state = "half"
    /\ IF IsGRPCFailure(code) THEN Open
       ELSE IF Len(outcomes) + 1 >= SuccessThreshold THEN Close
       ELSE /\ outcomes' = Append(outcomes, TRUE)
            /\ permits' = permits + 1
            /\ hungUp' = IF code = "Canceled" THEN hungUp + 1 ELSE hungUp
            /\ UNCHANGED <<state, delayLeft, upSince>>

\* Mutant: a call that was given up is not recorded, and keeps its permit.
RecordAnswered(code) ==
    \/ state = "closed" /\ code # "Canceled" /\ RecordClosed(~ IsGRPCFailure(code))
    \/ state = "half" /\ code # "Canceled" /\ RecordHalf(code)
    \/ (state = "open" \/ code = "Canceled") /\ UNCHANGED breaker

\* RecordFailure and RecordSuccess.  An open breaker counts, to no effect.
Record(code) ==
    \/ state = "closed" /\ RecordClosed(~ IsGRPCFailure(code))
    \/ RecordHalf(code)
    \/ state = "open" /\ UNCHANGED breaker

\* TryAcquirePermit: the first call after the delay half-opens the breaker.
TryAcquirePermit ==
    \/ /\ state = "closed"
       /\ UNCHANGED breaker
    \/ /\ state = "open" /\ delayLeft = 0
       /\ state' = "half" /\ permits' = SuccessThreshold - 1
       /\ UNCHANGED <<outcomes, delayLeft, upSince, hungUp>>
    \/ /\ state = "half" /\ permits > 0
       /\ permits' = permits - 1
       /\ UNCHANGED <<state, outcomes, delayLeft, upSince, hungUp>>

(***************************************************************************)
(* Calls.                                                                  *)
(***************************************************************************)

Init ==
    /\ service \in Services
    /\ health = "up"
    /\ state = "closed" /\ outcomes = <<>> /\ permits = 0 /\ delayLeft = 0
    /\ upSince = FALSE /\ hungUp = 0
    /\ calls = [c \in Calls |-> None]
    /\ executions = MaxExecutions /\ nextIn = Interval

\* A handler makes its call.  One that gets no permit is refused with
\* Unavailable, which its client is told and nothing remembers.
Admit(c) ==
    /\ calls[c] = None
    /\ TryAcquirePermit
    /\ calls' = [calls EXCEPT ![c] = [age |-> 0, code |-> None]]
    /\ UNCHANGED <<service, health, limiter>>

Answered(c, code) == calls' = [calls EXCEPT ![c].code = code]

\* Mutant: the limiter counts calls and lets them pass.
ServeUnlimited(c) ==
    /\ calls[c] # None /\ calls[c].code = None
    /\ health = "up"
    /\ \E code \in Codes : Answered(c, code)
    /\ executions' = IF service = "AuthService" THEN executions - 1 ELSE executions
    /\ UNCHANGED <<service, health, breaker, nextIn>>

\* The service handles the call; the auth service if its limiter lets it.
Serve(c) ==
    /\ calls[c] # None /\ calls[c].code = None
    /\ health = "up"
    /\ IF service # "AuthService" THEN
            (\E code \in Codes : Answered(c, code)) /\ UNCHANGED executions
       ELSE IF executions > 0 THEN
            (\E code \in Codes : Answered(c, code)) /\ executions' = executions - 1
       ELSE Answered(c, "ResourceExhausted") /\ UNCHANGED executions
    /\ UNCHANGED <<service, health, breaker, nextIn>>

\* There is no connection, and a call does not wait for one.
Refuse(c) ==
    /\ calls[c] # None /\ calls[c].code = None
    /\ health = "down"
    /\ Answered(c, "Unavailable")
    /\ UNCHANGED <<service, health, breaker, limiter>>

\* The context's deadline passes.
Expire(c) ==
    /\ calls[c] # None /\ calls[c].code = None
    /\ health # "up" /\ calls[c].age = Timeout
    /\ Answered(c, "DeadlineExceeded")
    /\ UNCHANGED <<service, health, breaker, limiter>>

\* The client closes its connection, which cancels the request's context.
HangUp(c) ==
    /\ calls[c] # None /\ calls[c].code = None
    /\ Answered(c, "Canceled")
    /\ UNCHANGED <<service, health, breaker, limiter>>

\* The call is over.  Its handler tells the client, if that is still there.
Return(c) ==
    /\ calls[c] # None /\ calls[c].code # None
    /\ calls' = [calls EXCEPT ![c] = None]
    /\ Record(calls[c].code)
    /\ UNCHANGED <<service, health, limiter>>

\* The service crashes, hangs or comes back; answers under way still arrive.
Health ==
    /\ health' \in {"up", "down", "stuck"} \ {health}
    /\ upSince' = (upSince \/ (health' = "up" /\ state # "closed"))
    /\ UNCHANGED <<service, state, outcomes, permits, delayLeft, hungUp, calls, limiter>>

\* Mutant: calls are made without a deadline.
TickPatient ==
    /\ calls' = [c \in Calls |-> IF calls[c] = None \/ calls[c].age = Timeout THEN calls[c]
                                 ELSE [calls[c] EXCEPT !.age = @ + 1]]
    /\ delayLeft' = IF delayLeft > 0 THEN delayLeft - 1 ELSE 0
    /\ IF service = "AuthService" /\ nextIn > 1
       THEN nextIn' = nextIn - 1 /\ UNCHANGED executions
       ELSE nextIn' = Interval /\ executions' = MaxExecutions
    /\ UNCHANGED <<service, health, state, outcomes, permits, upSince, hungUp>>

\* One unit of time.  It does not pass while the answer to a call is due: "up"
\* means to answer in time.
Tick ==
    /\ \A c \in InFlight : calls[c].age < Timeout
    /\ calls' = [c \in Calls |-> IF calls[c] = None THEN None
                                 ELSE [calls[c] EXCEPT !.age = @ + 1]]
    /\ delayLeft' = IF delayLeft > 0 THEN delayLeft - 1 ELSE 0
    /\ IF service = "AuthService" /\ nextIn > 1
       THEN nextIn' = nextIn - 1 /\ UNCHANGED executions
       ELSE nextIn' = Interval /\ executions' = MaxExecutions
    /\ UNCHANGED <<service, health, state, outcomes, permits, upSince, hungUp>>

Next ==
    \/ \E c \in Calls : Admit(c) \/ Serve(c) \/ Refuse(c) \/ Expire(c) \/ HangUp(c) \/ Return(c)
    \/ Health \/ Tick

\* Calls end: answered, refused or expired.  Nothing makes a client call or leave.
Fairness ==
    /\ WF_vars(Tick)
    /\ \A c \in Calls : /\ WF_vars(Serve(c)) /\ WF_vars(Return(c))
                        /\ WF_vars(Refuse(c)) /\ WF_vars(Expire(c))

Spec == Init /\ [][Next]_vars /\ Fairness

--------------------------------------------------------------------------------
(* Properties                                                              *)

\* All variables have their types, and the breaker keeps no more outcomes than
\* its state needs: a closed one's window, or the probes of a half-open one.
TypeOK ==
    /\ service \in Services /\ health \in {"up", "down", "stuck"}
    /\ state \in {"closed", "open", "half"}
    /\ outcomes \in Seq(BOOLEAN)
    /\ Len(outcomes) <= IF state = "half" THEN SuccessThreshold - 1 ELSE WindowSize
    /\ Failures(outcomes) < FailureThreshold
    /\ permits \in 0..SuccessThreshold
    /\ delayLeft \in 0..Delay
    /\ calls \in [Calls -> CallRecord \cup {None}]
    /\ executions \in 0..MaxExecutions /\ nextIn \in 1..Interval
    /\ upSince \in BOOLEAN /\ hungUp \in 0..SuccessThreshold

\* No permit of a half-open breaker is lost or made up: each is free or held by
\* a call in flight, since a record that leaves it half-open gives its permit
\* back, and the last of SuccessThreshold outcomes ends the state.  A call
\* admitted before the breaker opened is over by then, and cannot pass for a probe.
ProbesAccounted ==
    state = "half" =>
        /\ permits + Cardinality(InFlight) = SuccessThreshold
        /\ Len(outcomes) < SuccessThreshold

Gone == {c \in InFlight : calls[c].code = "Canceled"}

\* A half-open breaker closes only if the service was up at some time since it
\* opened, or if nothing but clients that left ended its probes: an answer from
\* before the failure is no evidence.
ClosesOnEvidence ==
    [][state = "half" /\ state' = "closed" =>
          \/ upSince
          \/ hungUp = SuccessThreshold - 1 /\ \E c \in Gone : Return(c)]_vars

KeepsCalling == WF_vars(\E c \in Calls : Admit(c))

Faultless ==
    health = "up" /\ \A c \in InFlight : calls[c].code \notin {"Internal", "ResourceExhausted"}

\* If the service is up for good and neither faults nor limits, and clients keep
\* calling, then the breaker closes and stays closed.
Recovers == KeepsCalling /\ <>[]Faultless => <>[](state = "closed")

\* If the service is down or stuck for good, clients keep calling, and from some
\* time on none leaves early, then the breaker opens and never closes again.
Trips ==
    KeepsCalling /\ <>[](health # "up" /\ Gone = {}) => <>[](state # "closed")

================================================================================
