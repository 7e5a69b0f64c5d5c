----------------------- MODULE InvestorApiCallProofs -----------------------
(***************************************************************************)
(* Whatever the number of calls, retries, and the lengths of the deadlines *)
(* and of the credentials' lives: awaited requests carry live credentials, *)
(* deadlines stand, and InvestorApiCall keeps CallPromise.                 *)
(***************************************************************************)
EXTENDS InvestorApiCall, TLAPS

BeforeSend == {"idle", "credential", "refresh", "mint", "sign"}

(* A mutation has one attempt, and what became of its request decides how  *)
(* often it was carried out and what its caller may have been told.        *)
MutationSound(c) ==
  /\ pc[c] \notin {"backoff", "live"}
  /\ pc[c] \notin {"idle", "done"} => attempt[c] >= 1
  /\ pc[c] \in BeforeSend => request[c] = None
  /\ request[c] \in {None, "wire", "refused"} => carried[c] = 0
  /\ request[c] = "ok" => carried[c] = 1
  /\ carried[c] \in {0, 1}
  /\ pc[c] = "answer" => request[c] = "ok"
  /\ outcome[c] \in {"credential", "invalid"} => request[c] = None
  /\ outcome[c] = "answer" => request[c] = "ok"
  /\ outcome[c] = "refused" => request[c] = "refused"

(* A read or a connecting stream: its credentials outlive its deadline.    *)
TimedSound(c) ==
  /\ Timed(c) => left[c] <= Budget(kind[c])
  /\ pc[c] \in {"mint", "sign", "wait"} => bearer[c] > left[c]
  /\ pc[c] \in {"sign", "wait"} => assertion[c] > left[c]

CallSound(c) ==
  /\ (kind[c] = None) <=> (pc[c] = "idle")
  /\ (pc[c] = "done") <=> (outcome[c] # None)
  /\ kind[c] = None => request[c] = None
  /\ pc[c] = "error" => request[c] \in {"refused", "unavailable", "gateway"}
  /\ kind[c] # "mutation" => carried[c] = 0
  /\ kind[c] = "mutation" => MutationSound(c)
  /\ kind[c] \in {"read", "stream"} => TimedSound(c)

CallInv == TypeOK /\ \A c \in Calls : CallSound(c)

(* Every action of one call leaves the other calls as they are.            *)
LEMMA CallType ==
  ASSUME TypeOK, NEW c \in Calls, Call(c)
  PROVE  TypeOK'
BY NumbersAssumption DEF Call, Budget, TypeOK, Steps, Outcomes, Answers, Kinds, callVars, provider

LEMMA CallInvalidType ==
  ASSUME TypeOK, NEW c \in Calls, CallInvalid(c)
  PROVE  TypeOK'
BY NumbersAssumption DEF CallInvalid, TypeOK, Steps, Outcomes, Answers, Kinds, callVars, provider

LEMMA TakeCachedType ==
  ASSUME TypeOK, NEW c \in Calls, TakeCached(c)
  PROVE  TypeOK'
BY NumbersAssumption DEF TakeCached, Fresh, TypeOK, Steps, Outcomes, Answers, Kinds, callVars, provider

LEMMA AwaitRefreshType ==
  ASSUME TypeOK, NEW c \in Calls, AwaitRefresh(c)
  PROVE  TypeOK'
BY NumbersAssumption DEF AwaitRefresh, Goto, TypeOK, Steps, Outcomes, Answers, Kinds, callVars, provider

LEMMA MintType ==
  ASSUME TypeOK, NEW c \in Calls, Mint(c)
  PROVE  TypeOK'
BY NumbersAssumption DEF Mint, TypeOK, Steps, Outcomes, Answers, Kinds, callVars, provider

LEMMA MintFailsType ==
  ASSUME TypeOK, NEW c \in Calls, MintFails(c)
  PROVE  TypeOK'
BY NumbersAssumption DEF MintFails, End, DropCredentials, TypeOK, Steps, Outcomes, Answers, Kinds, callVars, provider

LEMMA SendType ==
  ASSUME TypeOK, NEW c \in Calls, Send(c)
  PROVE  TypeOK'
BY NumbersAssumption DEF Send, Goto, TypeOK, Steps, Outcomes, Answers, Kinds, callVars, provider

LEMMA ArriveType ==
  ASSUME TypeOK, NEW c \in Calls, Arrive(c)
  PROVE  TypeOK'
BY NumbersAssumption DEF Arrive, TypeOK, Steps, Outcomes, Answers, Kinds, callVars, provider

LEMMA FetchFailsRetryType ==
  ASSUME TypeOK, NEW c \in Calls, FetchFailsRetry(c)
  PROVE  TypeOK'
BY NumbersAssumption DEF FetchFailsRetry, Pause, DropCredentials, MaxAttempts, TypeOK, Steps, Outcomes, Answers, Kinds, callVars, provider

LEMMA FetchFailsType ==
  ASSUME TypeOK, NEW c \in Calls, FetchFails(c)
  PROVE  TypeOK'
BY NumbersAssumption DEF FetchFails, End, DropCredentials, TypeOK, Steps, Outcomes, Answers, Kinds, callVars, provider

LEMMA HeadersOkType ==
  ASSUME TypeOK, NEW c \in Calls, HeadersOk(c)
  PROVE  TypeOK'
BY NumbersAssumption DEF HeadersOk, HeadersDone, End, DropCredentials, TypeOK, Steps, Outcomes, Answers, Kinds, callVars, provider

LEMMA HeadersRetryType ==
  ASSUME TypeOK, NEW c \in Calls, HeadersRetry(c)
  PROVE  TypeOK'
BY NumbersAssumption DEF HeadersRetry, Pause, DropCredentials, MaxAttempts, TypeOK, Steps, Outcomes, Answers, Kinds, callVars, provider

LEMMA HeadersErrorType ==
  ASSUME TypeOK, NEW c \in Calls, HeadersError(c)
  PROVE  TypeOK'
BY NumbersAssumption DEF HeadersError, HeadersDone, DropCredentials, MustGiveUp, TypeOK, Steps, Outcomes, Answers, Kinds, callVars, provider

LEMMA HeadersGatewayType ==
  ASSUME TypeOK, NEW c \in Calls, HeadersGateway(c)
  PROVE  TypeOK'
BY NumbersAssumption DEF HeadersGateway, End, DropCredentials, TypeOK, Steps, Outcomes, Answers, Kinds, callVars, provider

LEMMA BodyType ==
  ASSUME TypeOK, NEW c \in Calls, CallSound(c), Body(c)
  PROVE  TypeOK'
BY NumbersAssumption DEF Body, CallSound, End, DropCredentials, TypeOK, Steps, Outcomes, Answers, Kinds, callVars, provider

LEMMA AnotherAttemptType ==
  ASSUME TypeOK, NEW c \in Calls, AnotherAttempt(c)
  PROVE  TypeOK'
BY NumbersAssumption DEF AnotherAttempt, TypeOK, Steps, Outcomes, Answers, Kinds, callVars, provider

LEMMA StreamEndsType ==
  ASSUME TypeOK, NEW c \in Calls, StreamEnds(c)
  PROVE  TypeOK'
BY NumbersAssumption DEF StreamEnds, End, DropCredentials, TypeOK, Steps, Outcomes, Answers, Kinds, callVars, provider

LEMMA AbortType ==
  ASSUME TypeOK, NEW c \in Calls, Abort(c), Active(c)
  PROVE  TypeOK'
BY NumbersAssumption DEF Abort, End, DropCredentials, AbortedAs, TypeOK, Steps, Outcomes, Answers, Kinds, callVars, provider, Active

(* The actions on all calls at once.                                       *)
LEMMA RefreshType ==
  ASSUME TypeOK, RefreshSucceeds \/ RefreshFails
  PROVE  TypeOK'
<1>1. CASE RefreshSucceeds
  <2>1. PICK life \in (Margin + 1)..TokenLife :
          /\ token' = life
          /\ bearer' = [c \in Calls |->
                          IF pc[c] = "refresh" THEN life ELSE bearer[c]]
    BY <1>1 DEF RefreshSucceeds
  <2>2. life \in Nat
    BY NumbersAssumption
  <2> QED
    BY <1>1, <2>1, <2>2 DEF RefreshSucceeds, TypeOK, Steps
<1>2. CASE RefreshFails
  BY <1>2 DEF RefreshFails, TypeOK, Steps, Outcomes
<1> QED
  BY <1>1, <1>2

LEMMA LessNat ==
  ASSUME NEW n \in Nat
  PROVE  Less(n) \in Nat /\ (n > 0 => Less(n) = n - 1) /\ Less(n) <= n
BY DEF Less

LEMMA TickType ==
  ASSUME TypeOK, Tick
  PROVE  TypeOK'
BY LessNat DEF Tick, TypeOK

(* ------------------------------------------------------------------------*)
(* Soundness of a call, action by action.                                  *)

(* ------------------------------------------------------------------------*)
(* Soundness of a call, action by action.                                  *)

(* ------------------------------------------------------------------------*)
(* Soundness of a call, action by action.                                  *)

(* ------------------------------------------------------------------------*)
(* Soundness of a call, action by action.                                  *)

(* ------------------------------------------------------------------------*)
(* Soundness of a call, action by action.                                  *)

LEMMA NoneDistinct ==
  /\ None \notin Outcomes /\ None \notin Kinds /\ None \notin Answers
  /\ None # "wire"
BY NoneAssumption

LEMMA Frame ==
  ASSUME NEW d \in Calls, CallSound(d),
         kind'[d] = kind[d], pc'[d] = pc[d], attempt'[d] = attempt[d],
         left'[d] = left[d], bearer'[d] = bearer[d],
         assertion'[d] = assertion[d], request'[d] = request[d],
         outcome'[d] = outcome[d], carried'[d] = carried[d]
  PROVE  CallSound(d)'
BY DEF CallSound, MutationSound, TimedSound, Timed, Active

(* A call that ends is sound if what its caller is told is true.           *)
LEMMA EndSound ==
  ASSUME TypeOK, NEW c \in Calls, NEW d \in Calls, CallSound(d), CallSound(c),
         NEW o \in Outcomes, End(c, o), UNCHANGED <<request, carried>>,
         pc[c] # "idle",
         o \in {"credential", "invalid"} /\ kind[c] = "mutation"
           => request[c] = None,
         o = "answer" /\ kind[c] = "mutation" => request[c] = "ok",
         o = "refused" /\ kind[c] = "mutation" => request[c] = "refused"
  PROVE  CallSound(d)'
<1>1. CASE d # c
  BY <1>1, Frame DEF End, DropCredentials, TypeOK
<1>2. CASE d = c
  <2>1. /\ pc'[c] = "done" /\ outcome'[c] = o /\ kind'[c] = kind[c]
        /\ request'[c] = request[c] /\ carried'[c] = carried[c]
    BY DEF End, TypeOK
  <2>2. kind[c] = "mutation" => MutationSound(c)'
    BY <2>1 DEF CallSound, MutationSound, BeforeSend
  <2>3. TimedSound(c)'
    BY <2>1 DEF TimedSound, Timed, Active
  <2> QED
    BY <1>2, <2>1, <2>2, <2>3, NoneDistinct DEF CallSound
<1> QED
  BY <1>1, <1>2

LEMMA CallMadeSound ==
  ASSUME TypeOK, NEW c \in Calls, Call(c), CallSound(c),
         NEW d \in Calls, CallSound(d)
  PROVE  CallSound(d)'
<1>1. CASE d # c
  BY <1>1, Frame DEF Call, Budget, callVars, provider, TypeOK
<1>2. CASE d = c
  BY <1>2, NoneDistinct, NumbersAssumption, MarginAssumption
  DEF Call, Budget, CallSound, MutationSound, TimedSound, BeforeSend, Timed, Active,
      callVars, provider, TypeOK, Kinds, Outcomes, Answers
<1> QED
  BY <1>1, <1>2

LEMMA CallInvalidSound ==
  ASSUME TypeOK, NEW c \in Calls, CallInvalid(c), CallSound(c),
         NEW d \in Calls, CallSound(d)
  PROVE  CallSound(d)'
<1>1. CASE d # c
  BY <1>1, Frame DEF CallInvalid, callVars, provider, TypeOK
<1>2. CASE d = c
  BY <1>2, NoneDistinct, NumbersAssumption, MarginAssumption
  DEF CallInvalid, CallSound, MutationSound, TimedSound, BeforeSend, Timed, Active,
      callVars, provider, TypeOK, Kinds, Outcomes, Answers
<1> QED
  BY <1>1, <1>2

LEMMA TakeCachedSound ==
  ASSUME TypeOK, NEW c \in Calls, TakeCached(c), CallSound(c),
         NEW d \in Calls, CallSound(d)
  PROVE  CallSound(d)'
<1>1. CASE d # c
  BY <1>1, Frame DEF TakeCached, Fresh, Budget, callVars, provider, TypeOK
<1>2. CASE d = c
  BY <1>2, NoneDistinct, NumbersAssumption, MarginAssumption
  DEF TakeCached, Fresh, Budget, CallSound, MutationSound, TimedSound, BeforeSend, Timed, Active,
      callVars, provider, TypeOK, Kinds, Outcomes, Answers
<1> QED
  BY <1>1, <1>2

LEMMA AwaitRefreshSound ==
  ASSUME TypeOK, NEW c \in Calls, AwaitRefresh(c), CallSound(c),
         NEW d \in Calls, CallSound(d)
  PROVE  CallSound(d)'
<1>1. CASE d # c
  BY <1>1, Frame DEF AwaitRefresh, Goto, callVars, provider, TypeOK
<1>2. CASE d = c
  BY <1>2, NoneDistinct, NumbersAssumption, MarginAssumption
  DEF AwaitRefresh, Goto, CallSound, MutationSound, TimedSound, BeforeSend, Timed, Active,
      callVars, provider, TypeOK, Kinds, Outcomes, Answers
<1> QED
  BY <1>1, <1>2

LEMMA MintSound ==
  ASSUME TypeOK, NEW c \in Calls, Mint(c), CallSound(c),
         NEW d \in Calls, CallSound(d)
  PROVE  CallSound(d)'
<1>1. CASE d # c
  BY <1>1, Frame DEF Mint, Budget, callVars, provider, TypeOK
<1>2. CASE d = c
  BY <1>2, NoneDistinct, NumbersAssumption, MarginAssumption
  DEF Mint, Budget, CallSound, MutationSound, TimedSound, BeforeSend, Timed, Active,
      callVars, provider, TypeOK, Kinds, Outcomes, Answers
<1> QED
  BY <1>1, <1>2

LEMMA MintFailsSound ==
  ASSUME TypeOK, NEW c \in Calls, MintFails(c), CallSound(c),
         NEW d \in Calls, CallSound(d)
  PROVE  CallSound(d)'
BY EndSound, NoneDistinct
DEF MintFails, CallSound, MutationSound, BeforeSend, Outcomes, provider

LEMMA SendSound ==
  ASSUME TypeOK, NEW c \in Calls, Send(c), CallSound(c),
         NEW d \in Calls, CallSound(d)
  PROVE  CallSound(d)'
<1>1. CASE d # c
  BY <1>1, Frame DEF Send, Goto, callVars, provider, TypeOK
<1>2. CASE d = c
  BY <1>2, NoneDistinct, NumbersAssumption, MarginAssumption
  DEF Send, Goto, CallSound, MutationSound, TimedSound, BeforeSend, Timed, Active,
      callVars, provider, TypeOK, Kinds, Outcomes, Answers
<1> QED
  BY <1>1, <1>2

LEMMA ArriveSound ==
  ASSUME TypeOK, NEW c \in Calls, Arrive(c), CallSound(c),
         NEW d \in Calls, CallSound(d)
  PROVE  CallSound(d)'
<1>1. CASE d # c
  BY <1>1, Frame DEF Arrive, callVars, provider, TypeOK
<1>2. CASE d = c
  BY <1>2, NoneDistinct, NumbersAssumption, MarginAssumption
  DEF Arrive, CallSound, MutationSound, TimedSound, BeforeSend, Timed, Active,
      callVars, provider, TypeOK, Kinds, Outcomes, Answers
<1> QED
  BY <1>1, <1>2

LEMMA FetchFailsRetrySound ==
  ASSUME TypeOK, NEW c \in Calls, FetchFailsRetry(c), CallSound(c),
         NEW d \in Calls, CallSound(d)
  PROVE  CallSound(d)'
<1>1. CASE d # c
  BY <1>1, Frame DEF FetchFailsRetry, Pause, DropCredentials, MaxAttempts, callVars, provider, TypeOK
<1>2. CASE d = c
  BY <1>2, NoneDistinct, NumbersAssumption, MarginAssumption
  DEF FetchFailsRetry, Pause, DropCredentials, MaxAttempts, CallSound, MutationSound, TimedSound, BeforeSend, Timed, Active,
      callVars, provider, TypeOK, Kinds, Outcomes, Answers
<1> QED
  BY <1>1, <1>2

LEMMA FetchFailsSound ==
  ASSUME TypeOK, NEW c \in Calls, FetchFails(c), CallSound(c),
         NEW d \in Calls, CallSound(d)
  PROVE  CallSound(d)'
BY EndSound, NoneDistinct
DEF FetchFails, CallSound, MutationSound, BeforeSend, Outcomes, provider

LEMMA HeadersOkSound ==
  ASSUME TypeOK, NEW c \in Calls, HeadersOk(c), CallSound(c),
         NEW d \in Calls, CallSound(d)
  PROVE  CallSound(d)'
<1>1. CASE End(c, "mismatch")
  BY <1>1, EndSound DEF HeadersOk, CallSound, Outcomes, provider
<1>2. CASE HeadersDone(c, IF kind[c] = "stream" THEN "live" ELSE "answer")
  <2>1. CASE d # c
    BY <1>2, <2>1, Frame DEF HeadersOk, HeadersDone, DropCredentials, provider, TypeOK
  <2>2. CASE d = c
    BY <1>2, <2>2, NoneDistinct
    DEF HeadersOk, HeadersDone, DropCredentials, CallSound, MutationSound,
        TimedSound, BeforeSend, Timed, Active, provider, TypeOK
  <2> QED
    BY <2>1, <2>2
<1> QED
  BY <1>1, <1>2 DEF HeadersOk

LEMMA HeadersRetrySound ==
  ASSUME TypeOK, NEW c \in Calls, HeadersRetry(c), CallSound(c),
         NEW d \in Calls, CallSound(d)
  PROVE  CallSound(d)'
<1>1. CASE d # c
  BY <1>1, Frame DEF HeadersRetry, Pause, DropCredentials, MaxAttempts, callVars, provider, TypeOK
<1>2. CASE d = c
  BY <1>2, NoneDistinct, NumbersAssumption, MarginAssumption
  DEF HeadersRetry, Pause, DropCredentials, MaxAttempts, CallSound, MutationSound, TimedSound, BeforeSend, Timed, Active,
      callVars, provider, TypeOK, Kinds, Outcomes, Answers
<1> QED
  BY <1>1, <1>2

LEMMA HeadersErrorSound ==
  ASSUME TypeOK, NEW c \in Calls, HeadersError(c), CallSound(c),
         NEW d \in Calls, CallSound(d)
  PROVE  CallSound(d)'
<1>1. CASE d # c
  BY <1>1, Frame DEF HeadersError, HeadersDone, DropCredentials, MustGiveUp, callVars, provider, TypeOK
<1>2. CASE d = c
  BY <1>2, NoneDistinct, NumbersAssumption, MarginAssumption
  DEF HeadersError, HeadersDone, DropCredentials, MustGiveUp, CallSound, MutationSound, TimedSound, BeforeSend, Timed, Active,
      callVars, provider, TypeOK, Kinds, Outcomes, Answers
<1> QED
  BY <1>1, <1>2

LEMMA HeadersGatewaySound ==
  ASSUME TypeOK, NEW c \in Calls, HeadersGateway(c), CallSound(c),
         NEW d \in Calls, CallSound(d)
  PROVE  CallSound(d)'
BY EndSound, NoneDistinct
DEF HeadersGateway, CallSound, MutationSound, BeforeSend, Outcomes, provider

LEMMA BodySound ==
  ASSUME TypeOK, NEW c \in Calls, Body(c), CallSound(c),
         NEW d \in Calls, CallSound(d)
  PROVE  CallSound(d)'
BY EndSound, NoneDistinct
DEF Body, CallSound, MutationSound, BeforeSend, Outcomes, provider

LEMMA AnotherAttemptSound ==
  ASSUME TypeOK, NEW c \in Calls, AnotherAttempt(c), CallSound(c),
         NEW d \in Calls, CallSound(d)
  PROVE  CallSound(d)'
<1>1. CASE d # c
  BY <1>1, Frame DEF AnotherAttempt, callVars, provider, TypeOK
<1>2. CASE d = c
  BY <1>2, NoneDistinct, NumbersAssumption, MarginAssumption
  DEF AnotherAttempt, CallSound, MutationSound, TimedSound, BeforeSend, Timed, Active,
      callVars, provider, TypeOK, Kinds, Outcomes, Answers
<1> QED
  BY <1>1, <1>2

LEMMA StreamEndsSound ==
  ASSUME TypeOK, NEW c \in Calls, StreamEnds(c), CallSound(c),
         NEW d \in Calls, CallSound(d)
  PROVE  CallSound(d)'
BY EndSound, NoneDistinct
DEF StreamEnds, CallSound, MutationSound, BeforeSend, Outcomes, provider

LEMMA AbortSound ==
  ASSUME TypeOK, NEW c \in Calls, Active(c), Abort(c), CallSound(c),
         NEW d \in Calls, CallSound(d)
  PROVE  CallSound(d)'
<1>1. pc[c] \in Steps \ {"idle", "done"}
  BY DEF Active, TypeOK
<1>2. CASE pc[c] \in {"credential", "refresh", "mint", "sign"}
  BY <1>2, EndSound DEF Abort, AbortedAs, CallSound, MutationSound, BeforeSend,
     Outcomes, provider
<1>3. CASE pc[c] \in {"wait", "answer", "error"}
  BY <1>3, EndSound DEF Abort, AbortedAs, Outcomes, provider
<1>4. CASE pc[c] = "backoff"
  BY <1>4, EndSound DEF Abort, AbortedAs, Outcomes, provider
<1>5. CASE pc[c] = "live"
  BY <1>5, EndSound DEF Abort, AbortedAs, CallSound, MutationSound, Outcomes, provider
<1> QED
  BY <1>1, <1>2, <1>3, <1>4, <1>5 DEF Steps

(* The shared fetch and the clock.                                         *)
LEMMA RefreshSound ==
  ASSUME TypeOK, RefreshSucceeds \/ RefreshFails, NEW d \in Calls, CallSound(d)
  PROVE  CallSound(d)'
<1>1. CASE pc[d] # "refresh"
  BY <1>1, Frame DEF RefreshSucceeds, RefreshFails, TypeOK
<1>2. CASE pc[d] = "refresh" /\ RefreshFails
  BY <1>2, NoneDistinct
  DEF RefreshFails, CallSound, MutationSound, TimedSound, BeforeSend, Timed,
      Active, TypeOK, Outcomes
<1>3. CASE pc[d] = "refresh" /\ RefreshSucceeds
  <2>1. PICK life \in (Margin + 1)..TokenLife :
          bearer' = [c \in Calls |-> IF pc[c] = "refresh" THEN life ELSE bearer[c]]
    BY <1>3 DEF RefreshSucceeds
  <2>2. /\ life \in Nat /\ life > Margin
        /\ pc'[d] = "mint" /\ bearer'[d] = life /\ kind'[d] = kind[d]
        /\ attempt'[d] = attempt[d] /\ left'[d] = left[d]
        /\ request'[d] = request[d] /\ outcome'[d] = outcome[d]
        /\ carried'[d] = carried[d]
    BY <1>3, <2>1, NumbersAssumption DEF RefreshSucceeds, TypeOK
  <2>3. kind[d] = "mutation" => MutationSound(d)'
    BY <1>3, <2>2 DEF CallSound, MutationSound, BeforeSend
  <2>4. ASSUME kind[d] \in {"read", "stream"}  PROVE TimedSound(d)'
    <3>1. left[d] <= Budget(kind[d]) /\ Budget(kind[d]) <= Margin
          /\ Budget(kind[d]) \in Nat
      BY <1>3, <2>4, NumbersAssumption, MarginAssumption
      DEF CallSound, TimedSound, Timed, Active, Budget
    <3>2. life > left[d]
      BY <2>2, <3>1, NumbersAssumption DEF TypeOK
    <3> QED
      BY <2>2, <3>1, <3>2 DEF TimedSound, Budget
  <2> QED
    BY <1>3, <2>2, <2>3, <2>4 DEF CallSound
<1> QED
  BY <1>1, <1>2, <1>3

LEMMA TickSound ==
  ASSUME TypeOK, Tick, NEW d \in Calls, CallSound(d)
  PROVE  CallSound(d)'
<1>1. /\ kind'[d] = kind[d] /\ pc'[d] = pc[d] /\ attempt'[d] = attempt[d]
      /\ request'[d] = request[d] /\ outcome'[d] = outcome[d]
      /\ carried'[d] = carried[d]
      /\ left'[d] = Less(left[d]) /\ bearer'[d] = Less(bearer[d])
      /\ assertion'[d] = Less(assertion[d])
      /\ Timed(d) => left[d] > 0
  BY DEF Tick
<1>2. kind[d] = "mutation" => MutationSound(d)'
  BY <1>1 DEF CallSound, MutationSound
<1>3. ASSUME kind[d] \in {"read", "stream"}  PROVE TimedSound(d)'
  <2>1. /\ left[d] \in Nat /\ bearer[d] \in Nat /\ assertion[d] \in Nat
        /\ Budget(kind[d]) \in Nat
    BY <1>3, NumbersAssumption DEF TypeOK, Budget
  <2>2. Timed(d)' => Timed(d)
    BY <1>1 DEF Timed, Active
  <2>3. pc[d] \in {"mint", "sign", "wait"} => Timed(d)
    BY <1>3 DEF Timed, Active
  <2>4. Budget(kind[d])' = Budget(kind[d])
    BY <1>1 DEF Budget
  <2> QED
    BY <1>1, <1>3, <2>1, <2>2, <2>3, <2>4, LessNat DEF CallSound, TimedSound, Less
<1> QED
  BY <1>1, <1>2, <1>3 DEF CallSound

LEMMA Initial == Init => CallInv
<1> SUFFICES ASSUME Init PROVE CallInv
  OBVIOUS
<1>1. TypeOK
  BY DEF Init, TypeOK, Steps
<1>2. ASSUME NEW c \in Calls PROVE CallSound(c)
  <2>1. /\ kind[c] = None /\ pc[c] = "idle" /\ outcome[c] = None
        /\ request[c] = None /\ carried[c] = 0
    BY DEF Init
  <2> QED
    BY <2>1, NoneDistinct DEF CallSound, Kinds
<1> QED
  BY <1>1, <1>2 DEF CallInv

(* One case per action.                                                    *)
LEMMA Inductive == CallInv /\ [Next]_vars => CallInv'
<1> SUFFICES ASSUME CallInv, [Next]_vars PROVE CallInv'
  OBVIOUS
<1> USE DEF CallInv
<1>1. ASSUME NEW c \in Calls, Call(c)  PROVE CallInv'
  BY <1>1, CallType, CallMadeSound
<1>2. ASSUME NEW c \in Calls, CallInvalid(c)  PROVE CallInv'
  BY <1>2, CallInvalidType, CallInvalidSound
<1>3. ASSUME NEW c \in Calls, TakeCached(c)  PROVE CallInv'
  BY <1>3, TakeCachedType, TakeCachedSound
<1>4. ASSUME NEW c \in Calls, AwaitRefresh(c)  PROVE CallInv'
  BY <1>4, AwaitRefreshType, AwaitRefreshSound
<1>5. ASSUME NEW c \in Calls, Mint(c)  PROVE CallInv'
  BY <1>5, MintType, MintSound
<1>6. ASSUME NEW c \in Calls, MintFails(c)  PROVE CallInv'
  BY <1>6, MintFailsType, MintFailsSound
<1>7. ASSUME NEW c \in Calls, Send(c)  PROVE CallInv'
  BY <1>7, SendType, SendSound
<1>8. ASSUME NEW c \in Calls, Arrive(c)  PROVE CallInv'
  BY <1>8, ArriveType, ArriveSound
<1>9. ASSUME NEW c \in Calls, FetchFailsRetry(c)  PROVE CallInv'
  BY <1>9, FetchFailsRetryType, FetchFailsRetrySound
<1>10. ASSUME NEW c \in Calls, FetchFails(c)  PROVE CallInv'
  BY <1>10, FetchFailsType, FetchFailsSound
<1>11. ASSUME NEW c \in Calls, HeadersOk(c)  PROVE CallInv'
  BY <1>11, HeadersOkType, HeadersOkSound
<1>12. ASSUME NEW c \in Calls, HeadersRetry(c)  PROVE CallInv'
  BY <1>12, HeadersRetryType, HeadersRetrySound
<1>13. ASSUME NEW c \in Calls, HeadersError(c)  PROVE CallInv'
  BY <1>13, HeadersErrorType, HeadersErrorSound
<1>14. ASSUME NEW c \in Calls, HeadersGateway(c)  PROVE CallInv'
  BY <1>14, HeadersGatewayType, HeadersGatewaySound
<1>15. ASSUME NEW c \in Calls, Body(c)  PROVE CallInv'
  BY <1>15, BodyType, BodySound
<1>16. ASSUME NEW c \in Calls, AnotherAttempt(c)  PROVE CallInv'
  BY <1>16, AnotherAttemptType, AnotherAttemptSound
<1>17. ASSUME NEW c \in Calls, StreamEnds(c)  PROVE CallInv'
  BY <1>17, StreamEndsType, StreamEndsSound
<1>18. ASSUME NEW c \in Calls, Abort(c), Active(c)  PROVE CallInv'
  BY <1>18, AbortType, AbortSound
<1>19. CASE RefreshSucceeds \/ RefreshFails
  BY <1>19, RefreshType, RefreshSound
<1>20. CASE Tick
  BY <1>20, TickType, TickSound
<1>21. CASE UNCHANGED vars
  <2>1. TypeOK'
    BY <1>21 DEF vars, callVars, provider, TypeOK
  <2>2. \A d \in Calls : CallSound(d)'
    BY <1>21, Frame DEF vars, callVars, provider
  <2> QED
    BY <2>1, <2>2
<1> QED
  BY <1>1, <1>2, <1>3, <1>4, <1>5, <1>6, <1>7, <1>8, <1>9, <1>10, <1>11, <1>12, <1>13, <1>14, <1>15, <1>16, <1>17, <1>18, <1>19, <1>20, <1>21 DEF Next, Step, Network, DeadlinePasses, CallerAborts, Timed

(* The invariant, for every run.                                           *)
THEOREM Invariance == Spec => []CallInv
BY Initial, Inductive, PTL DEF Spec

(* An awaited request under a deadline carries live credentials: the margin*)
(* of the token cache, and the life of an assertion, outlast the deadline. *)
THEOREM Freshness == Spec => []FreshOnTheWire
<1>1. CallInv => FreshOnTheWire
  <2> SUFFICES ASSUME CallInv, NEW c \in Calls, kind[c] # "mutation", pc[c] = "wait"
               PROVE  bearer[c] > 0 /\ assertion[c] > 0
    BY DEF FreshOnTheWire
  <2>1. kind[c] \in {"read", "stream"}
    BY DEF CallInv, CallSound, TypeOK, Kinds
  <2> QED
    BY <2>1 DEF CallInv, CallSound, TimedSound, TypeOK
<1> QED
  BY <1>1, Invariance, PTL


(* No step moves a deadline.                                               *)
LEMMA LeftStep ==
  ASSUME CallInv, [Next]_vars, NEW c \in Calls, Timed(c)
  PROVE  left'[c] <= left[c]
<1>1. left[c] \in Nat /\ 0 <= left[c]
  BY DEF CallInv, TypeOK
<1>2. ASSUME NEW d \in Calls, Call(d) \/ CallInvalid(d)  PROVE left'[c] <= left[c]
  BY <1>1, <1>2 DEF Call, CallInvalid, Timed, Active, CallInv, TypeOK
<1>3. ASSUME NEW d \in Calls, \E o \in Outcomes : End(d, o)  PROVE left'[c] <= left[c]
  BY <1>1, <1>3 DEF End, CallInv, TypeOK
<1>4. ASSUME NEW d \in Calls, \E s \in Steps : Goto(d, s) \/ HeadersDone(d, s)
      PROVE  left'[c] <= left[c]
  BY <1>1, <1>4 DEF Goto, HeadersDone, CallInv, TypeOK
<1>5. ASSUME UNCHANGED left  PROVE left'[c] <= left[c]
  BY <1>1, <1>5
<1>6. ASSUME RefreshSucceeds \/ RefreshFails \/ Tick  PROVE left'[c] <= left[c]
  BY <1>1, <1>6, LessNat DEF RefreshSucceeds, RefreshFails, Tick
<1>7. ASSUME NEW d \in Calls, Step(d)  PROVE left'[c] <= left[c]
  <2>1. CASE TakeCached(d) \/ Mint(d) \/ AnotherAttempt(d)
    BY <2>1, <1>5 DEF TakeCached, Mint, AnotherAttempt
  <2>2. CASE AwaitRefresh(d)
    BY <2>2, <1>4 DEF AwaitRefresh, Steps
  <2>3. CASE DeadlinePasses(d)
    BY <2>3, <1>3 DEF DeadlinePasses, Abort, AbortedAs, Outcomes
  <2> QED
    BY <1>7, <2>1, <2>2, <2>3 DEF Step
<1>8. ASSUME NEW d \in Calls, Network(d)  PROVE left'[c] <= left[c]
  <2>1. CASE Arrive(d) \/ FetchFailsRetry(d) \/ HeadersRetry(d)
    BY <2>1, <1>5 DEF Arrive, FetchFailsRetry, HeadersRetry, Pause, callVars
  <2>2. CASE Send(d) \/ HeadersError(d)
    BY <2>2, <1>4 DEF Send, HeadersError, Steps
  <2>3. CASE HeadersOk(d)
    BY <2>3, <1>3, <1>4 DEF HeadersOk, Steps, Outcomes
  <2>4. CASE MintFails(d) \/ FetchFails(d) \/ HeadersGateway(d) \/ StreamEnds(d)
    BY <2>4, <1>3 DEF MintFails, FetchFails, HeadersGateway, StreamEnds, Outcomes
  <2>5. CASE Body(d)
    BY <2>5, <1>3 DEF Body, Outcomes, CallInv, CallSound
  <2> QED
    BY <1>8, <2>1, <2>2, <2>3, <2>4, <2>5 DEF Network
<1>9. ASSUME NEW d \in Calls, CallerAborts(d)  PROVE left'[c] <= left[c]
  BY <1>9, <1>3 DEF CallerAborts, Abort, AbortedAs, Outcomes
<1> QED
  BY <1>2, <1>5, <1>6, <1>7, <1>8, <1>9 DEF Next, vars, callVars

(* Whatever is retried, the deadline set at the call stands.               *)
THEOREM DeadlineStands == Spec => OneDeadline
<1>1. CallInv /\ [Next]_vars =>
        [\A c \in Calls : Timed(c) /\ Timed(c)' => left'[c] <= left[c]]_vars
  BY LeftStep
<1> QED
  BY <1>1, Invariance, PTL DEF Spec, OneDeadline


(* ------------------------------------------------------------------------*)
(* Every step is a step of CallPromise, or changes nothing it speaks of.   *)

Told == [c \in Calls |-> Verdict(c)]
Kept == Promise!Next \/ UNCHANGED <<Told, carried>>

LEMMA Mute ==
  ASSUME \A c \in Calls : Verdict(c)' = Verdict(c), UNCHANGED carried
  PROVE  Kept
BY DEF Kept, Told

LEMMA Concludes ==
  ASSUME NEW S \in SUBSET Calls, NEW v \in {"applied", "refused", "unsent", "unknown"},
         \A c \in S : /\ Verdict(c) = "pending"
                      /\ v = "applied" => carried[c] = 1
                      /\ v \in {"refused", "unsent"} => carried[c] = 0,
         \A c \in Calls : Verdict(c)' = IF c \in S THEN v ELSE Verdict(c),
         UNCHANGED carried
  PROVE  Kept
<1>1. Promise!Conclude(S, v)
  BY DEF Promise!Conclude
<1> QED
  BY <1>1 DEF Kept, Promise!Next, Promise!Verdicts

(* A call that ends tells its caller the truth.                            *)
LEMMA EndKept ==
  ASSUME CallInv, NEW c \in Calls, NEW o \in Outcomes, End(c, o),
         UNCHANGED <<request, carried>>, pc[c] \notin {"idle", "done"},
         o \in {"credential", "invalid"} /\ kind[c] = "mutation"
           => request[c] = None,
         o = "answer" /\ kind[c] = "mutation" => request[c] = "ok",
         o = "refused" /\ kind[c] = "mutation" => request[c] = "refused"
  PROVE  Kept
<1>1. \A d \in Calls : d # c => Verdict(d)' = Verdict(d)
  BY DEF End, Verdict, CallInv, TypeOK
<1>2. outcome'[c] = o /\ kind'[c] = kind[c] /\ outcome[c] = None /\ CallSound(c)
  BY DEF End, CallInv, CallSound, TypeOK
<1>3. CASE kind[c] # "mutation"
  BY <1>1, <1>2, <1>3, Mute DEF Verdict
<1>4. CASE kind[c] = "mutation"
  <2>1. Verdict(c) = "pending" /\ Verdict(c)' # "pending"
    BY <1>2, <1>4, NoneDistinct DEF Verdict
  <2>2. Verdict(c)' \in {"applied", "refused", "unsent", "unknown"}
    BY <1>2, <1>4, NoneDistinct DEF Verdict
  <2>3. /\ Verdict(c)' = "applied" => o = "answer"
        /\ Verdict(c)' = "refused" => o = "refused"
        /\ Verdict(c)' = "unsent" => o \in {"credential", "invalid"}
    BY <1>2, <1>4, NoneDistinct DEF Verdict
  <2>4. /\ Verdict(c)' = "applied" => carried[c] = 1
        /\ Verdict(c)' \in {"refused", "unsent"} => carried[c] = 0
    BY <1>2, <1>4, <2>3 DEF CallSound, MutationSound
  <2> QED
    <3> DEFINE v == Verdict(c)'
    <3>1. \A d \in Calls : Verdict(d)' = IF d \in {c} THEN v ELSE Verdict(d)
      BY <1>1
    <3>2. v \in {"applied", "refused", "unsent", "unknown"}
      BY <2>2
    <3>3. \A d \in {c} : /\ Verdict(d) = "pending"
                         /\ v = "applied" => carried[d] = 1
                         /\ v \in {"refused", "unsent"} => carried[d] = 0
      BY <2>1, <2>4
    <3> HIDE DEF v
    <3> QED
      BY <3>1, <3>2, <3>3, Concludes
<1> QED
  BY <1>3, <1>4

LEMMA MuteStep ==
  ASSUME UNCHANGED <<kind, outcome, carried>>
  PROVE  Kept
BY Mute DEF Verdict

LEMMA CallKept ==
  ASSUME CallInv, NEW c \in Calls, Call(c) \/ CallInvalid(c)
  PROVE  Kept
<1>1. /\ pc[c] = "idle" /\ outcome[c] = None /\ request[c] = None
      /\ carried[c] = 0 /\ kind[c] # "mutation"
  BY NoneDistinct DEF Call, CallInvalid, CallInv, CallSound, TypeOK, Kinds
<1>2. \A d \in Calls : d # c => Verdict(d)' = Verdict(d)
  BY DEF Call, CallInvalid, Verdict, CallInv, TypeOK
<1>3. CASE Call(c)
  <2>1. Verdict(c)' = Verdict(c)
    BY <1>1, <1>3 DEF Call, Verdict
  <2> QED
    BY <1>2, <1>3, <2>1, Mute DEF Call
<1>4. CASE CallInvalid(c)
  <2>1. outcome'[c] = "invalid" /\ kind'[c] = "mutation"
    BY <1>4 DEF CallInvalid, CallInv, TypeOK
  <2>2. Verdict(c) = "pending" /\ Verdict(c)' = "unsent"
    BY <1>1, <2>1, NoneDistinct DEF Verdict, Outcomes
  <2>3. \A d \in Calls : Verdict(d)' = IF d \in {c} THEN "unsent" ELSE Verdict(d)
    BY <1>2, <2>2
  <2> QED
    BY <1>1, <1>4, <2>2, <2>3, Concludes DEF CallInvalid
<1> QED
  BY <1>3, <1>4

LEMMA ArriveKept ==
  ASSUME CallInv, NEW c \in Calls, Arrive(c)
  PROVE  Kept
<1>1. \A d \in Calls : Verdict(d)' = Verdict(d)
  BY DEF Arrive, Verdict, callVars
<1>2. CASE UNCHANGED carried
  BY <1>1, <1>2, Mute
<1>3. CASE kind[c] = "mutation" /\ carried' = [carried EXCEPT ![c] = @ + 1]
  <2>1. CallSound(c) /\ request[c] = "wire"
    BY DEF CallInv, Arrive
  <2>2. carried[c] = 0 /\ carried' = [carried EXCEPT ![c] = 1]
    <3>1. MutationSound(c)
      BY <1>3, <2>1 DEF CallSound
    <3>2. carried[c] = 0
      BY <2>1, <3>1 DEF MutationSound
    <3> QED
      BY <1>3, <3>2
  <2>3. outcome[c] \notin {"credential", "invalid", "answer", "refused"}
    BY <1>3, <2>1, NoneDistinct DEF CallSound, MutationSound
  <2>4. Verdict(c) \in {"pending", "unknown"}
    BY <2>3 DEF Verdict
  <2>5. UNCHANGED Told
    BY <1>1 DEF Told
  <2>6. Promise!Carry(c)
    BY <2>2, <2>4, <2>5 DEF Promise!Carry, Told
  <2> QED
    BY <2>6 DEF Kept, Promise!Next
<1> QED
  BY <1>2, <1>3 DEF Arrive

LEMMA RefreshKept ==
  ASSUME CallInv, RefreshSucceeds \/ RefreshFails
  PROVE  Kept
<1>1. CASE RefreshSucceeds
  BY <1>1, MuteStep DEF RefreshSucceeds
<1>2. CASE RefreshFails
  <2> DEFINE S == {c \in Calls : pc[c] = "refresh" /\ kind[c] = "mutation"}
  <2>1. \A c \in Calls :
          /\ kind'[c] = kind[c]
          /\ outcome'[c] = IF pc[c] = "refresh" THEN "credential" ELSE outcome[c]
          /\ pc[c] = "refresh" => outcome[c] = None
          /\ pc[c] = "refresh" /\ kind[c] = "mutation" => carried[c] = 0
    BY <1>2 DEF RefreshFails, CallInv, CallSound, MutationSound, BeforeSend
  <2>2. \A c \in Calls : Verdict(c)' = IF c \in S THEN "unsent" ELSE Verdict(c)
    BY <2>1, NoneDistinct DEF Verdict, Outcomes
  <2>3. \A c \in S : Verdict(c) = "pending" /\ carried[c] = 0
    BY <2>1 DEF Verdict
  <2>4. S \in SUBSET Calls /\ UNCHANGED carried
    BY <1>2 DEF RefreshFails
  <2> HIDE DEF S
  <2> QED
    BY <2>2, <2>3, <2>4, Concludes
<1> QED
  BY <1>1, <1>2

LEMMA AbortKept ==
  ASSUME CallInv, NEW c \in Calls, Active(c), Abort(c)
  PROVE  Kept
<1>1. CallSound(c) /\ pc[c] \in Steps \ {"idle", "done"}
  BY DEF CallInv, Active, TypeOK
<1>2. CASE pc[c] \in {"credential", "refresh", "mint", "sign"}
  BY <1>1, <1>2, EndKept DEF Abort, AbortedAs, CallSound, MutationSound, BeforeSend,
     Outcomes
<1>3. CASE pc[c] \in {"wait", "answer", "error"}
  BY <1>1, <1>3, EndKept DEF Abort, AbortedAs, Outcomes
<1>4. CASE pc[c] = "backoff"
  BY <1>1, <1>4, EndKept DEF Abort, AbortedAs, Outcomes
<1>5. CASE pc[c] = "live"
  BY <1>1, <1>5, EndKept DEF Abort, AbortedAs, CallSound, MutationSound, Outcomes
<1> QED
  BY <1>1, <1>2, <1>3, <1>4, <1>5 DEF Steps

LEMMA StepKept == CallInv /\ [Next]_vars => Kept
<1> SUFFICES ASSUME CallInv, [Next]_vars PROVE Kept
  OBVIOUS
<1>1. ASSUME NEW c \in Calls, Step(c)  PROVE Kept
  <2>1. CASE TakeCached(c) \/ Mint(c) \/ AnotherAttempt(c) \/ AwaitRefresh(c)
    BY <2>1, MuteStep DEF TakeCached, Mint, AnotherAttempt, AwaitRefresh, Goto
  <2>2. CASE DeadlinePasses(c)
    BY <2>2, AbortKept DEF DeadlinePasses, Timed
  <2> QED
    BY <1>1, <2>1, <2>2 DEF Step
<1>2. ASSUME NEW c \in Calls, Network(c)  PROVE Kept
  <2>1. CASE Arrive(c)
    BY <2>1, ArriveKept
  <2>2. CASE FetchFailsRetry(c) \/ HeadersRetry(c) \/ Send(c) \/ HeadersError(c)
    BY <2>2, MuteStep
    DEF FetchFailsRetry, HeadersRetry, Pause, Send, Goto, HeadersError, HeadersDone
  <2>3. CASE HeadersOk(c)
    <3>1. CASE End(c, "mismatch")
      BY <2>3, <3>1, EndKept DEF HeadersOk, Outcomes
    <3>2. CASE ~End(c, "mismatch")
      BY <2>3, <3>2, MuteStep DEF HeadersOk, HeadersDone
    <3> QED
      BY <3>1, <3>2
  <2>4. CASE MintFails(c)
    BY <2>4, EndKept DEF MintFails, CallInv, CallSound, MutationSound, BeforeSend,
       Outcomes
  <2>5. CASE FetchFails(c) \/ HeadersGateway(c)
    BY <2>5, EndKept DEF FetchFails, HeadersGateway, Outcomes
  <2>6. CASE StreamEnds(c)
    BY <2>6, EndKept DEF StreamEnds, CallInv, CallSound, MutationSound, Outcomes
  <2>7. CASE Body(c)
    <3>1. CallSound(c)
      BY DEF CallInv
    <3>2. CASE pc[c] = "answer" /\ End(c, "answer")
      BY <2>7, <3>1, <3>2, EndKept DEF Body, CallSound, MutationSound, Outcomes
    <3>3. CASE pc[c] = "error" /\ request[c] # "gateway" /\ End(c, request[c])
      BY <2>7, <3>1, <3>3, EndKept DEF Body, CallSound, Outcomes
    <3>4. CASE pc[c] \in {"answer", "error"} /\ End(c, "mismatch")
      BY <2>7, <3>4, EndKept DEF Body, Outcomes
    <3>5. CASE pc[c] \in {"answer", "error"} /\ End(c, "transport")
      BY <2>7, <3>5, EndKept DEF Body, Outcomes
    <3> QED
      BY <2>7, <3>2, <3>3, <3>4, <3>5 DEF Body
  <2> QED
    BY <1>2, <2>1, <2>2, <2>3, <2>4, <2>5, <2>6, <2>7 DEF Network
<1>3. ASSUME NEW c \in Calls, Call(c) \/ CallInvalid(c) \/ CallerAborts(c)
      PROVE  Kept
  BY <1>3, CallKept, AbortKept DEF CallerAborts
<1>4. CASE Tick \/ UNCHANGED vars
  BY <1>4, MuteStep DEF Tick, vars, callVars
<1> QED
  BY <1>1, <1>2, <1>3, <1>4, RefreshKept DEF Next

(* Whatever fails, a mutation is carried out at most once and its caller is*)
(* never told what is not so.                                              *)
THEOREM Refinement == Spec => SaidIsTrue
<1>1. Init => Promise!Init
  <2> SUFFICES ASSUME Init PROVE Promise!Init
    OBVIOUS
  <2>1. \A c \in Calls : Verdict(c) = "pending"
    BY DEF Init, Verdict
  <2> QED
    BY <2>1 DEF Init, Promise!Init
<1>2. CallInv /\ [Next]_vars => [Promise!Next]_<<Told, carried>>
  BY StepKept DEF Kept
<1> QED
  BY <1>1, <1>2, Invariance, PTL DEF Spec, SaidIsTrue, Promise!Spec, Told

=============================================================================
