---------------------- MODULE PhoneVerificationProofs ----------------------
(***************************************************************************)
(* Proofs about PhoneVerification for any set of phone numbers and any     *)
(* bounds: nothing is assumed but BoundsAssumption.                        *)
(***************************************************************************)
EXTENDS PhoneVerification, FiniteSetTheorems, TLAPS

Sms == [number : Numbers, again : BOOLEAN]

-----------------------------------------------------------------------------
(***************************************************************************)
(* Types.  That an SMS is only ever sent to a number somebody entered      *)
(* needs more than TypeOK: a request of PageLogin, and the page that shows *)
(* the number, exist only after OnLogin has stored one; and the resend     *)
(* under way, of which there is one at most, will find a timer to make.    *)
(***************************************************************************)
Phases ==
    /\ page = "confirm" => ~asking
    /\ loading => page = "confirm" /\ made < MaxTimers
    /\ asking \/ page = "confirm" => phoneNumber \in Numbers

TypeInv == TypeOK /\ Phases

LEMMA TypeInit == Init => TypeInv
<1>. SUFFICES ASSUME Init  PROVE TypeInv
  OBVIOUS
<1>. USE BoundsAssumption DEF Init
<1>1. sms \in Seq(Sms) /\ Len(sms) = 0
  OBVIOUS
<1>2. Wait \in Nat /\ MaxTimers \in Nat
  OBVIOUS
<1>3. /\ timers \subseteq 1 .. made /\ due \subseteq timers
      /\ open \subseteq 1 .. Len(sms)
  BY Zenon
<1>4. {spin, asking, loading, overtaken} \subseteq BOOLEAN
  BY Zenon
<1>5. TypeOK
  BY <1>1, <1>2, <1>3, <1>4 DEF TypeOK, Sms
<1>. QED  BY <1>5 DEF TypeInv, Phases

\* Another SMS: the ones before keep their ids.
LEMMA SmsAppended ==
    ASSUME TypeInv, phoneNumber \in Numbers, NEW b \in BOOLEAN,
           sms' = Append(sms, [number |-> phoneNumber, again |-> b])
    PROVE  /\ sms' \in Seq(Sms)
           /\ Len(sms) \in Nat /\ Len(sms') = Len(sms) + 1
           /\ \A i \in 1 .. Len(sms) : sms'[i] = sms[i]
           /\ sms'[Len(sms')] = [number |-> phoneNumber, again |-> b]
<1> DEFINE last == [number |-> phoneNumber, again |-> b]
<1>1. sms \in Seq(Sms) /\ last \in Sms
  BY DEF TypeInv, TypeOK, Sms
<1>2. sms' = Append(sms, last)
  OBVIOUS
<1>. HIDE DEF last
<1>3. /\ sms' \in Seq(Sms)
      /\ Len(sms) \in Nat /\ Len(sms') = Len(sms) + 1
      /\ \A i \in 1 .. Len(sms) : sms'[i] = sms[i]
      /\ sms'[Len(sms')] = last
  BY <1>1, <1>2
<1>. QED  BY <1>3 DEF last

LEMMA TypeStep == TypeInv /\ [Next]_vars => TypeInv'
<1>. SUFFICES ASSUME TypeInv, [Next]_vars  PROVE TypeInv'
  OBVIOUS
<1>. USE BoundsAssumption
<1>a. sms \in Seq(Sms) /\ Len(sms) \in Nat /\ Wait \in Nat /\ MaxTimers \in Nat
  BY DEF TypeInv, TypeOK, Sms
<1>1. ASSUME NEW n \in Numbers, OnLogin(n)  PROVE TypeInv'
  BY <1>1 DEF OnLogin, TypeInv, TypeOK, Phases, countdown
<1>2. CASE VerificationFailed
  BY <1>2 DEF VerificationFailed, TypeInv, TypeOK, Phases, countdown
<1>3. CASE VerifyPhoneThrows
  BY <1>3 DEF VerifyPhoneThrows, TypeInv, TypeOK, Phases, countdown
<1>4. CASE SmsOTPSent
  <2>1. phoneNumber \in Numbers
    BY <1>4 DEF SmsOTPSent, TypeInv, Phases
  <2>2. /\ sms' \in Seq(Sms)
        /\ Len(sms) \in Nat /\ Len(sms') = Len(sms) + 1
    BY <1>4, <2>1, SmsAppended DEF SmsOTPSent
  <2>3. verificationId' \in 0 .. Len(sms') /\ open' \subseteq 1 .. Len(sms')
    <3>1. /\ verificationId' = Len(sms') /\ open' = open \cup {Len(sms')}
          /\ open \subseteq 1 .. Len(sms)
      BY <1>4 DEF SmsOTPSent, IdSent, TypeInv, TypeOK
    <3>2. Len(sms') \in Nat /\ Len(sms) < Len(sms')
      BY <2>2
    <3>3. ASSUME NEW i \in open'  PROVE i \in 1 .. Len(sms')
      <4>1. i \in 1 .. Len(sms) \/ i = Len(sms')
        BY <3>1, Zenon
      <4>. QED  BY <4>1, <3>2, <1>a
    <3>4. open' \subseteq 1 .. Len(sms')
      BY <3>3, Zenon
    <3>5. verificationId' \in 0 .. Len(sms')
      BY <3>1, <3>2
    <3>. QED  BY <3>4, <3>5
  <2>4. TypeOK'
    BY <1>4, <2>1, <2>2, <2>3 DEF SmsOTPSent, TypeInv, TypeOK, Sms, countdown
  <2>5. Phases'
    BY <1>4, <2>1 DEF SmsOTPSent, TypeInv, Phases, countdown
  <2>. QED  BY <2>4, <2>5 DEF TypeInv
<1>5. ASSUME NEW id \in open, CodeAutoRetrievalTimeout(id)  PROVE TypeInv'
  <2>1. overtaken' \in BOOLEAN
    BY <1>5, Zenon DEF CodeAutoRetrievalTimeout
  <2>. QED  BY <1>5, <2>1, <1>a
            DEF CodeAutoRetrievalTimeout, TypeInv, TypeOK, Phases, countdown
<1>6. CASE LeaveLogin
  BY <1>6 DEF LeaveLogin, TypeInv, TypeOK, Phases, countdown
<1>7. CASE Resend
  BY <1>7 DEF Resend, TypeInv, TypeOK, Phases, countdown, login
<1>8. CASE Resent
  <2>1. phoneNumber \in Numbers /\ made < MaxTimers
    BY <1>8 DEF Resent, TypeInv, Phases
  <2>2. sms' \in Seq(Sms) /\ Len(sms') \in Nat /\ Len(sms) <= Len(sms')
    <3>1. CASE UNCHANGED sms
      BY <3>1, <1>a
    <3>2. CASE sms' = Append(sms, [number |-> phoneNumber, again |-> TRUE])
      <4>1. sms' \in Seq(Sms) /\ Len(sms') = Len(sms) + 1
        BY <3>2, <2>1, SmsAppended
      <4>. QED  BY <4>1, <1>a
    <3>. QED  BY <3>1, <3>2, <1>8 DEF Resent
  <2>3. verificationId' \in 0 .. Len(sms') /\ open' \subseteq 1 .. Len(sms')
    BY <1>8, <2>2, <1>a DEF Resent, TypeInv, TypeOK
  <2>4. /\ codeResend' \in 0 .. Wait /\ elapsed' \in 0 .. Wait
        /\ made' \in 0 .. MaxTimers
        /\ timers' \subseteq 1 .. made' /\ due' \subseteq timers'
    BY <1>8, <2>1 DEF Resent, OnStartCountdown, TypeInv, TypeOK
  <2>. QED  BY <1>8, <2>1, <2>2, <2>3, <2>4 DEF Resent, TypeInv, TypeOK, Phases, Sms
<1>9. ASSUME NEW t \in timers, Tick(t)  PROVE TypeInv'
  <2>1. codeResend' \in 0 .. Wait
    BY <1>9, <1>a DEF Tick, CountdownOver, Counted, TypeInv, TypeOK
  <2>2. timers' \subseteq timers /\ due' \subseteq timers'
    BY <1>9 DEF Tick, TypeInv, TypeOK
  <2>. QED  BY <1>9, <2>1, <2>2 DEF Tick, TypeInv, TypeOK, Phases, login
<1>10. CASE Second
  BY <1>10 DEF Second, TypeInv, TypeOK, Phases, login
<1>11. CASE LeaveConfirm
  <2>1. timers' \subseteq 1 .. made' /\ due' \subseteq timers'
    BY <1>11, Zenon DEF LeaveConfirm
  <2>2. loading' \in BOOLEAN /\ ~loading'
    BY <1>11, Zenon DEF LeaveConfirm
  <2>. QED  BY <1>11, <1>a, <2>1, <2>2 DEF LeaveConfirm, TypeInv, TypeOK, Phases
<1>12. CASE UNCHANGED vars
  BY <1>12 DEF vars, login, countdown, TypeInv, TypeOK, Phases
<1>. QED  BY <1>1, <1>2, <1>3, <1>4, <1>5, <1>6, <1>7, <1>8, <1>9, <1>10,
             <1>11, <1>12 DEF Next

LEMMA TypeInvariant == Spec => []TypeInv
BY TypeInit, TypeStep, PTL DEF Spec

(***************************************************************************)
(* Every state is well typed; in particular no SMS goes to a number that   *)
(* was never entered, and no countdown leaves 0 .. Wait.                   *)
(***************************************************************************)
THEOREM TypeCorrect == Spec => []TypeOK
<1>1. TypeInv => TypeOK
  BY DEF TypeInv
<1>. QED  BY <1>1, TypeInvariant, PTL

-----------------------------------------------------------------------------
(***************************************************************************)
(* The verification id.                                                    *)
(***************************************************************************)
LEMMA IdInit == Init => IdOfLastRequest
BY DEF Init, IdOfLastRequest

LEMMA IdStep == TypeInv /\ IdOfLastRequest /\ [Next]_vars => IdOfLastRequest'
<1>. SUFFICES ASSUME TypeInv, IdOfLastRequest, [Next]_vars,
                     page' = "confirm", ~overtaken'
              PROVE  /\ verificationId' \in Requested'
                     /\ \A i \in Requested' : i <= verificationId'
                     /\ sms'[verificationId'].number = phoneNumber'
  BY DEF IdOfLastRequest
<1>a. sms \in Seq(Sms) /\ Len(sms) \in Nat
  BY DEF TypeInv, TypeOK, Sms
<1>b. UNCHANGED <<page, overtaken, verificationId, sms, phoneNumber>> =>
          /\ verificationId' \in Requested'
          /\ \A i \in Requested' : i <= verificationId'
          /\ sms'[verificationId'].number = phoneNumber'
  BY DEF IdOfLastRequest, Requested
<1>1. ASSUME NEW n \in Numbers, OnLogin(n)  PROVE FALSE
  BY <1>1 DEF OnLogin
<1>2. CASE VerificationFailed
  BY <1>2, <1>b DEF VerificationFailed
<1>3. CASE VerifyPhoneThrows
  BY <1>3, <1>b DEF VerifyPhoneThrows
<1>4. CASE SmsOTPSent
  <2>1. phoneNumber \in Numbers
    BY <1>4 DEF SmsOTPSent, TypeInv, Phases
  <2>2. /\ Len(sms') = Len(sms) + 1
        /\ sms'[Len(sms')] = [number |-> phoneNumber, again |-> FALSE]
    BY <1>4, <2>1, SmsAppended DEF SmsOTPSent
  <2>3. verificationId' = Len(sms') /\ phoneNumber' = phoneNumber
    BY <1>4 DEF SmsOTPSent, IdSent
  <2>4. Len(sms') \in 1 .. Len(sms') /\ ~sms'[Len(sms')].again
    BY <2>2, <1>a
  <2>. QED  BY <2>2, <2>3, <2>4, <1>a DEF Requested
<1>5. ASSUME NEW id \in open, CodeAutoRetrievalTimeout(id)
      PROVE  UNCHANGED <<page, overtaken, verificationId, sms, phoneNumber>>
  <2>1. id = verificationId /\ ~overtaken
    BY <1>5, Zenon DEF CodeAutoRetrievalTimeout
  <2>2. overtaken \in BOOLEAN /\ overtaken' \in BOOLEAN
    BY <1>5, Zenon DEF CodeAutoRetrievalTimeout, TypeInv, TypeOK
  <2>3. overtaken' = overtaken
    BY <2>1, <2>2
  <2>. QED  BY <2>1, <2>3, <1>5 DEF CodeAutoRetrievalTimeout
<1>6. CASE LeaveLogin
  BY <1>6 DEF LeaveLogin
<1>7. CASE Resend
  BY <1>7, <1>b DEF Resend, login
<1>8. CASE Resent
  <2>1. /\ page = "confirm" /\ ~overtaken /\ phoneNumber \in Numbers
        /\ UNCHANGED <<phoneNumber, verificationId>>
    BY <1>8 DEF Resent, TypeInv, Phases
  <2>2. CASE UNCHANGED sms
    BY <2>1, <2>2, <1>8, <1>b DEF Resent
  <2>3. CASE sms' = Append(sms, [number |-> phoneNumber, again |-> TRUE])
    <3>1. /\ Len(sms') = Len(sms) + 1
          /\ \A i \in 1 .. Len(sms) : sms'[i] = sms[i]
          /\ sms'[Len(sms')].again
      BY <2>1, <2>3, SmsAppended
    <3>2. Requested' = Requested
      BY <3>1, <1>a DEF Requested
    <3>3. verificationId \in 1 .. Len(sms)
      BY <2>1 DEF IdOfLastRequest, Requested
    <3>. QED  BY <2>1, <3>1, <3>2, <3>3 DEF IdOfLastRequest
  <2>. QED  BY <2>2, <2>3, <1>8 DEF Resent
<1>9. ASSUME NEW t \in timers, Tick(t)
      PROVE  UNCHANGED <<page, overtaken, verificationId, sms, phoneNumber>>
  BY <1>9 DEF Tick, login
<1>10. CASE Second
  BY <1>10, <1>b DEF Second, login
<1>11. CASE LeaveConfirm
  BY <1>11 DEF LeaveConfirm
<1>12. CASE UNCHANGED vars
  BY <1>12, <1>b DEF vars, login
<1>. QED  BY <1>1, <1>2, <1>3, <1>4, <1>5, <1>6, <1>7, <1>8, <1>9, <1>10,
             <1>11, <1>12, <1>b DEF Next

(***************************************************************************)
(* The code is checked with the id of the last SMS PageLogin asked for,    *)
(* whatever requests, resends and timeouts overlap, as long as no timeout  *)
(* of an older SMS was the last to store its id (smsOTPSent and            *)
(* codeAutoRetrievalTimeout of AuthProvider.verifyPhone).                  *)
(***************************************************************************)
THEOREM CodeOfLastRequest == Spec => []IdOfLastRequest
BY TypeInvariant, IdInit, IdStep, PTL DEF Spec

-----------------------------------------------------------------------------
(***************************************************************************)
(* The countdown.  The two properties are inductive together with the      *)
(* types: the finite sets of timers, and due within them.                  *)
(***************************************************************************)
LEMMA CountdownInit == Init => CountdownRuns /\ CountdownSpeed
BY DEF Init, CountdownRuns, CountdownSpeed

LEMMA TimersFinite ==
    ASSUME TypeInv
    PROVE  /\ IsFiniteSet(timers) /\ IsFiniteSet(due)
           /\ Cardinality(timers) \in Nat /\ Cardinality(due) \in Nat
           /\ Cardinality(due) <= Cardinality(timers)
           /\ timers # {} => Cardinality(timers) >= 1
<1>1. made \in Nat /\ timers \in SUBSET (1 .. made) /\ due \in SUBSET timers
  BY BoundsAssumption DEF TypeInv, TypeOK
<1>2. IsFiniteSet(1 .. made)
  BY <1>1, FS_Interval
<1>3. IsFiniteSet(timers)
  BY <1>1, <1>2, FS_Subset
<1>4. IsFiniteSet(due) /\ Cardinality(due) <= Cardinality(timers)
  BY <1>1, <1>3, FS_Subset
<1>5. Cardinality(timers) \in Nat /\ Cardinality(due) \in Nat
  BY <1>3, <1>4, FS_CardinalityType
<1>6. timers # {} => Cardinality(timers) # 0
  BY <1>3, FS_EmptySet
<1>. QED  BY <1>3, <1>4, <1>5, <1>6

LEMMA CountdownStep ==
    TypeInv /\ CountdownRuns /\ CountdownSpeed /\ [Next]_vars =>
        CountdownRuns' /\ CountdownSpeed'
<1>. SUFFICES ASSUME TypeInv, CountdownRuns, CountdownSpeed, [Next]_vars
              PROVE  CountdownRuns' /\ CountdownSpeed'
  OBVIOUS
<1> DEFINE k == Cardinality(timers)
           d == Cardinality(due)
<1>a. /\ IsFiniteSet(timers) /\ IsFiniteSet(due)
      /\ k \in Nat /\ d \in Nat /\ d <= k
      /\ timers # {} => k >= 1
  BY TimersFinite
<1>b. /\ codeResend \in Nat /\ elapsed \in Nat /\ Wait \in Nat \ {0}
      /\ elapsed <= Wait /\ due \subseteq timers /\ made \in Nat
      /\ timers \subseteq 1 .. made
  BY BoundsAssumption DEF TypeInv, TypeOK
<1>c. codeResend > 0 => /\ Wait + d - (k - 1) <= codeResend + k * elapsed
                        /\ codeResend + k * elapsed <= Wait + d
  BY <1>a, <1>b DEF CountdownSpeed
<1>u. ASSUME UNCHANGED countdown  PROVE CountdownRuns' /\ CountdownSpeed'
  BY <1>u DEF countdown, CountdownRuns, CountdownSpeed
<1>1. ASSUME Resent  PROVE CountdownRuns' /\ CountdownSpeed'
  <2>1. /\ codeResend' = Wait /\ elapsed' = 0 /\ due' = due
        /\ timers' = timers \cup {made + 1}
    BY <1>1 DEF Resent, OnStartCountdown
  <2>2. Cardinality(timers') = k + 1
    <3>1. made + 1 \notin timers
      BY <1>b
    <3>. QED  BY <3>1, <2>1, <1>a, FS_AddElement
  <2>3. (k + 1) * 0 = 0
    BY <1>a
  <2>4. CountdownSpeed'
    BY <2>1, <2>2, <2>3, <1>a, <1>b DEF CountdownSpeed
  <2>. QED  BY <2>1, <2>4 DEF CountdownRuns
<1>2. ASSUME NEW t \in timers, Tick(t)  PROVE CountdownRuns' /\ CountdownSpeed'
  <2>1. CASE codeResend = 0
    <3>1. codeResend' = 0
      BY <2>1, <1>2 DEF Tick, CountdownOver
    <3>. QED  BY <3>1 DEF CountdownRuns, CountdownSpeed
  <2>2. CASE codeResend > 0
    <3>1. /\ t \in due /\ due' = due \ {t} /\ UNCHANGED <<timers, elapsed>>
          /\ codeResend' = codeResend - 1
      BY <2>2, <1>2, <1>b DEF Tick, CountdownOver, Counted
    <3>2. Cardinality(due') = d - 1
      BY <3>1, <1>a, FS_RemoveElement
    <3>3. k * elapsed \in Nat
      BY <1>a, <1>b
    <3> DEFINE p == k * elapsed
    <3>4. /\ Wait + d - (k - 1) <= codeResend + p
          /\ codeResend + p <= Wait + d
      BY <1>c, <2>2
    <3>. HIDE DEF p
    <3>5. (codeResend - 1) + p \in (Wait + (d - 1) - (k - 1)) .. (Wait + (d - 1))
      BY <3>3, <3>4, <1>a, <1>b DEF p
    <3>6. CountdownSpeed'
      BY <3>1, <3>2, <3>5 DEF CountdownSpeed, p
    <3>7. CountdownRuns'
      BY <2>2, <3>1 DEF CountdownRuns
    <3>. QED  BY <3>6, <3>7
  <2>. QED  BY <2>1, <2>2, <1>b
<1>3. ASSUME Second  PROVE CountdownRuns' /\ CountdownSpeed'
  <2>1. /\ due = {} /\ due' = timers /\ UNCHANGED <<codeResend, timers>>
        /\ elapsed' = IF elapsed < Wait THEN elapsed + 1 ELSE elapsed
    BY <1>3 DEF Second
  <2>2. CountdownRuns'
    BY <2>1 DEF CountdownRuns
  <2>3. CASE codeResend = 0
    BY <2>1, <2>2, <2>3 DEF CountdownSpeed
  <2>4. CASE codeResend > 0
    <3>1. d = 0 /\ k >= 1
      BY <2>1, <2>4, <1>a, FS_EmptySet DEF CountdownRuns
    <3>2. elapsed < Wait
      <4>1. SUFFICES ASSUME elapsed = Wait  PROVE FALSE
        BY <1>b
      <4>2. k * Wait >= Wait
        <5>1. k = 1 + (k - 1) /\ k - 1 \in Nat
          BY <3>1, <1>a
        <5>2. k * Wait = Wait + (k - 1) * Wait
          BY <5>1, <1>b
        <5>3. (k - 1) * Wait \in Nat
          BY <5>1, <1>b
        <5>. QED  BY <5>2, <5>3, <1>b
      <4>3. codeResend + k * Wait <= Wait
        BY <4>1, <1>c, <2>4, <3>1, <1>b
      <4>. QED  BY <4>2, <4>3, <2>4, <1>a, <1>b
    <3>3. k * (elapsed + 1) = k * elapsed + k /\ k * elapsed \in Nat
      BY <1>a, <1>b
    <3> DEFINE p == k * elapsed
    <3>4. /\ Wait + d - (k - 1) <= codeResend + p
          /\ codeResend + p <= Wait + d /\ p \in Nat
      BY <1>c, <2>4, <3>3
    <3>. HIDE DEF p
    <3>5. codeResend + (p + k) \in (Wait + k - (k - 1)) .. (Wait + k)
      BY <3>1, <3>4, <1>a, <1>b
    <3>6. k * (elapsed + 1) = p + k
      BY <3>3 DEF p
    <3>7. codeResend' + k * elapsed' \in (Wait + k - (k - 1)) .. (Wait + k)
      BY <3>5, <3>6, <3>2, <2>1
    <3>8. CountdownSpeed'
      BY <3>7, <2>1 DEF CountdownSpeed
    <3>. QED  BY <2>2, <3>8
  <2>. QED  BY <2>3, <2>4, <1>b
<1>4. ASSUME LeaveConfirm  PROVE CountdownRuns' /\ CountdownSpeed'
  BY <1>4 DEF LeaveConfirm, CountdownRuns, CountdownSpeed
<1>5. ASSUME \/ \E n \in Numbers : OnLogin(n)
             \/ VerificationFailed \/ VerifyPhoneThrows \/ SmsOTPSent
             \/ \E id \in open : CodeAutoRetrievalTimeout(id)
             \/ LeaveLogin \/ Resend \/ UNCHANGED vars
      PROVE  UNCHANGED countdown
  BY <1>5 DEF OnLogin, VerificationFailed, VerifyPhoneThrows, SmsOTPSent,
              CodeAutoRetrievalTimeout, LeaveLogin, Resend, vars
<1>. QED  BY <1>1, <1>2, <1>3, <1>4, <1>5, <1>u DEF Next

LEMMA CountdownInvariant == Spec => [](CountdownRuns /\ CountdownSpeed)
BY TypeInvariant, CountdownInit, CountdownStep, PTL DEF Spec

(***************************************************************************)
(* A resend button that shows seconds has a timer that counts them down,   *)
(* whatever resends, ticks and departures from the page overlap            *)
(* (PageLoginConfirm.onStartCountdown).                                    *)
(***************************************************************************)
THEOREM CountdownHasTimer == Spec => []CountdownRuns
BY CountdownInvariant, PTL

(***************************************************************************)
(* The speed of the countdown for any number of timers: one second per     *)
(* timer and second, so that a second timer halves the wait.               *)
(***************************************************************************)
THEOREM CountdownRate == Spec => []CountdownSpeed
BY CountdownInvariant, PTL

=============================================================================
