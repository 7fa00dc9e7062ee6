------------------------- MODULE PhoneVerification -------------------------
(***************************************************************************)
(* The verification of a phone number: PageLogin's request and callbacks,  *)
(* PageLoginConfirm's resend button with its countdown, and the            *)
(* verificationId that AuthProvider keeps for the code.                    *)
(*                                                                         *)
(* Firebase sends an SMS under a verification id of its own; a code is     *)
(* accepted only with the id of the SMS it came in.  Ids are the positions *)
(* of the SMS in sms.                                                      *)
(***************************************************************************)
EXTENDS Integers, Sequences, FiniteSets

CONSTANTS
    Numbers,    \* phone numbers the user may enter
    NoNumber,
    Wait,       \* seconds between two resends (30)
    MaxSms,     \* bound on SMS sent
    MaxTimers   \* bound on countdown timers created

ASSUME BoundsAssumption == {Wait, MaxSms, MaxTimers} \subseteq Nat \ {0}

VARIABLES
    page,           \* "login" or "confirm"
    spin,           \* PageLogin._isLoading
    asking,         \* verifyPhone has neither failed nor sent an SMS yet
    phoneNumber, verificationId,    \* of AuthProvider
    sms,            \* all SMS sent, in order
    open,           \* ids whose codeAutoRetrievalTimeout is still to come
    loading,        \* PageLoginConfirm awaits verifyPhoneAgain
    codeResend,     \* seconds shown on the resend button
    timers,         \* countdown timers running
    due,            \* those that have not ticked in this second
    made,           \* timers created so far
    elapsed,        \* history: seconds since the last resend, at most Wait
    overtaken       \* history: a timeout put back an older id

login == <<page, spin, asking, phoneNumber, verificationId, sms, open,
           overtaken>>
countdown == <<codeResend, timers, due, made, elapsed>>
vars == <<login, loading, countdown>>

TypeOK ==
    /\ page \in {"login", "confirm"}
    /\ spin \in BOOLEAN /\ asking \in BOOLEAN /\ loading \in BOOLEAN
    /\ phoneNumber \in Numbers \cup {NoNumber}
    /\ sms \in Seq([number : Numbers, again : BOOLEAN])
    /\ verificationId \in 0 .. Len(sms)
    /\ open \subseteq 1 .. Len(sms)
    /\ codeResend \in 0 .. Wait
    /\ timers \subseteq 1 .. made
    /\ due \subseteq timers
    /\ made \in 0 .. MaxTimers
    /\ elapsed \in 0 .. Wait
    /\ overtaken \in BOOLEAN

Init ==
    /\ page = "login"
    /\ spin = FALSE
    /\ asking = FALSE
    /\ loading = FALSE
    /\ phoneNumber = NoNumber
    /\ verificationId = 0
    /\ sms = << >>
    /\ open = {}
    /\ codeResend = 0
    /\ timers = {}
    /\ due = {}
    /\ made = 0
    /\ elapsed = Wait
    /\ overtaken = FALSE

-----------------------------------------------------------------------------
\* PageLogin.onLogin.  verifyPhone is not awaited.
OnLogin(n) ==
    /\ page = "login" /\ ~spin
    /\ spin' = TRUE
    /\ asking' = TRUE
    /\ phoneNumber' = n
    /\ UNCHANGED <<page, verificationId, sms, open, overtaken, loading, countdown>>

VerificationFailed ==
    /\ asking
    /\ asking' = FALSE
    /\ spin' = FALSE
    /\ UNCHANGED <<page, phoneNumber, verificationId, sms, open, overtaken,
                   loading, countdown>>

\* verifyPhone throws into a future nobody awaits: no callback will come.
VerifyPhoneThrows ==
    /\ asking
    /\ asking' = FALSE
    /\ UNCHANGED <<page, spin, phoneNumber, verificationId, sms, open,
                   overtaken, loading, countdown>>

IdKept(id) == verificationId                        \* mutant of IdSent
IdSent(id) == id

SmsOTPSent ==
    /\ asking
    /\ Len(sms) < MaxSms
    /\ sms' = Append(sms, [number |-> phoneNumber, again |-> FALSE])
    /\ verificationId' = IdSent(Len(sms'))
    /\ open' = open \cup {Len(sms')}
    /\ asking' = FALSE
    /\ spin' = FALSE
    /\ page' = "confirm"
    /\ overtaken' = FALSE
    /\ UNCHANGED <<phoneNumber, loading, countdown>>

\* 30 seconds after an SMS its id is stored (again).
CodeAutoRetrievalTimeout(id) ==
    /\ id \in open
    /\ open' = open \ {id}
    /\ verificationId' = id
    /\ overtaken' = (id # verificationId \/ overtaken)
    /\ UNCHANGED <<page, spin, asking, phoneNumber, sms, loading, countdown>>

\* Back to landing and in again: a new PageLogin.  Callbacks of the old one
\* read a context that is gone, and throw.
LeaveLogin ==
    /\ page = "login"
    /\ spin' = FALSE
    /\ asking' = FALSE
    /\ open' = {}
    /\ UNCHANGED <<page, phoneNumber, verificationId, sms, overtaken, loading,
                   countdown>>

-----------------------------------------------------------------------------
\* The resend button: verifyPhoneAgain, with callbacks that do nothing.
ButtonEnabled == codeResend = 0

Resend ==
    /\ page = "confirm" /\ ~loading
    /\ ButtonEnabled
    /\ made < MaxTimers
    /\ loading' = TRUE
    /\ UNCHANGED <<login, countdown>>

OnStartCountdown ==
    /\ codeResend' = Wait
    /\ made' = made + 1
    /\ timers' = timers \cup {made + 1}
    /\ elapsed' = 0
    /\ UNCHANGED due

\* The request ends, in an error or in an SMS; either way the countdown starts.
Resent ==
    /\ loading
    /\ loading' = FALSE
    /\ \/ UNCHANGED sms
       \/ /\ Len(sms) < MaxSms
          /\ sms' = Append(sms, [number |-> phoneNumber, again |-> TRUE])
    /\ OnStartCountdown
    /\ UNCHANGED <<page, spin, asking, phoneNumber, verificationId, open,
                   overtaken>>

CountdownOverEarly == codeResend <= 1               \* mutant of CountdownOver
CountdownNever == FALSE                             \* mutant of CountdownOver
CountdownOver == codeResend < 1

CountedTwice == IF codeResend > 1 THEN codeResend - 2 ELSE 0    \* mutant of Counted
Counted == codeResend - 1

Tick(t) ==
    /\ t \in due
    /\ IF CountdownOver
       THEN timers' = timers \ {t} /\ UNCHANGED codeResend
       ELSE codeResend' = Counted /\ UNCHANGED timers
    /\ due' = due \ {t}
    /\ UNCHANGED <<login, loading, made, elapsed>>

\* A second: every timer ticks once in it.
Second ==
    /\ due = {}
    /\ due' = timers
    /\ elapsed' = IF elapsed < Wait THEN elapsed + 1 ELSE elapsed
    /\ UNCHANGED <<login, loading, codeResend, timers, made>>

\* The page goes with its counter.  Timers that dispose does not cancel, and
\* one started later, only change that counter, which nothing shows any more.
LeaveConfirm ==
    /\ page = "confirm"
    /\ page' = "login"
    /\ loading' = FALSE
    /\ codeResend' = 0
    /\ timers' = {} /\ due' = {}
    /\ elapsed' = Wait
    /\ UNCHANGED <<spin, asking, phoneNumber, verificationId, sms, open, made,
                   overtaken>>

Next ==
    \/ \E n \in Numbers : OnLogin(n)
    \/ VerificationFailed \/ VerifyPhoneThrows \/ SmsOTPSent
    \/ \E id \in open : CodeAutoRetrievalTimeout(id)
    \/ LeaveLogin
    \/ Resend \/ Resent
    \/ \E t \in timers : Tick(t)
    \/ Second \/ LeaveConfirm

Spec == Init /\ [][Next]_vars

\* Time passes, and Firebase answers.
FairSpec ==
    /\ Spec
    /\ WF_vars(Resent)
    /\ WF_vars(\E t \in timers : Tick(t))
    /\ WF_vars(Second)

-----------------------------------------------------------------------------
(***************************************************************************)
(* IdOfLastRequest: the id the entered code is checked with belongs to the *)
(* last SMS PageLogin asked for, so to the number PageLoginConfirm shows,  *)
(* unless the auto-retrieval timeout of an older SMS came in between.      *)
(***************************************************************************)
Requested == {i \in 1 .. Len(sms) : ~sms[i].again}
IdOfLastRequest ==
    page = "confirm" /\ ~overtaken =>
        /\ verificationId \in Requested
        /\ \A i \in Requested : i <= verificationId
        /\ sms[verificationId].number = phoneNumber

(***************************************************************************)
(* CountdownRuns: a resend button that shows seconds has a timer that will *)
(* count them down, however timers and resends have overlapped.            *)
(***************************************************************************)
CountdownRuns == codeResend > 0 => timers # {}

(***************************************************************************)
(* ResendComesBack: the button that shows seconds is enabled again, or its *)
(* page left (onStartCountdown).                                           *)
(***************************************************************************)
ResendComesBack == codeResend > 0 ~> codeResend = 0

(***************************************************************************)
(* NewestCodeWorks: the code of the newest SMS is the one that is checked: *)
(* "for a new code press the button above" (sms-code-expired-error).       *)
(***************************************************************************)
NewestCodeWorks ==
    page = "confirm" /\ ~overtaken => verificationId = Len(sms)

(***************************************************************************)
(* CountdownSpeed: the seconds on the button go down by one per second and *)
(* running timer, whatever resends and timers overlap: with one timer they *)
(* are the seconds still to wait, and with two (a resend before the last   *)
(* tick of the timer before) the button comes back in half the time.       *)
(***************************************************************************)
CountdownSpeed ==
    LET k == Cardinality(timers)
    IN  codeResend > 0 =>
          codeResend + k * elapsed \in
              (Wait + Cardinality(due) - (k - 1)) .. (Wait + Cardinality(due))

=============================================================================
