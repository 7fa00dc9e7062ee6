---------------------------- MODULE HomeDialogs ----------------------------
(***************************************************************************)
(* The two dialogs that cover Home: WidgetNoConnection while the phone is  *)
(* offline, WidgetGeolocation while its place cannot be found.  Each runs  *)
(* a timer and calls back a check of Home's, which may take it away.       *)
(***************************************************************************)
EXTENDS Naturals, Sequences

CONSTANT MaxPending     \* bound on the answers and events under way, of each kind

VARIABLES
    online,         \* the phone has a network
    place,          \* what the phone allows: "denied", "blind" (no position), "seen"
    connection,     \* showConnectionErrorDialog
    streaming,      \* the platform sends its changes: someone has listened
    listening,      \* a widget of this Home has listened, for ever
    checks,         \* checkConnectivity calls that the platform has not answered
    inbox,          \* answers and events on their way from the platform
    location,       \* showLocationErrorDialog
    timing,         \* the timer of the WidgetGeolocation shown is running
    statuses,       \* permission checks under way for the WidgetGeolocation shown
    strays,         \* and for those that have gone
    asked,          \* _getCurrentLocation calls under way
    \* history: no guard reads it
    missed,         \* a widget began to listen when the phone was online, unheard
    failedAgain     \* the retry of the WidgetGeolocation shown has failed

connectionVars == <<connection, streaming, listening, checks, inbox, missed>>
locationVars == <<location, timing, statuses, strays, asked, failedAgain>>
vars == <<online, place, connectionVars, locationVars>>

Messages == [kind : {"answer", "event"}, online : BOOLEAN]

TypeOK ==
    /\ {online, connection, streaming, listening, location, timing, missed,
        failedAgain} \subseteq BOOLEAN
    /\ place \in {"denied", "blind", "seen"}
    /\ checks \in 0 .. MaxPending
    /\ inbox \in Seq(Messages) /\ Len(inbox) <= MaxPending
    /\ statuses + strays \in 0 .. MaxPending /\ asked \in 0 .. MaxPending
    /\ listening => streaming
    /\ timing => location

\* initState asks both questions.
Start ==
    /\ connection' = FALSE /\ listening' = FALSE /\ checks' = 1 /\ inbox' = << >>
    /\ location' = FALSE /\ timing' = FALSE /\ statuses' = 0 /\ strays' = 0
    /\ asked' = 1
    /\ missed' = FALSE /\ failedAgain' = FALSE
    /\ UNCHANGED <<online, place>>

Init ==
    /\ online \in BOOLEAN /\ place \in {"denied", "blind", "seen"}
    /\ connection = FALSE /\ streaming = FALSE /\ listening = FALSE
    /\ checks = 1 /\ inbox = << >>
    /\ location = FALSE /\ timing = FALSE /\ statuses = 0 /\ strays = 0 /\ asked = 1
    /\ missed = FALSE /\ failedAgain = FALSE

\* A new Home: of a new process, or of the next one to log in.  In the second
\* case what was under way is for a Home that has gone.
Restart == Start /\ streaming' \in {FALSE, streaming}

-----------------------------------------------------------------------------
Send(kind, on) == Append(inbox, [kind |-> kind, online |-> on])

\* The network comes or goes.
Network ==
    /\ online' = ~online
    /\ IF streaming
       THEN Len(inbox) < MaxPending /\ inbox' = Send("event", online')
       ELSE UNCHANGED inbox
    /\ UNCHANGED <<place, connection, streaming, listening, checks, missed, locationVars>>

\* The platform answers checkConnectivity.
Check ==
    /\ checks > 0 /\ Len(inbox) < MaxPending
    /\ checks' = checks - 1
    /\ inbox' = Send("answer", online)
    /\ UNCHANGED <<online, place, connection, streaming, listening, missed, locationVars>>

HeardGone(m) == m.online /\ listening /\ ~connection      \* mutant of Heard
\* Listeners go on when their widget has gone; all of them check again.
Heard(m) == m.online /\ listening

\* The oldest message reaches Home or the listeners.
Deliver ==
    /\ inbox # << >>
    /\ LET m == Head(inbox) IN
        \/ /\ m.kind = "answer"
           /\ connection' = ~m.online
           /\ missed' = (missed /\ connection')
           /\ UNCHANGED checks
        \/ /\ m.kind = "event"
           /\ IF Heard(m) THEN checks < MaxPending /\ checks' = checks + 1
                          ELSE UNCHANGED checks
           /\ UNCHANGED <<connection, missed>>
    /\ inbox' = Tail(inbox)
    /\ UNCHANGED <<online, place, streaming, listening, locationVars>>

\* WidgetNoConnection's timer: setConnection listens, once more each time.  Who
\* is the first to listen may be sent the present state.
ListenTick ==
    /\ connection /\ ~listening
    /\ listening' = TRUE /\ streaming' = TRUE
    /\ \/ /\ ~streaming /\ Len(inbox) < MaxPending
          /\ inbox' = Send("event", online)
          /\ UNCHANGED missed
       \/ /\ UNCHANGED inbox
          /\ missed' = online
    /\ UNCHANGED <<online, place, connection, checks, locationVars>>

-----------------------------------------------------------------------------
\* The user, in the settings, or the sky.
Place ==
    /\ place' \in {"denied", "blind", "seen"} \ {place}
    /\ UNCHANGED <<online, connectionVars, locationVars>>

\* WidgetGeolocation's timer: setGeolocation asks for the permission.
StatusTick ==
    /\ timing /\ statuses + strays < MaxPending
    /\ statuses' = statuses + 1
    /\ UNCHANGED <<online, place, connectionVars, location, timing, strays, asked, failedAgain>>

\* If the permission is granted, Home tries again.
Granted ==
    IF place # "denied" THEN asked < MaxPending /\ asked' = asked + 1
                        ELSE UNCHANGED asked

\* The answer stops the timer of the widget that asked.
StatusAnswer ==
    /\ statuses > 0
    /\ statuses' = statuses - 1
    /\ Granted
    /\ timing' = (timing /\ place = "denied")
    /\ UNCHANGED <<online, place, connectionVars, location, strays, failedAgain>>

StrayAnswer ==
    /\ strays > 0
    /\ strays' = strays - 1
    /\ Granted
    /\ UNCHANGED <<online, place, connectionVars, location, timing, statuses, failedAgain>>

\* The place, and its name, which takes a network, have been found.
LocationFound ==
    /\ asked > 0 /\ online /\ place # "denied"
    /\ asked' = asked - 1
    /\ location' = FALSE /\ timing' = FALSE /\ failedAgain' = FALSE
    /\ statuses' = 0 /\ strays' = strays + statuses
    /\ UNCHANGED <<online, place, connectionVars>>

\* The widget is made when the dialog was not shown, and with it a timer.
FailedKeepsTimer == timing' = timing                      \* mutant of Failed
Failed == timing' = (timing \/ ~location)

\* catchError, for a position as for its name; the dialog is shown.
LocationFails ==
    /\ asked > 0 /\ (~online \/ place # "seen")
    /\ asked' = asked - 1
    /\ location' = TRUE
    /\ Failed
    /\ failedAgain' = (failedAgain \/ (location /\ ~timing))
    /\ UNCHANGED <<online, place, connectionVars, statuses, strays>>

\* No error and no position.
LocationUnknown ==
    /\ asked > 0 /\ place = "blind"
    /\ asked' = asked - 1
    /\ failedAgain' = (failedAgain \/ (location /\ ~timing))
    /\ UNCHANGED <<online, place, connectionVars, location, timing, statuses, strays>>

AtHome ==
    \/ Check \/ Deliver \/ ListenTick
    \/ StatusTick \/ StatusAnswer \/ StrayAnswer \/ LocationFound \/ LocationFails \/ LocationUnknown

Next == Network \/ Place \/ AtHome \/ Restart

Spec == Init /\ [][Next]_vars

-----------------------------------------------------------------------------
(***************************************************************************)
(* DialogsExplained: a dialog that should go is about to be looked at      *)
(* again.  When the phone is online and nothing is under way, the dialog   *)
(* of the connection is one whose timer has yet to listen, unless it began *)
(* to listen too late and was not told (widget_no_connection.dart:21-35);  *)
(* the dialog of the location has its timer, unless it was stopped for a   *)
(* retry that failed, offline for example (widget_geolocation.dart:24-27). *)
(***************************************************************************)
DialogsExplained ==
    /\ connection /\ online /\ checks = 0 /\ inbox = << >> => ~listening \/ missed
    /\ location /\ statuses + strays + asked = 0 => timing \/ failedAgain

=============================================================================
