------------------------------ MODULE MqttLink ------------------------------
(***************************************************************************)
(* The MQTT connection of mqtt_gateway_demo: the main thread connects and  *)
(* reconnects, the publisher threads (tailer, telemetry, test) and the     *)
(* client library's callback thread publish, and all of them agree on the  *)
(* state of the session through app.mqtt_connected under app.mqtt_lock.    *)
(*                                                                         *)
(* A critical section that only reads or writes the flag is one action;    *)
(* the two sections that call something slow under the lock, connecting    *)
(* and the shutdown sequence, hold it over several.  The session, its loss *)
(* and the delivery of the loss to mqtt_connection_lost are the library's. *)
(***************************************************************************)
EXTENDS Naturals

CONSTANTS Publishers,   \* the threads with a publishing loop
          NoThread,     \* nobody holds the lock
          RoundMax,     \* bound: messages a publisher sends in one round
          BackoffMin, BackoffMax   \* 500 ms and 8000 ms in main

Threads == Publishers \cup {"main", "callback"}

ASSUME PublishersAssumption ==
    {"main", "callback"} \cap Publishers = {} /\ NoThread \notin Threads
ASSUME RoundAssumption == RoundMax \in Nat \ {0}
ASSUME BackoffAssumption ==
    BackoffMin \in Nat \ {0} /\ BackoffMax \in Nat /\ BackoffMin <= BackoffMax

VARIABLES
    running,       \* g_running
    session,       \* the library's connection to the broker
    lossPending,   \* the library owes a call of mqtt_connection_lost
    connected,     \* app.mqtt_connected
    lock,          \* the owner of app.mqtt_lock, across actions
    mpc,           \* where the main thread is
    backoff,       \* backoff_ms
    ppc,           \* per thread, where it is in mqtt_publish_json
    left           \* per publisher, messages left in this round

mainVars == <<mpc, backoff>>
netVars == <<session, lossPending>>
vars == <<running, session, lossPending, connected, lock, mpc, backoff, ppc, left>>

MainStates == {"poll", "connect", "connecting", "subscribe", "announce",
               "sleep", "backoff", "join", "final", "closing", "done"}
PublishStates == {"out", "check", "send", "await", "exit"}
-----------------------------------------------------------------------------
(* mqtt_publish_json, the same for every thread *)

PublishDone(t) == [ppc EXCEPT ![t] = "out"]

\* First section: the flag decides whether the message is tried at all.
PublishCheck(t) ==
    /\ ppc[t] = "check"
    /\ lock = NoThread
    /\ ppc' = IF connected THEN [ppc EXCEPT ![t] = "send"] ELSE PublishDone(t)
    /\ UNCHANGED <<running, netVars, connected, lock, mainVars, left>>

\* Second section: the library takes the message, or refuses it for lack of a
\* session or of room.
PublishSend(t) ==
    /\ ppc[t] = "send"
    /\ lock = NoThread
    /\ \/ session = "up" /\ ppc' = [ppc EXCEPT ![t] = "await"]
       \/ ppc' = PublishDone(t)
    /\ UNCHANGED <<running, netVars, connected, lock, mainVars, left>>

\* Waiting at most three seconds for the acknowledgement, without the lock; the
\* outcome is not looked at.
PublishAwait(t) ==
    /\ ppc[t] = "await"
    /\ ppc' = PublishDone(t)
    /\ UNCHANGED <<running, netVars, connected, lock, mainVars, left>>

Publish(t) == PublishCheck(t) \/ PublishSend(t) \/ PublishAwait(t)
-----------------------------------------------------------------------------
(* The publishing threads: while (g_running) { sleep; publish some messages } *)

\* Slip: the loop does not look at g_running.
StartRoundAlways(p) ==
    /\ ppc[p] = "out" /\ left[p] = 0
    /\ \E n \in 1 .. RoundMax : left' = [left EXCEPT ![p] = n]
    /\ UNCHANGED <<running, netVars, connected, lock, mainVars, ppc>>

StartRound(p) ==
    /\ ppc[p] = "out" /\ left[p] = 0
    /\ running
    /\ \E n \in 1 .. RoundMax : left' = [left EXCEPT ![p] = n]
    /\ UNCHANGED <<running, netVars, connected, lock, mainVars, ppc>>

NextMessage(p) ==
    /\ ppc[p] = "out" /\ left[p] > 0
    /\ ppc' = [ppc EXCEPT ![p] = "check"]
    /\ left' = [left EXCEPT ![p] = @ - 1]
    /\ UNCHANGED <<running, netVars, connected, lock, mainVars>>

Leave(p) ==
    /\ ppc[p] = "out" /\ left[p] = 0
    /\ ~running
    /\ ppc' = [ppc EXCEPT ![p] = "exit"]
    /\ UNCHANGED <<running, netVars, connected, lock, mainVars, left>>

Publisher(p) == StartRound(p) \/ NextMessage(p) \/ Leave(p)
-----------------------------------------------------------------------------
(* The callbacks, and the network behind the library *)

\* Slip: the loss is logged but the flag stays.
LostCallbackLogsOnly ==
    /\ lossPending
    /\ lock = NoThread
    /\ lossPending' = FALSE
    /\ UNCHANGED <<running, session, connected, lock, mainVars, ppc, left>>

\* mqtt_connection_lost.
LostCallback ==
    /\ lossPending
    /\ lock = NoThread
    /\ lossPending' = FALSE
    /\ connected' = FALSE
    /\ UNCHANGED <<running, session, lock, mainVars, ppc, left>>

\* mqtt_message_arrived: every command and every configuration is answered with
\* one message, published from the callback.  (Messages that get no answer
\* change nothing here.)
MessageArrived ==
    /\ session = "up"
    /\ ppc["callback"] = "out"
    /\ ppc' = [ppc EXCEPT !["callback"] = "check"]
    /\ UNCHANGED <<running, netVars, connected, lock, mainVars, left>>

\* The connection breaks: the library will call back, once.
Loss ==
    /\ session = "up"
    /\ session' = "down"
    /\ lossPending' = TRUE
    /\ UNCHANGED <<running, connected, lock, mainVars, ppc, left>>

Library == LostCallback \/ MessageArrived \/ Loss
-----------------------------------------------------------------------------
(* The main thread *)

\* Slip: the loop is left when a connection attempt fails.
ConnectFailLeaves ==
    /\ mpc = "connecting"
    /\ lock' = NoThread
    /\ mpc' = "join"
    /\ UNCHANGED <<running, netVars, connected, backoff, ppc, left>>

Poll ==
    /\ mpc = "poll"
    /\ \/ ~running /\ mpc' = "join"
       \/ /\ running
          /\ lock = NoThread
          /\ mpc' = IF connected THEN "sleep" ELSE "connect"
    /\ UNCHANGED <<running, netVars, connected, lock, backoff, ppc, left>>

\* MQTTClient_connect runs with the lock held.
ConnectStart ==
    /\ mpc = "connect"
    /\ lock = NoThread
    /\ lock' = "main"
    /\ mpc' = "connecting"
    /\ UNCHANGED <<running, netVars, connected, backoff, ppc, left>>

\* The lock is released with the session up and the flag not yet set.
ConnectOk ==
    /\ mpc = "connecting"
    /\ session' = "up"
    /\ lock' = NoThread
    /\ mpc' = "subscribe"
    /\ UNCHANGED <<running, lossPending, connected, backoff, ppc, left>>

ConnectFail ==
    /\ mpc = "connecting"
    /\ lock' = NoThread
    /\ mpc' = "backoff"
    /\ UNCHANGED <<running, netVars, connected, backoff, ppc, left>>

\* Slip: the doubling has no limit.
BackoffUnlimited ==
    /\ mpc = "backoff"
    /\ mpc' = "poll"
    /\ backoff' = 2 * backoff
    /\ UNCHANGED <<running, netVars, connected, lock, ppc, left>>

Backoff ==
    /\ mpc = "backoff"
    /\ mpc' = "poll"
    /\ backoff' = IF backoff < BackoffMax THEN 2 * backoff ELSE backoff
    /\ UNCHANGED <<running, netVars, connected, lock, ppc, left>>

\* Slip: nobody sets the flag.
SubscribeOnly ==
    /\ mpc = "subscribe"
    /\ lock = NoThread
    /\ mpc' = "announce"
    /\ ppc' = [ppc EXCEPT !["main"] = "check"]
    /\ UNCHANGED <<running, netVars, connected, lock, backoff, left>>

\* The results of the three subscriptions are not looked at.
Subscribe ==
    /\ mpc = "subscribe"
    /\ lock = NoThread
    /\ connected' = TRUE
    /\ mpc' = "announce"
    /\ ppc' = [ppc EXCEPT !["main"] = "check"]
    /\ UNCHANGED <<running, netVars, lock, backoff, left>>

\* publish_status("online") is over, sent or not.
Announced ==
    /\ mpc = "announce"
    /\ ppc["main"] = "out"
    /\ mpc' = "sleep"
    /\ backoff' = BackoffMin
    /\ UNCHANGED <<running, netVars, connected, lock, ppc, left>>

Wake ==
    /\ mpc = "sleep"
    /\ mpc' = "poll"
    /\ UNCHANGED <<running, netVars, connected, lock, backoff, ppc, left>>

Join ==
    /\ mpc = "join"
    /\ \A p \in Publishers : ppc[p] = "exit"
    /\ mpc' = "final"
    /\ UNCHANGED <<running, netVars, connected, lock, backoff, ppc, left>>

\* The shutdown section.  With the flag set it publishes the offline status
\* while holding the lock that mqtt_publish_json takes: what the code does
\* after that (disconnect, unlock, destroy) is never reached and has no action.
Final ==
    /\ mpc = "final"
    /\ lock = NoThread
    /\ IF connected
       THEN lock' = "main" /\ mpc' = "closing"
            /\ ppc' = [ppc EXCEPT !["main"] = "check"]
       ELSE mpc' = "done" /\ UNCHANGED <<lock, ppc>>
    /\ UNCHANGED <<running, netVars, connected, backoff, left>>

MainStep ==
    \/ Poll \/ ConnectStart \/ ConnectOk \/ ConnectFail \/ Backoff
    \/ Subscribe \/ Announced \/ Wake \/ Join \/ Final

\* SIGINT or SIGTERM.
Signal ==
    /\ running
    /\ running' = FALSE
    /\ UNCHANGED <<netVars, connected, lock, mainVars, ppc, left>>
-----------------------------------------------------------------------------
Init ==
    /\ running = TRUE
    /\ session = "down" /\ lossPending = FALSE
    /\ connected = FALSE
    /\ lock = NoThread
    /\ mpc = "poll" /\ backoff = BackoffMin
    /\ ppc = [t \in Threads |-> "out"]
    /\ left = [p \in Publishers |-> 0]

\* main has returned: the process is gone.
Next ==
    /\ mpc # "done"
    /\ \/ MainStep
       \/ \E t \in Threads : Publish(t)
       \/ \E p \in Publishers : Publisher(p)
       \/ Library
       \/ Signal

Live(A) == mpc # "done" /\ A

\* Threads are scheduled.  A thread that waits for the lock gets it in the end:
\* main, the only one to hold it for long, sleeps without it between two
\* attempts.  The broker does not refuse every connection for ever.
Fairness ==
    /\ WF_vars(Live(MainStep))
    /\ SF_vars(Live(ConnectOk))
    /\ SF_vars(Live(LostCallback))
    /\ \A t \in Threads : SF_vars(Live(Publish(t)))
    /\ \A p \in Publishers : WF_vars(Live(Publisher(p)))

Spec == Init /\ [][Next]_vars
FairSpec == Spec /\ Fairness
-----------------------------------------------------------------------------
(* Properties *)

\* Every variable has the type of what it stands for; the backoff never grows
\* beyond one doubling of its limit.
TypeOK ==
    /\ running \in BOOLEAN
    /\ session \in {"up", "down"}
    /\ lossPending \in BOOLEAN
    /\ connected \in BOOLEAN
    /\ lock \in {NoThread, "main"}
    /\ mpc \in MainStates
    /\ backoff \in BackoffMin .. 2 * BackoffMax
    /\ ppc \in [Threads -> PublishStates]
    /\ left \in [Publishers -> 0 .. RoundMax]

\* The flag is never behind in refusing: with the session up, publishing is
\* possible, except between MQTTClient_connect and the line that sets the flag.
\* A loss that is still to be delivered concerns the session that is down.
FlagFollowsSession ==
    /\ session = "up" => connected \/ mpc = "subscribe"
    /\ lossPending => session = "down"

\* A session that is down while the flag says connected, and no callback to
\* come that would correct it.
Forgotten == connected /\ session = "down" /\ ~lossPending

\* Only one step of the program can forget a loss: the flag being set by
\* mqtt_connect_and_subscribe after the callback has already run.
LossForgottenOnlyAtSubscribe ==
    [][~Forgotten /\ Forgotten' => mpc = "subscribe" /\ mpc' = "announce"]_vars

\* A loss that the flag shows is repaired: main connects again, whatever the
\* publishers and the callbacks are doing, unless it is told to stop.
ShownLossIsRepaired == running /\ ~connected ~> connected \/ ~running

\* After a signal every thread leaves its loop and is joined, and main comes to
\* its last section: no publisher is stuck on the lock or in a round.
SignalEndsThreads == ~running ~> mpc \in {"closing", "done"}

\* The end of main: the offline status is published, the client disconnected
\* and destroyed, and the process ends.
SignalEndsProcess == ~running ~> mpc = "done"

\* The keep-alive of the configuration template: a lost session is noticed and
\* connected again while the program runs.
LossIsRepaired == running /\ session = "down" ~> session = "up" \/ ~running
=============================================================================
