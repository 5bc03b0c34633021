------------------------------ MODULE Listeners ------------------------------
(***************************************************************************)
(* The tasks that connected_listener and disconnected_listener spawn       *)
(* (src/common/remote/grpc/nacos_grpc_connection.rs) on top of a Session.  *)
(* Each has its own receiver of the watch channel, which keeps the latest  *)
(* value only: a receiver that is late misses the values in between.       *)
(***************************************************************************)
EXTENDS Session

Kinds == {"connected", "disconnected"}

VARIABLES
    unread,   \* the listeners whose receiver has an unseen value
    prev,     \* previous_id of each listener
    told      \* the id each listener was last called with

listenerVars == <<unread, prev, told>>
vars == <<sessionVars, listenerVars>>

ListenersTypeOK ==
    /\ SessionTypeOK
    /\ unread \in SUBSET Kinds
    /\ prev \in [Kinds -> 0..MaxSessions]
    /\ told \in [Kinds -> 0..MaxSessions]

Init ==
    /\ SessionInit
    /\ unread = {}
    /\ prev = [k \in Kinds |-> None]
    /\ told = [k \in Kinds |-> None]

\* watch::Sender::send marks the value unseen for every receiver, also when it
\* equals the one before.
Send ==
    /\ SessionNext
    /\ unread' = Kinds
    /\ UNCHANGED <<prev, told>>

\* rx.changed(), then borrow().
Observe(k) ==
    /\ k \in unread
    /\ unread' = unread \ {k}
    /\ prev' = [prev EXCEPT ![k] = watch]

\* None became an id: the callback is called with the new id.
OnConnected ==
    /\ Observe("connected")
    /\ told' = IF prev["connected"] = None /\ watch # None
               THEN [told EXCEPT !["connected"] = watch] ELSE told
    /\ UNCHANGED sessionVars

\* A variant of OnDisconnected that calls back with the current value.
CallWithLatestAttempt ==
    /\ Observe("disconnected")
    /\ told' = IF prev["disconnected"] # None /\ watch = None
               THEN [told EXCEPT !["disconnected"] = opened] ELSE told
    /\ UNCHANGED sessionVars

\* An id became None: the callback is called with the id that was lost.
OnDisconnected ==
    /\ Observe("disconnected")
    /\ told' = IF prev["disconnected"] # None /\ watch = None
               THEN [told EXCEPT !["disconnected"] = prev["disconnected"]]
               ELSE told
    /\ UNCHANGED sessionVars

Next == Send \/ OnConnected \/ OnDisconnected

Spec == Init /\ [][Next]_vars

\* The executor runs a woken listener task; attempts need not come.
FairSpec == Spec /\ WF_vars(OnConnected) /\ WF_vars(OnDisconnected)

-----------------------------------------------------------------------------
(* Properties.                                                             *)

\* The connection reported lost is never the one that is up: a component that
\* reacts late to a disconnect can tell the two apart by the id.
DisconnectNamesTheDead ==
    told["disconnected"] # None => told["disconnected"] # watch

\* (Not kept.)  A connection that stays is announced to the connected
\* listener.
ConnectionAnnounced ==
    \A id \in 1..MaxSessions :
        watch = id ~> (told["connected"] = id \/ watch # id)
=============================================================================
