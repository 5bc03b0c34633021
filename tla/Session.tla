------------------------------- MODULE Session -------------------------------
(***************************************************************************)
(* What the connection promises to whoever watches its connection id: every *)
(* attempt first withdraws the previous id (None), and an attempt that     *)
(* succeeds publishes its own id, once.  No id is ever published twice and *)
(* two ids are never published without None between them.                  *)
(***************************************************************************)
EXTENDS Naturals

CONSTANT MaxSessions   \* bound on the attempts

ASSUME SessionAssumption == MaxSessions \in Nat

None == 0

VARIABLES
    watch,    \* the value of the watch channel: a connection id or None
    opened    \* the number of attempts, also the id of the latest

sessionVars == <<watch, opened>>

SessionTypeOK ==
    /\ watch \in 0..MaxSessions
    /\ opened \in 0..MaxSessions

SessionInit == watch = None /\ opened = 0

\* An attempt starts: connection_id_watcher.send(None).
Open ==
    /\ opened < MaxSessions
    /\ watch' = None /\ opened' = opened + 1

\* The attempt has succeeded: connection_id_watcher.send(Some(id)).
Establish ==
    /\ opened > 0 /\ watch = None
    /\ watch' = opened /\ UNCHANGED opened

SessionNext == Open \/ Establish

SessionSpec == SessionInit /\ [][SessionNext]_sessionVars
=============================================================================
