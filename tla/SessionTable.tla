---------------------------- MODULE SessionTable ----------------------------
(***************************************************************************)
(* What the UDP relay of a server connection promises to the rest of the   *)
(* server, with its tasks, channels and packets left out: a table from     *)
(* associate IDs to sessions, and the socket of each session.  ServerUdp   *)
(* implements it; Server composes it with the authentication gate.         *)
(***************************************************************************)
EXTENDS Naturals

CONSTANTS Assoc,     \* associate IDs
          Session,   \* sessions, as many as are ever created
          None       \* no session, no associate ID

VARIABLES
    table,    \* UdpSessionMap::map
    socket,   \* each session's socket: unused, live, ended or failed
    owner,    \* the associate ID each session was created for
    gone      \* nobody owns the connection, and with it the table, any more

tableVars == <<table, socket, owner, gone>>

TableInit ==
    /\ table = [a \in Assoc |-> None]
    /\ socket = [s \in Session |-> "unused"]
    /\ owner = [s \in Session |-> None]
    /\ gone = FALSE

InTable(s) == \E a \in Assoc : table[a] = s

\* A socket is bound for an ID.
Open(s, a) ==
    /\ socket[s] = "unused"
    /\ socket' = [socket EXCEPT ![s] = "live"]
    /\ owner' = [owner EXCEPT ![s] = a]
    /\ UNCHANGED table

\* A session is entered for the ID it was created for, in place of what the
\* table held; its socket may have failed by then, but was not released.
Enter(a, s) ==
    /\ owner[s] = a
    /\ socket[s] \in {"live", "failed"}
    /\ table' = [table EXCEPT ![a] = s]
    /\ UNCHANGED <<socket, owner>>

Remove(a) ==
    /\ table' = [table EXCEPT ![a] = None]
    /\ UNCHANGED <<socket, owner>>

Fail(s) ==
    /\ socket[s] = "live"
    /\ socket' = [socket EXCEPT ![s] = "failed"]
    /\ UNCHANGED <<table, owner>>

\* Only a socket the table no longer leads to is released.
Release(s) ==
    /\ socket[s] = "live"
    /\ ~InTable(s)
    /\ socket' = [socket EXCEPT ![s] = "ended"]
    /\ UNCHANGED <<table, owner>>

Drop ==
    /\ \E a \in Assoc : table[a] # None
    /\ table' = [a \in Assoc |-> None]
    /\ UNCHANGED <<socket, owner>>

\* Somebody who owns the connection uses the table.
Use ==
    /\ ~gone
    /\ \/ \E s \in Session, a \in Assoc : Open(s, a) \/ Enter(a, s)
       \/ \E a \in Assoc : Remove(a)
    /\ UNCHANGED gone

\* A session's own task, which owns its socket only.
SessionStep(s) == (Fail(s) \/ Release(s)) /\ UNCHANGED gone

\* The last owner goes, ...
Shut ==
    /\ gone' = TRUE
    /\ UNCHANGED <<table, socket, owner>>

\* ... and the table, which nobody can reach any more, goes with it.
DropTable == gone /\ Drop /\ UNCHANGED gone

TableNext == Use \/ (\E s \in Session : SessionStep(s)) \/ Shut \/ DropTable

\* A socket out of the table is released, and a table that nobody owns is
\* dropped.
TableSpec ==
    /\ TableInit
    /\ [][TableNext]_tableVars
    /\ \A s \in Session : WF_tableVars(Release(s) /\ UNCHANGED gone)
    /\ WF_tableVars(DropTable)
=============================================================================
