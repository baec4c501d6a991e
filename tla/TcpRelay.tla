------------------------------ MODULE TcpRelay ------------------------------
(***************************************************************************)
(* One TCP relay from end to end: the SOCKS5 connect handler               *)
(* (client/src/socks5/connect.rs), handle_connect                          *)
(* (client/src/relay/task.rs), the bidirectional stream                    *)
(* (client/src/relay/stream.rs, BiStream in server/.../task.rs) and        *)
(* task::connect of the server (server/src/connection/task.rs), with the   *)
(* two tokio::io::copy_bidirectional that move the data.                   *)
(*                                                                         *)
(* Data are counted, per direction: what the source wrote, what is in the  *)
(* QUIC stream, what the sink got.  QUIC keeps the order and loses nothing *)
(* unless the connection is lost.  Dropping a SendStream finishes it, and  *)
(* dropping a RecvStream that is not at its end stops the other side.      *)
(***************************************************************************)
EXTENDS Naturals

CONSTANT MaxData    \* bound: pieces of data each source writes

ASSUME TcpAssumption == MaxData \in Nat

Direction == {"up", "down"}   \* application to target, and back

Node == {"client", "server"}

\* The direction in which a node reads from TCP, and the one in which it
\* writes to TCP.
FromTcp(n) == IF n = "client" THEN "up" ELSE "down"

ToTcp(n) == IF n = "client" THEN "down" ELSE "up"

VARIABLES
    cpc,       \* where the SOCKS5 handler is
    reply,     \* what it replied
    npc,       \* where process_request and handle_connect are
    tx,        \* the oneshot between them: open, stream or dropped
    spc,       \* where the server's task is
    dialed,    \* the server has connected to the target
    response,  \* the Response on the stream
    source,    \* each direction's source: open, eof or reset
    written,   \* pieces of data it wrote
    carried,   \* pieces that are, or were, in the QUIC stream
    got,       \* pieces the sink got
    fin,       \* directions of the QUIC stream that are finished
    stop,      \* directions whose receiver has dropped the stream
    shut,      \* directions whose sink has seen the end
    aborted,   \* history: nodes that ended a relay for an error
    lost       \* the QUIC connection is over

vars == <<cpc, reply, npc, tx, spc, dialed, response, source, written,
          carried, got, fin, stop, shut, aborted, lost>>

dataVars == <<source, written, carried, got>>

streamVars == <<fin, stop, shut, aborted>>

clientVars == <<cpc, reply, npc, tx>>

serverVars == <<spc, dialed, response>>

TypeOK ==
    /\ cpc \in {"request", "wait", "copy", "done"}
    /\ reply \in {"none", "succeeded", "unreachable"}
    /\ npc \in {"none", "queued", "open", "read", "finish", "done"}
    /\ tx \in {"open", "stream", "dropped"}
    /\ spc \in {"none", "gate", "asleep", "lookup", "dial", "accept",
                "refuse", "copy", "done"}
    /\ dialed \in BOOLEAN
    /\ response \in {"none", "true", "false"}
    /\ source \in [Direction -> {"open", "eof", "reset"}]
    /\ written \in [Direction -> 0..MaxData]
    /\ carried \in [Direction -> 0..MaxData]
    /\ got \in [Direction -> 0..MaxData]
    /\ fin \in SUBSET Direction
    /\ stop \in SUBSET Direction
    /\ shut \in SUBSET Direction
    /\ aborted \in SUBSET Node
    /\ lost \in BOOLEAN

Init ==
    /\ cpc = "request"
    /\ reply = "none"
    /\ npc = "none"
    /\ tx = "open"
    /\ spc = "none"
    /\ dialed = FALSE
    /\ response = "none"
    /\ source = [d \in Direction |-> "open"]
    /\ written = [d \in Direction |-> 0]
    /\ carried = [d \in Direction |-> 0]
    /\ got = [d \in Direction |-> 0]
    /\ fin = {}
    /\ stop = {}
    /\ shut = {}
    /\ aborted = {}
    /\ lost = FALSE

-----------------------------------------------------------------------------
(***************************************************************************)
(* The SOCKS5 handler, up to the reply.                                    *)
(***************************************************************************)

\* new_connect and req_tx.send(relay_req).
SendRequest ==
    /\ cpc = "request"
    /\ cpc' = "wait"
    /\ npc' = "queued"
    /\ UNCHANGED <<reply, tx, serverVars, dataVars, streamVars, lost>>

\* relay_resp_rx.await gives the stream: reply Succeeded and copy, ...
ReplySucceeded ==
    /\ cpc = "wait" /\ tx = "stream"
    /\ source["up"] # "reset"
    /\ reply' = "succeeded"
    /\ cpc' = "copy"
    /\ UNCHANGED <<npc, tx, serverVars, dataVars, streamVars, lost>>

\* ... or the application is gone: the reply fails and the stream is dropped.
ReplyFails ==
    /\ cpc = "wait" /\ tx = "stream"
    /\ source["up"] = "reset"
    /\ cpc' = "done"
    /\ fin' = fin \cup {"up"}
    /\ stop' = stop \cup {"down"}
    /\ shut' = shut \cup {"down"}
    /\ aborted' = aborted \cup {"client"}
    /\ UNCHANGED <<reply, npc, tx, serverVars, dataVars, lost>>

\* relay_resp_rx.await fails: reply NetworkUnreachable and shut down.
ReplyUnreachable ==
    /\ cpc = "wait" /\ tx = "dropped"
    /\ reply' = "unreachable"
    /\ cpc' = "done"
    /\ shut' = shut \cup {"down"}
    /\ UNCHANGED <<npc, tx, serverVars, dataVars, fin, stop, aborted, lost>>

-----------------------------------------------------------------------------
(***************************************************************************)
(* process_request and handle_connect.                                     *)
(***************************************************************************)

\* handle_connect returns without a stream for the handler: tx is dropped.
GiveUp_KeepsTx ==
    /\ npc' = "done"
    /\ UNCHANGED tx

GiveUp ==
    /\ npc' = "done"
    /\ tx' = "dropped"

\* The request gets a connection, or is given up for the request timeout.
GetConnection ==
    /\ npc = "queued"
    /\ \/ npc' = "open" /\ UNCHANGED tx
       \/ GiveUp
    /\ UNCHANGED <<cpc, reply, serverVars, dataVars, streamVars, lost>>

\* get_bi_stream, and Connect is written; the server's task is spawned for it.
SendConnect ==
    /\ npc = "open"
    /\ \/ ~lost /\ npc' = "read" /\ spc' = "gate" /\ UNCHANGED tx
       \/ lost /\ GiveUp /\ UNCHANGED spc
    /\ UNCHANGED <<cpc, reply, dialed, response, dataVars, streamVars, lost>>

\* TuicCommand::read_from: Response(true) ...
ReadAccepted ==
    /\ npc = "read" /\ response = "true"
    /\ npc' = "done"
    /\ tx' = "stream"
    /\ UNCHANGED <<cpc, reply, serverVars, dataVars, streamVars, lost>>

\* ... or anything else, or the end of the stream, or an error.
ReadRefused ==
    /\ npc = "read"
    /\ response = "false" \/ (response = "none" /\ "down" \in fin) \/ lost
    /\ npc' = "finish"
    /\ UNCHANGED <<cpc, reply, tx, serverVars, dataVars, streamVars, lost>>

\* stream.finish(), whose error changes nothing, and the stream is dropped.
FinishStream ==
    /\ npc = "finish"
    /\ GiveUp
    /\ fin' = fin \cup {"up"}
    /\ stop' = stop \cup {"down"}
    /\ UNCHANGED <<cpc, reply, serverVars, dataVars, shut, aborted, lost>>

-----------------------------------------------------------------------------
(***************************************************************************)
(* task::connect.                                                          *)
(***************************************************************************)

\* The server's task returns, and drops its streams and the target's.
ServerReturns ==
    /\ spc' = "done"
    /\ fin' = fin \cup {"down"}
    /\ stop' = stop \cup {"up"}
    /\ shut' = shut \cup {"up"}

\* Through the authentication gate, or turned away when the connection ends;
\* or the wake-up is lost ("pending" in ServerConnection), and the task keeps
\* its streams and sleeps for ever, on an open connection too.
PassGate ==
    /\ spc = "gate"
    /\ \/ spc' \in {"lookup", "asleep"} /\ UNCHANGED <<fin, stop, shut>>
       \/ lost /\ ServerReturns
    /\ UNCHANGED <<clientVars, dialed, response, dataVars, aborted, lost>>

\* net::lookup_host: its error is returned, and no Response is written.
Lookup ==
    /\ spc = "lookup"
    /\ \/ spc' = "dial" /\ UNCHANGED <<fin, stop, shut>>
       \/ ServerReturns
    /\ UNCHANGED <<clientVars, dialed, response, dataVars, aborted, lost>>

\* TcpStream::connect to the addresses in turn: one accepts, or none does.
Dial_Early ==
    /\ spc = "dial"
    /\ spc' \in {"accept", "refuse"}
    /\ UNCHANGED <<clientVars, dialed, response, dataVars, streamVars, lost>>

Dial ==
    /\ spc = "dial"
    /\ \/ spc' = "accept" /\ dialed' = TRUE
       \/ spc' = "refuse" /\ UNCHANGED dialed
    /\ UNCHANGED <<clientVars, response, dataVars, streamVars, lost>>

\* Response(true) is written and copying begins, or writing fails.
Respond ==
    /\ spc = "accept"
    /\ \/ /\ ~lost
          /\ response' = "true"
          /\ spc' = "copy"
          /\ UNCHANGED <<fin, stop, shut, aborted>>
       \/ /\ lost
          /\ ServerReturns
          /\ aborted' = aborted \cup {"server"}
          /\ UNCHANGED response
    /\ UNCHANGED <<clientVars, dialed, dataVars, lost>>

\* Response(false) is written and the stream finished, or writing fails.
Refuse ==
    /\ spc = "refuse"
    /\ response' = IF lost THEN "none" ELSE "false"
    /\ ServerReturns
    /\ UNCHANGED <<clientVars, dialed, dataVars, aborted, lost>>

-----------------------------------------------------------------------------
(***************************************************************************)
(* copy_bidirectional, at either node.                                     *)
(***************************************************************************)

Copying(n) == IF n = "client" THEN cpc = "copy" ELSE spc = "copy"

StopCopying(n) ==
    /\ cpc' = IF n = "client" THEN "done" ELSE cpc
    /\ spc' = IF n = "server" THEN "done" ELSE spc

\* An error in either direction ends both: the streams are dropped.
Abort_OneWay(n) ==
    /\ StopCopying(n)
    /\ fin' = fin
    /\ stop' = stop \cup {ToTcp(n)}
    /\ shut' = shut \cup {ToTcp(n)}
    /\ aborted' = aborted \cup {n}
    /\ UNCHANGED <<reply, npc, tx, dialed, response, dataVars, lost>>

Abort(n) ==
    /\ StopCopying(n)
    /\ fin' = fin \cup {FromTcp(n)}
    /\ stop' = stop \cup {ToTcp(n)}
    /\ shut' = shut \cup {ToTcp(n)}
    /\ aborted' = aborted \cup {n}
    /\ UNCHANGED <<reply, npc, tx, dialed, response, dataVars, lost>>

\* A piece of data from TCP into the QUIC stream.
Forward(n) ==
    LET d == FromTcp(n) IN
    /\ Copying(n) /\ d \notin fin
    /\ source[d] # "reset" /\ carried[d] < written[d]
    /\ \/ /\ d \notin stop /\ ~lost
          /\ carried' = [carried EXCEPT ![d] = @ + 1]
          /\ UNCHANGED <<clientVars, serverVars, source, written, got,
                         streamVars, lost>>
       \/ (d \in stop \/ lost) /\ Abort(n)

\* The end of it: poll_shutdown finishes the QUIC stream, which goes on in
\* the other direction.
ForwardEnd_Both(n) ==
    LET d == FromTcp(n) IN
    /\ Copying(n) /\ d \notin fin
    /\ source[d] = "eof" /\ carried[d] = written[d]
    /\ Abort(n)

ForwardEnd_Early(n) ==
    LET d == FromTcp(n) IN
    /\ Copying(n) /\ d \notin fin
    /\ source[d] = "eof"
    /\ \/ /\ d \notin stop /\ ~lost
          /\ fin' = fin \cup {d}
          /\ UNCHANGED <<clientVars, serverVars, dataVars, stop, shut, aborted,
                         lost>>
       \/ (d \in stop \/ lost) /\ Abort(n)

ForwardEnd(n) ==
    LET d == FromTcp(n) IN
    /\ Copying(n) /\ d \notin fin
    /\ source[d] = "eof" /\ carried[d] = written[d]
    /\ \/ /\ d \notin stop /\ ~lost
          /\ fin' = fin \cup {d}
          /\ UNCHANGED <<clientVars, serverVars, dataVars, stop, shut, aborted,
                         lost>>
       \/ (d \in stop \/ lost) /\ Abort(n)

\* A piece of data from the QUIC stream to TCP, whose other end may be gone.
\* What came before the connection was lost can still be read.
Deliver(n) ==
    LET d == ToTcp(n) IN
    /\ Copying(n) /\ d \notin shut
    /\ got[d] < carried[d]
    /\ \/ /\ source[FromTcp(n)] # "reset"
          /\ got' = [got EXCEPT ![d] = @ + 1]
          /\ UNCHANGED <<clientVars, serverVars, source, written, carried,
                         streamVars, lost>>
       \/ source[FromTcp(n)] = "reset" /\ Abort(n)

\* The end of the QUIC stream: poll_shutdown of the TCP stream.
DeliverEnd(n) ==
    LET d == ToTcp(n) IN
    /\ Copying(n) /\ d \notin shut
    /\ d \in fin /\ got[d] = carried[d]
    /\ shut' = shut \cup {d}
    /\ UNCHANGED <<clientVars, serverVars, dataVars, fin, stop, aborted, lost>>

\* TCP is reset, or reading from a stream of a lost connection fails.
CopyFails(n) ==
    /\ Copying(n)
    /\ \/ source[FromTcp(n)] = "reset" /\ FromTcp(n) \notin fin
       \/ lost /\ ToTcp(n) \notin shut
    /\ Abort(n)

\* Both directions are at their end.
CopyEnds(n) ==
    /\ Copying(n)
    /\ FromTcp(n) \in fin /\ ToTcp(n) \in shut
    /\ StopCopying(n)
    /\ UNCHANGED <<reply, npc, tx, dialed, response, dataVars, streamVars,
                   lost>>

-----------------------------------------------------------------------------
(***************************************************************************)
(* The application, the target and the network.                            *)
(***************************************************************************)

\* The TCP connection of the direction's source is there and not closed by
\* this side.
Connected(d) ==
    IF d = "up" THEN cpc # "done" ELSE dialed /\ spc # "done"

Write(d) ==
    /\ Connected(d) /\ source[d] = "open" /\ written[d] < MaxData
    /\ written' = [written EXCEPT ![d] = @ + 1]
    /\ UNCHANGED <<clientVars, serverVars, source, carried, got, streamVars,
                   lost>>

\* It closes its side, or the connection is reset.
EndSource(d) ==
    /\ Connected(d) /\ source[d] # "reset"
    /\ \/ source[d] = "open" /\ source' = [source EXCEPT ![d] = "eof"]
       \/ source' = [source EXCEPT ![d] = "reset"]
    /\ UNCHANGED <<clientVars, serverVars, written, carried, got, streamVars,
                   lost>>

ConnectionLost ==
    /\ ~lost
    /\ lost' = TRUE
    /\ UNCHANGED <<clientVars, serverVars, dataVars, streamVars>>

NegotiateStep ==
    \/ SendRequest \/ ReplySucceeded \/ ReplyFails \/ ReplyUnreachable
    \/ GetConnection \/ SendConnect \/ ReadAccepted \/ ReadRefused
    \/ FinishStream

ServerStep == PassGate \/ Lookup \/ Dial \/ Respond \/ Refuse

CopyStep(n) ==
    \/ Forward(n) \/ ForwardEnd(n) \/ Deliver(n) \/ DeliverEnd(n)
    \/ CopyFails(n) \/ CopyEnds(n)

Next ==
    \/ NegotiateStep
    \/ ServerStep
    \/ \E n \in Node : CopyStep(n)
    \/ \E d \in Direction : Write(d) \/ EndSource(d)
    \/ ConnectionLost

\* Tasks that can go on do; the request gets a connection or times out, the
\* lookup and the attempts to connect end.  The application and the target
\* may be silent for ever.
Fairness ==
    /\ WF_vars(NegotiateStep)
    /\ WF_vars(ServerStep)
    /\ \A n \in Node : WF_vars(CopyStep(n))

Spec == Init /\ [][Next]_vars /\ Fairness

-----------------------------------------------------------------------------
(***************************************************************************)
(* Properties.                                                             *)
(***************************************************************************)

\* The application is told Succeeded only when the server has its connection
\* to the target: from TcpStream::connect through Response and the oneshot.
SucceededMeansConnected == reply = "succeeded" => dialed

\* A relay that nobody cut is complete: when a sink sees the end, it has got
\* everything its source wrote, whatever the other direction was doing.
OrderlyIsComplete ==
    \A d \in shut :
        got[d] = written[d] \/ aborted # {} \/ reply # "succeeded"

\* A relay is cut only for a reason from outside: a reset of either TCP
\* connection or the loss of the QUIC connection.  In particular one source
\* closing its side, or one node being through before the other, cuts nothing.
CutForAReason ==
    aborted # {} => lost \/ \E d \in Direction : source[d] = "reset"

\* Every SOCKS5 connect request gets a reply or finds the application gone,
\* and the end of the connection is as good as an answer: unless the server's
\* task sleeps at the gate of a connection that stays open, since
\* request_timeout is over by then and the read of the Response has none.
RequestIsAnswered ==
    (cpc = "wait") ~> (cpc # "wait" \/ (spc = "asleep" /\ ~lost))

\* When the application ends, in order or not, before or after the reply, the
\* target sees the end of the relay, and the other way round.
EndIsPassedOn ==
    /\ (source["up"] # "open" /\ dialed) ~> ("up" \in shut)
    /\ (source["down"] # "open") ~> ("down" \in shut)
=============================================================================
