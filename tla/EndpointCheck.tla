--------------------------- MODULE EndpointCheck ---------------------------
(***************************************************************************)
(* finderConfig.verify (src/internal/proxy/find.go): three legs through    *)
(* one proxy, each over a connection of its own, under one context with a  *)
(* deadline: the trace, the gateway's WebSocket, and the API.              *)
(*                                                                         *)
(* The gateway leg runs in the goroutine of verify. In the HTTP legs the   *)
(* dial and the TLS handshake run in a goroutine of http.Transport, which  *)
(* verify does not wait for once its context has ended.                    *)
(***************************************************************************)
EXTENDS Socks5

VARIABLES
    pc,                     \* "entry", the leg verify is in, or "returned"
    verified                \* it returned the endpoint and a nil error

vars == <<socksVars, pc, verified>>

First == "trace"
NextLeg(d) == IF d = "trace" THEN "gateway" ELSE "api"
LastLeg == "api"

Init ==
    /\ SocksInit
    /\ pc = "entry"
    /\ verified = FALSE

-----------------------------------------------------------------------------
(* The environment: the deadline passes, or the caller's context ends. *)
Expire ==
    /\ ~overdue
    /\ overdue' = TRUE
    /\ done' = done \union {"validation"}
    /\ UNCHANGED <<socketVars, pc, verified>>

ParentEnds ==
    /\ "validation" \notin done
    /\ done' = done \union {"validation"}
    /\ UNCHANGED <<overdue, socketVars, pc, verified>>

-----------------------------------------------------------------------------
(* SanitizeEndpoint refuses the address. *)
Refuse ==
    /\ pc = "entry"
    /\ pc' = "returned"
    /\ UNCHANGED <<socksVars, verified>>

Enter(d) == pc' = d /\ at' = [at EXCEPT ![d] = "connecting"]

Begin ==
    /\ pc = "entry"
    /\ Enter(First)
    /\ UNCHANGED <<done, overdue, conn, limit, watcher, reply, arrived, taken,
                   hungUp, verified>>

(* TLS over the tunnel, in the goroutine that has dialled. A transport     *)
(* that nobody waits for any more closes what it gets.                     *)
TlsDone(d) ==
    /\ at[d] = "handed" /\ ~TimedOut(d)
    /\ Leave(d, IF pc = d THEN "exchange" ELSE "failed")
    /\ UNCHANGED <<done, overdue, limit, watcher, reply, arrived, taken,
                   hungUp, pc, verified>>

TlsFails(d) ==
    /\ at[d] = "handed"
    /\ Leave(d, "failed")
    /\ UNCHANGED <<done, overdue, limit, watcher, reply, arrived, taken,
                   hungUp, pc, verified>>

TlsCut(d) == (Ended(d) \/ TimedOut(d)) /\ TlsFails(d)

(* What is deferred ends with the function that deferred it: a leg of HTTP *)
(* calls CloseIdleConnections, which ends the dial nobody waits for, the   *)
(* gateway leg closes its connection, and verify cancels its context.      *)
NothingEndedBy(d) == {}     \* mutant: no CloseIdleConnections
EndedBy(d) == {d} \intersect Http

CloseOwn(d) == conn' = IF d = "gateway" THEN [conn EXCEPT ![d] = "closed"]
                       ELSE conn

(* Nothing reads from the connection of a leg that is over. *)
Forget(d) ==
    /\ limit' = [limit EXCEPT ![d] = "none"]
    /\ reply' = [reply EXCEPT ![d] = NoReply]
    /\ arrived' = [arrived EXCEPT ![d] = 0]
    /\ taken' = [taken EXCEPT ![d] = 0]
    /\ hungUp' = [hungUp EXCEPT ![d] = FALSE]

(* The WebSocket handshake and the bodies: the answer is there in time and *)
(* is accepted. Any answer may come, so one that passes and one that does  *)
(* not are possible in every exchange.                                     *)
LegPasses(d) ==
    /\ pc = d /\ at[d] = "exchange"
    /\ d = "gateway" => ~TimedOut(d)
    /\ CloseOwn(d)
    /\ IF d = LastLeg
       THEN /\ pc' = "returned" /\ verified' = TRUE
            /\ at' = [at EXCEPT ![d] = "used"]
            /\ done' = done \union EndedBy(d) \union {"validation"}
       ELSE /\ pc' = NextLeg(d)
            /\ at' = [at EXCEPT ![d] = "used", ![NextLeg(d)] = "connecting"]
            /\ done' = done \union EndedBy(d)
            /\ UNCHANGED verified
    /\ Forget(d)
    /\ UNCHANGED <<overdue, watcher>>

(* The leg fails, and verify with it. client.Do gives up as soon as the    *)
(* context has ended; the WebSocket handshake only knows the deadline.     *)
MustFail(d) ==
    \/ at[d] = "failed"
    \/ d \in Http /\ "validation" \in done
    \/ d = "gateway" /\ at[d] = "exchange" /\ TimedOut(d)

MayFail(d) ==
    \/ MustFail(d)
    \/ at[d] = "exchange"

LegFails(d) ==
    /\ pc = d /\ MayFail(d)
    /\ CloseOwn(d)
    /\ pc' = "returned"
    /\ at' = IF at[d] = "exchange" THEN [at EXCEPT ![d] = "used"] ELSE at
    /\ done' = done \union EndedBy(d) \union {"validation"}
    /\ UNCHANGED <<overdue, limit, watcher, reply, arrived, taken, hungUp,
                   verified>>

(* The transport closes the connection behind a response that was read or  *)
(* given up: keep-alive is disabled.                                       *)
TransportCloses(d) ==
    /\ d \in Http /\ at[d] = "used" /\ conn[d] = "open"
    /\ conn' = [conn EXCEPT ![d] = "closed"]
    /\ UNCHANGED <<done, overdue, at, limit, watcher, reply, arrived, taken,
                   hungUp, pc, verified>>

Running(d) == at[d] \in {"connecting", "handed"} \union Shaking

Released ==
    \A d \in Leg : ~Running(d) /\ conn[d] # "open" /\ watcher[d] # "watching"

Terminated == pc = "returned" /\ Released /\ UNCHANGED vars

Socket(d) ==
    /\ DialRuns(d) \/ WatcherRuns(d) \/ NetworkActs(d)
    /\ UNCHANGED <<pc, verified>>

LegStep(d) ==
    \/ TlsDone(d) \/ TlsFails(d)
    \/ LegPasses(d) \/ LegFails(d)
    \/ TransportCloses(d)

Next ==
    \/ Expire \/ ParentEnds
    \/ Refuse \/ Begin
    \/ \E d \in Leg : Socket(d) \/ LegStep(d)
    \/ Terminated

(***************************************************************************)
(* Every goroutine that can go on does. Nothing is asked of the proxy, of  *)
(* the servers behind it or of the caller's context, and the deadline      *)
(* appears in the properties where they need it.                           *)
(***************************************************************************)
Fairness ==
    /\ WF_vars(Refuse \/ Begin)
    /\ \A d \in Leg :
          /\ WF_vars(DialRuns(d) /\ UNCHANGED <<pc, verified>>)
          /\ WF_vars(WatcherRuns(d) /\ UNCHANGED <<pc, verified>>)
          /\ WF_vars(TlsCut(d))
          /\ WF_vars(MustFail(d) /\ LegFails(d))
          /\ WF_vars(TransportCloses(d))

Spec == Init /\ [][Next]_vars
FairSpec == Spec /\ Fairness

-----------------------------------------------------------------------------
(* Every variable keeps to its domain, nothing is read that has not come,  *)
(* a dial that failed, on whichever line, keeps no connection open         *)
(* (socks5.go:46-51), and an endpoint is only returned over three legs     *)
(* (find.go:281-290).                                                      *)
TypeOK ==
    /\ SocksTypeOK
    /\ pc \in Leg \union {"entry", "returned"}
    /\ verified \in BOOLEAN
    /\ \A d \in Leg : /\ taken[d] <= arrived[d]
                      /\ at[d] = "failed" => conn[d] # "open"
                      /\ verified => at[d] = "used"

(* TLS starts at the first byte after the proxy's answer: whatever the     *)
(* type of its address and however its bytes come, a tunnel is handed on   *)
(* only when it was granted and the whole answer, and no byte more, was    *)
(* read (socks5.go:71-98, 131-155).                                        *)
CleanHandOver ==
    \A d \in Leg : at[d] \in {"handed", "exchange"} =>
        /\ reply[d].kind \in {"ipv4", "ipv6", "domain"}
        /\ taken[d] = ReplyLength(reply[d])

(* The deadline bounds verify, also in the WebSocket handshake, which no   *)
(* context reaches, over a proxy that says nothing or a byte at a time     *)
(* (socks5.go:52-56, find.go:277, 436-443).                                *)
DeadlineEndsVerify == overdue ~> pc = "returned"

(* A context that ends before the deadline is heard everywhere but in the  *)
(* WebSocket handshake: in a connect, in each read and write of the SOCKS5 *)
(* dialogue, in TLS and in the HTTP exchange (socks5.go:58-66).            *)
InWebSocket == pc = "gateway" /\ at["gateway"] = "exchange"
CancelIsHeard == "validation" \in done ~> (pc = "returned" \/ InWebSocket)

(* verify leaves nothing behind: the dial an HTTP leg has abandoned ends,  *)
(* although its context has no deadline and the proxy may never answer,    *)
(* every connection is closed and every watcher goes (find.go:311, 376,    *)
(* 351; socks5.go:66).                                                     *)
LeavesNothing == (<>(pc = "returned")) => <>[]Released
=============================================================================
