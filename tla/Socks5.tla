------------------------------- MODULE Socks5 -------------------------------
(***************************************************************************)
(* dialSOCKS5 (src/internal/proxy/socks5.go) in the three calls that a     *)
(* verification makes of it: one per leg, each over a connection, with a   *)
(* deadline and a watcher goroutine of its own.                            *)
(*                                                                         *)
(* The proxy answers what it likes, in pieces of any size, early, late or  *)
(* never; the answer is kept as the number of its bytes that have arrived  *)
(* and that were taken from the socket. The gateway leg dials under the    *)
(* context of the verification. The HTTP legs dial through http.Transport, *)
(* which hands over a context of its own that carries no deadline and that *)
(* CloseIdleConnections ends (net/http of the Go release in src/go.mod).   *)
(***************************************************************************)
EXTENDS Naturals

CONSTANTS
    HostLength,             \* lengths of the bound host names to try
    Early                   \* bound: bytes of the tunnel that come early

ASSUME HostLengthAssumption == HostLength \subseteq 0..255
ASSUME EarlyAssumption == Early \in Nat

Http == {"trace", "api"}
Leg == Http \union {"gateway"}
Context == Http \union {"validation"}

ContextOf(d) == IF d \in Http THEN d ELSE "validation"

VARIABLES
    done,                   \* the contexts that have ended
    overdue,                \* the deadline of the verification has passed
    at,                     \* where the dial of each leg stands
    conn,                   \* its connection: "none", "open" or "closed"
    limit,                  \* deadline of the connection's reads and writes
    watcher,                \* its watcher: "none", "watching" or "gone"
    reply,                  \* what the proxy answers to that dial
    arrived,                \* how many bytes have come from the proxy
    taken,                  \* how many of them were read
    hungUp                  \* the proxy has closed or reset the connection

socketVars == <<at, conn, limit, watcher, reply, arrived, taken, hungUp>>
socksVars == <<done, overdue, socketVars>>

(* A proxy refuses the method; or its header is malformed, has an error    *)
(* code or an unknown type of address; or it grants the tunnel with a      *)
(* bound address of one of the three types.                                *)
Reply ==
    [kind : {"refuses", "denies", "ipv4", "ipv6"}, host : {0}]
        \union [kind : {"domain"}, host : HostLength]

NoReply == [kind |-> "refuses", host |-> 0]

Address(r) == CASE r.kind = "ipv4" -> 4
                [] r.kind = "ipv6" -> 16
                [] r.kind = "domain" -> r.host
                [] OTHER -> 0

(* The length of a reply as RFC 1928 lays it out, after the method's two   *)
(* bytes: four of header, the address with its length if it is a name, and *)
(* two of port.                                                            *)
ReplyLength(r) ==
    CASE r.kind = "refuses" -> 2
      [] r.kind = "denies" -> 2 + 4
      [] r.kind = "domain" -> 2 + 4 + (1 + r.host) + 2
      [] r.kind \in {"ipv4", "ipv6"} -> 2 + 4 + Address(r) + 2

Writing == {"greeting", "request"}
Reading == {"method", "header", "length", "address"}
Shaking == Writing \union Reading
Place == {"none", "connecting", "handed", "exchange", "used", "failed"}
            \union Shaking

SocksInit ==
    /\ done = {} /\ overdue = FALSE
    /\ at = [d \in Leg |-> "none"]
    /\ conn = [d \in Leg |-> "none"]
    /\ limit = [d \in Leg |-> "none"]
    /\ watcher = [d \in Leg |-> "none"]
    /\ reply = [d \in Leg |-> NoReply]
    /\ arrived = [d \in Leg |-> 0]
    /\ taken = [d \in Leg |-> 0]
    /\ hungUp = [d \in Leg |-> FALSE]

-----------------------------------------------------------------------------
(* The network. None of this ever has to happen. *)
Arrive(d) ==
    /\ at[d] \in Shaking /\ ~hungUp[d]
    /\ \E n \in (arrived[d] + 1)..(ReplyLength(reply[d]) + Early) :
          arrived' = [arrived EXCEPT ![d] = n]
    /\ UNCHANGED <<done, overdue, at, conn, limit, watcher, reply, taken,
                   hungUp>>

HangUp(d) ==
    /\ at[d] \in Shaking /\ ~hungUp[d]
    /\ hungUp' = [hungUp EXCEPT ![d] = TRUE]
    /\ UNCHANGED <<done, overdue, at, conn, limit, watcher, reply, arrived,
                   taken>>

(* Every read and write fails once the connection's deadline has passed,   *)
(* also a read of bytes that have arrived.                                 *)
TimedOut(d) == limit[d] = "past" \/ (limit[d] = "ctx" /\ overdue)

Ended(d) == ContextOf(d) \in done

-----------------------------------------------------------------------------
(* The dial. It leaves a place, and closes the connection when it fails:   *)
(* success is still FALSE in the deferred function.                        *)
LeaveOpen(d, place) ==      \* mutant: no deferred Close
    /\ at' = [at EXCEPT ![d] = place]
    /\ UNCHANGED conn

Leave(d, place) ==
    /\ at' = [at EXCEPT ![d] = place]
    /\ conn' = IF place = "failed" THEN [conn EXCEPT ![d] = "closed"] ELSE conn

(* ctx.Deadline() knows the deadline of the verification only when dial's  *)
(* context is, or descends from, the one verify made.                      *)
NoDeadline(d) == "none"     \* mutant: no SetDeadline
DeadlineOf(d) == IF d \in Http THEN "none" ELSE "ctx"

ConnectUnwatched(d) ==      \* mutant: no watcher goroutine
    /\ at[d] = "connecting"
    /\ \E r \in Reply : reply' = [reply EXCEPT ![d] = r]
    /\ at' = [at EXCEPT ![d] = "greeting"]
    /\ conn' = [conn EXCEPT ![d] = "open"]
    /\ limit' = [limit EXCEPT ![d] = DeadlineOf(d)]
    /\ UNCHANGED <<done, overdue, watcher, arrived, taken, hungUp>>

(* TCP connects; the deadline is set, then the watcher is started. *)
Connect(d) ==
    /\ at[d] = "connecting"
    /\ \E r \in Reply : reply' = [reply EXCEPT ![d] = r]
    /\ at' = [at EXCEPT ![d] = "greeting"]
    /\ conn' = [conn EXCEPT ![d] = "open"]
    /\ limit' = [limit EXCEPT ![d] = DeadlineOf(d)]
    /\ watcher' = [watcher EXCEPT ![d] = "watching"]
    /\ UNCHANGED <<done, overdue, arrived, taken, hungUp>>

(* It does not, or its context ends first; or SetDeadline fails. *)
ConnectFails(d) ==
    /\ at[d] = "connecting"
    /\ Leave(d, "failed")
    /\ UNCHANGED <<done, overdue, limit, watcher, reply, arrived, taken,
                   hungUp>>

ConnectCut(d) == Ended(d) /\ ConnectFails(d)

Write(d) ==
    /\ at[d] \in Writing /\ ~TimedOut(d)
    /\ Leave(d, IF at[d] = "greeting" THEN "method" ELSE "header")
    /\ UNCHANGED <<done, overdue, limit, watcher, reply, arrived, taken,
                   hungUp>>

(* What io.ReadFull asks for at each place. *)
NeedWithoutPort(d) ==       \* mutant: the port is not part of the address
    CASE at[d] = "method" -> 2
      [] at[d] = "header" -> 4
      [] at[d] = "length" -> 1
      [] OTHER -> Address(reply[d])

Need(d) == CASE at[d] = "method" -> 2
             [] at[d] = "header" -> 4
             [] at[d] = "length" -> 1
             [] OTHER -> Address(reply[d]) + 2

AfterRead(d) ==
    LET kind == reply[d].kind
    IN  CASE at[d] = "method" -> IF kind = "refuses" THEN "failed"
                                 ELSE "request"
          [] at[d] = "header" -> IF kind = "denies" THEN "failed"
                                 ELSE IF kind = "domain" THEN "length"
                                 ELSE "address"
          [] at[d] = "length" -> IF reply[d].host = 0 THEN "failed"
                                 ELSE "address"
          [] OTHER -> "handed"

Read(d) ==
    /\ at[d] \in Reading /\ ~TimedOut(d)
    /\ arrived[d] - taken[d] >= Need(d)
    /\ taken' = [taken EXCEPT ![d] = @ + Need(d)]
    /\ Leave(d, AfterRead(d))
    /\ UNCHANGED <<done, overdue, limit, watcher, reply, arrived, hungUp>>

IoFails(d) ==
    /\ at[d] \in Shaking
    /\ TimedOut(d) \/ hungUp[d]
    /\ Leave(d, "failed")
    /\ UNCHANGED <<done, overdue, limit, watcher, reply, arrived, taken,
                   hungUp>>

(* The watcher waits for the end of the context or of the dial; when both  *)
(* are there it may take either.                                           *)
Interrupt(d) ==
    /\ watcher[d] = "watching" /\ Ended(d)
    /\ watcher' = [watcher EXCEPT ![d] = "gone"]
    /\ limit' = [limit EXCEPT ![d] = "past"]
    /\ UNCHANGED <<done, overdue, at, conn, reply, arrived, taken, hungUp>>

Dismiss(d) ==
    /\ watcher[d] = "watching" /\ at[d] \notin Shaking
    /\ watcher' = [watcher EXCEPT ![d] = "gone"]
    /\ UNCHANGED <<done, overdue, at, conn, limit, reply, arrived, taken,
                   hungUp>>

DialRuns(d) == ConnectCut(d) \/ Write(d) \/ Read(d) \/ IoFails(d)
WatcherRuns(d) == Interrupt(d) \/ Dismiss(d)
NetworkActs(d) == Arrive(d) \/ HangUp(d) \/ Connect(d) \/ ConnectFails(d)

SocksTypeOK ==
    /\ done \subseteq Context
    /\ overdue \in BOOLEAN
    /\ at \in [Leg -> Place]
    /\ conn \in [Leg -> {"none", "open", "closed"}]
    /\ limit \in [Leg -> {"none", "ctx", "past"}]
    /\ watcher \in [Leg -> {"none", "watching", "gone"}]
    /\ reply \in [Leg -> Reply]
    /\ arrived \in [Leg -> Nat]
    /\ taken \in [Leg -> Nat]
    /\ hungUp \in [Leg -> BOOLEAN]
=============================================================================
