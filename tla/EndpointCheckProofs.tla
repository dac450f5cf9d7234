------------------------ MODULE EndpointCheckProofs ------------------------
(***************************************************************************)
(* Theorems about EndpointCheck for every length of a host name and every  *)
(* number of early bytes.                                                  *)
(***************************************************************************)
EXTENDS EndpointCheck, TLAPS

(***************************************************************************)
(* The legs follow each other: one that was entered before has come to its *)
(* end, and nothing has been dialled for one that comes later.             *)
(***************************************************************************)
LegInv ==
    /\ pc = "entry" => \A d \in Leg : at[d] = "none"
    /\ pc = "trace" => at["gateway"] = "none" /\ at["api"] = "none"
    /\ pc = "gateway" => at["trace"] = "used" /\ at["api"] = "none"
    /\ pc = "api" => at["trace"] = "used" /\ at["gateway"] = "used"
    /\ verified => pc = "returned" /\ \A d \in Leg : at[d] = "used"

(***************************************************************************)
(* What was read of the reply when the dial stands at each of its reads,   *)
(* and what of the reply has been accepted by then.                        *)
(***************************************************************************)
BytesInv(d) ==
    /\ at[d] \in {"none", "connecting", "greeting", "method"} => taken[d] = 0
    /\ at[d] \in {"request", "header"} =>
           taken[d] = 2 /\ reply[d].kind # "refuses"
    /\ at[d] = "length" => taken[d] = 6 /\ reply[d].kind = "domain"
    /\ at[d] = "address" =>
           \/ taken[d] = 6 /\ reply[d].kind \in {"ipv4", "ipv6"}
           \/ taken[d] = 7 /\ reply[d].kind = "domain"
    /\ at[d] \in {"handed", "exchange"} =>
           /\ reply[d].kind \in {"ipv4", "ipv6", "domain"}
           /\ taken[d] = ReplyLength(reply[d])

DialInv(d) ==
    /\ BytesInv(d)
    /\ taken[d] <= arrived[d]
    /\ at[d] = "failed" => conn[d] # "open"

Types ==
    /\ SocksTypeOK
    /\ pc \in Leg \union {"entry", "returned"}
    /\ verified \in BOOLEAN

IInv == Types /\ LegInv /\ \A d \in Leg : DialInv(d)

-----------------------------------------------------------------------------
(* A reply is a record of a kind and the length of a host name. *)
LEMMA ReplyFields ==
    ASSUME NEW r \in Reply
    PROVE  /\ r.kind \in {"refuses", "denies", "ipv4", "ipv6", "domain"}
           /\ r.host \in 0..255
           /\ Address(r) \in Nat
           /\ ReplyLength(r) \in Nat
  BY HostLengthAssumption DEF Reply, Address, ReplyLength

LEMMA NoReplyIsReply == NoReply \in Reply
  BY DEF NoReply, Reply

LEMMA Legs == Leg = {"trace", "api", "gateway"}
  BY DEF Leg, Http

-----------------------------------------------------------------------------
LEMMA InitEstablishes == Init => IInv
  <1> SUFFICES ASSUME Init PROVE IInv
    OBVIOUS
  <1> USE DEF Init, SocksInit
  <1>1. Types
    BY NoReplyIsReply DEF Types, SocksTypeOK, Place, Shaking, Writing, Reading
  <1>2. LegInv
    BY Legs DEF LegInv
  <1>3. \A d \in Leg : DialInv(d)
    BY DEF DialInv, BytesInv
  <1> QED
    BY <1>1, <1>2, <1>3 DEF IInv

(* A step that leaves a leg's dial alone keeps what is known of it. *)
LEMMA OtherLegs ==
    ASSUME NEW e \in Leg, DialInv(e),
           at'[e] = at[e], conn'[e] = conn[e], reply'[e] = reply[e],
           arrived'[e] = arrived[e], taken'[e] = taken[e]
    PROVE  DialInv(e)'
  BY DEF DialInv, BytesInv

-----------------------------------------------------------------------------
(* Places. *)
LEMMA Places ==
    /\ Shaking = {"greeting", "request", "method", "header", "length",
                  "address"}
    /\ Place = {"none", "connecting", "handed", "exchange", "used", "failed",
                "greeting", "request", "method", "header", "length",
                "address"}
  BY DEF Place, Shaking, Writing, Reading

(* A step within a dial keeps the order of the legs: it neither leaves a   *)
(* leg that was used nor begins one.                                       *)
LEMMA LegsStay ==
    ASSUME IInv, NEW d \in Leg,
           pc' = pc, verified' = verified, at[d] \notin {"none", "used"},
           \A e \in Leg \ {d} : at'[e] = at[e]
    PROVE  LegInv'
  BY Legs DEF IInv, LegInv

(* A step of a dial that hands on or waits. *)
LEMMA WriteKeeps ==
    ASSUME IInv, NEW d \in Leg, Write(d), UNCHANGED <<pc, verified>>
    PROVE  IInv'
  <1> USE DEF Write, Writing
  <1>1. at' = [at EXCEPT ![d] = IF at[d] = "greeting" THEN "method"
                                ELSE "header"]
        /\ UNCHANGED conn
    BY DEF Leave
  <1>2. Types'
    BY <1>1, Places DEF IInv, Types, SocksTypeOK
  <1>3. LegInv'
    BY <1>1, LegsStay DEF IInv, Types, SocksTypeOK
  <1>4. \A e \in Leg : DialInv(e)'
    <2> SUFFICES ASSUME NEW e \in Leg PROVE DialInv(e)'
      OBVIOUS
    <2>1. CASE e = d
      BY <2>1, <1>1 DEF IInv, Types, SocksTypeOK, DialInv, BytesInv
    <2>2. CASE e # d
      BY <2>2, <1>1, OtherLegs DEF IInv, Types, SocksTypeOK
    <2> QED
      BY <2>1, <2>2
  <1> QED
    BY <1>2, <1>3, <1>4 DEF IInv

(* A read takes what the reply still owes at this place, and goes on to a  *)
(* place that knows what has been accepted.                                *)
LEMMA ReadKeeps ==
    ASSUME IInv, NEW d \in Leg, Read(d), UNCHANGED <<pc, verified>>
    PROVE  IInv'
  <1> USE DEF Read, Reading
  <1>1. /\ reply[d] \in Reply /\ taken[d] \in Nat /\ arrived[d] \in Nat
        /\ DialInv(d)
    BY DEF IInv, Types, SocksTypeOK
  <1>2. /\ reply[d].kind \in {"refuses", "denies", "ipv4", "ipv6", "domain"}
        /\ reply[d].host \in 0..255
        /\ Address(reply[d]) \in Nat
    BY <1>1, ReplyFields
  <1>3. Need(d) \in Nat
    BY <1>2 DEF Need
  <1>4. /\ taken'[d] = taken[d] + Need(d) /\ taken' \in [Leg -> Nat]
        /\ \A e \in Leg \ {d} : taken'[e] = taken[e]
    BY <1>1, <1>3 DEF IInv, Types, SocksTypeOK
  <1>5. AfterRead(d) \in {"failed", "request", "length", "address", "handed"}
    BY <1>2 DEF AfterRead
  <1>6. /\ at' = [at EXCEPT ![d] = AfterRead(d)]
        /\ at'[d] = AfterRead(d)
        /\ \A e \in Leg \ {d} : at'[e] = at[e] /\ conn'[e] = conn[e]
        /\ conn' \in [Leg -> {"none", "open", "closed"}]
        /\ AfterRead(d) = "failed" => conn'[d] = "closed"
    BY <1>5 DEF Leave, IInv, Types, SocksTypeOK
  <1>7. Types'
    BY <1>4, <1>5, <1>6, Places DEF IInv, Types, SocksTypeOK
  <1>8. LegInv'
    BY <1>6, LegsStay
  <1>9. BytesInv(d)'
    <2>1. CASE at[d] = "method"
      <3>1. Need(d) = 2 /\ taken[d] = 0
        BY <2>1, <1>1 DEF Need, DialInv, BytesInv
      <3>2. AfterRead(d) = IF reply[d].kind = "refuses" THEN "failed"
                           ELSE "request"
        BY <2>1 DEF AfterRead
      <3> QED
        BY <3>1, <3>2, <1>4, <1>6 DEF BytesInv
    <2>2. CASE at[d] = "header"
      <3>1. Need(d) = 4 /\ taken[d] = 2 /\ reply[d].kind # "refuses"
        BY <2>2, <1>1 DEF Need, DialInv, BytesInv
      <3>2. AfterRead(d) = IF reply[d].kind = "denies" THEN "failed"
                           ELSE IF reply[d].kind = "domain" THEN "length"
                           ELSE "address"
        BY <2>2 DEF AfterRead
      <3> QED
        BY <3>1, <3>2, <1>2, <1>4, <1>6 DEF BytesInv
    <2>3. CASE at[d] = "length"
      <3>1. Need(d) = 1 /\ taken[d] = 6 /\ reply[d].kind = "domain"
        BY <2>3, <1>1 DEF Need, DialInv, BytesInv
      <3>2. AfterRead(d) = IF reply[d].host = 0 THEN "failed" ELSE "address"
        BY <2>3 DEF AfterRead
      <3> QED
        BY <3>1, <3>2, <1>4, <1>6 DEF BytesInv
    <2>4. CASE at[d] = "address"
      <3>1. Need(d) = Address(reply[d]) + 2 /\ AfterRead(d) = "handed"
        BY <2>4 DEF Need, AfterRead
      <3>2. CASE reply[d].kind \in {"ipv4", "ipv6"}
        <4>1. taken[d] = 6
          BY <2>4, <3>2, <1>1 DEF DialInv, BytesInv
        <4>2. ReplyLength(reply[d]) = 2 + 4 + Address(reply[d]) + 2
          BY <3>2 DEF ReplyLength
        <4> QED
          BY <3>1, <3>2, <4>1, <4>2, <1>2, <1>4, <1>6 DEF BytesInv
      <3>3. CASE reply[d].kind \notin {"ipv4", "ipv6"}
        <4>1. taken[d] = 7 /\ reply[d].kind = "domain"
          BY <2>4, <3>3, <1>1 DEF DialInv, BytesInv
        <4>2. /\ ReplyLength(reply[d]) = 2 + 4 + (1 + reply[d].host) + 2
              /\ Address(reply[d]) = reply[d].host
          BY <4>1 DEF ReplyLength, Address
        <4> QED
          BY <3>1, <4>1, <4>2, <1>2, <1>4, <1>6 DEF BytesInv
      <3> QED
        BY <3>2, <3>3
    <2> QED
      BY <2>1, <2>2, <2>3, <2>4
  <1>10. \A e \in Leg : DialInv(e)'
    <2> SUFFICES ASSUME NEW e \in Leg PROVE DialInv(e)'
      OBVIOUS
    <2>1. CASE e = d
      BY <2>1, <1>1, <1>3, <1>4, <1>6, <1>9 DEF DialInv
    <2>2. CASE e # d
      BY <2>2, <1>4, <1>6, OtherLegs DEF IInv
    <2> QED
      BY <2>1, <2>2
  <1> QED
    BY <1>7, <1>8, <1>10 DEF IInv

(* A dial or a TLS handshake that fails, for whatever reason, closes the   *)
(* connection.                                                             *)
LEMMA FailureKeeps ==
    ASSUME IInv, NEW d \in Leg, Leave(d, "failed"),
           at[d] \notin {"none", "used"},
           UNCHANGED <<overdue, limit, watcher, reply, arrived, taken, hungUp,
                       done, pc, verified>>
    PROVE  IInv'
  <1>1. /\ at' = [at EXCEPT ![d] = "failed"]
        /\ conn' = [conn EXCEPT ![d] = "closed"]
    BY DEF Leave
  <1>2. Types'
    BY <1>1, Places DEF IInv, Types, SocksTypeOK
  <1>3. LegInv'
    BY <1>1, LegsStay DEF IInv, Types, SocksTypeOK
  <1>4. \A e \in Leg : DialInv(e)'
    <2> SUFFICES ASSUME NEW e \in Leg PROVE DialInv(e)'
      OBVIOUS
    <2>1. CASE e = d
      BY <2>1, <1>1 DEF IInv, Types, SocksTypeOK, DialInv, BytesInv
    <2>2. CASE e # d
      BY <2>2, <1>1, OtherLegs DEF IInv, Types, SocksTypeOK
    <2> QED
      BY <2>1, <2>2
  <1> QED
    BY <1>2, <1>3, <1>4 DEF IInv

(* Bytes arrive; none are taken back. *)
LEMMA ArriveKeeps ==
    ASSUME IInv, NEW d \in Leg, Arrive(d), UNCHANGED <<pc, verified>>
    PROVE  IInv'
  <1>1. /\ arrived[d] \in Nat
        /\ ReplyLength(reply[d]) \in Nat
    BY ReplyFields DEF IInv, Types, SocksTypeOK
  <1>2. PICK n \in (arrived[d] + 1)..(ReplyLength(reply[d]) + Early) :
            arrived' = [arrived EXCEPT ![d] = n]
    BY DEF Arrive
  <1>3. n \in Nat /\ n > arrived[d]
    BY <1>1, EarlyAssumption
  <1>4. Types'
    BY <1>2, <1>3 DEF Arrive, IInv, Types, SocksTypeOK
  <1>5. LegInv'
    BY DEF Arrive, IInv, LegInv
  <1>6. \A e \in Leg : DialInv(e)'
    <2> SUFFICES ASSUME NEW e \in Leg PROVE DialInv(e)'
      OBVIOUS
    <2>1. CASE e = d
      BY <2>1, <1>1, <1>2, <1>3
         DEF Arrive, IInv, Types, SocksTypeOK, DialInv, BytesInv
    <2>2. CASE e # d
      BY <2>2, <1>2, OtherLegs DEF Arrive, IInv, Types, SocksTypeOK
    <2> QED
      BY <2>1, <2>2
  <1> QED
    BY <1>4, <1>5, <1>6 DEF IInv

(* TCP connects: the first bytes of the reply are still to come. *)
LEMMA ConnectKeeps ==
    ASSUME IInv, NEW d \in Leg, Connect(d), UNCHANGED <<pc, verified>>
    PROVE  IInv'
  <1> USE DEF Connect
  <1>1. PICK r \in Reply : reply' = [reply EXCEPT ![d] = r]
    OBVIOUS
  <1>2. DeadlineOf(d) \in {"none", "ctx"}
    BY DEF DeadlineOf
  <1>3. Types'
    BY <1>1, <1>2, Places DEF IInv, Types, SocksTypeOK
  <1>4. LegInv'
    BY LegsStay DEF IInv, Types, SocksTypeOK
  <1>5. \A e \in Leg : DialInv(e)'
    <2> SUFFICES ASSUME NEW e \in Leg PROVE DialInv(e)'
      OBVIOUS
    <2>1. CASE e = d
      BY <2>1 DEF IInv, Types, SocksTypeOK, DialInv, BytesInv
    <2>2. CASE e # d
      BY <2>2, <1>1, OtherLegs DEF IInv, Types, SocksTypeOK
    <2> QED
      BY <2>1, <2>2
  <1> QED
    BY <1>3, <1>4, <1>5 DEF IInv

(* What touches neither the place of a dial nor its bytes. *)
LEMMA QuietKeeps ==
    ASSUME IInv,
           UNCHANGED <<at, conn, reply, arrived, taken, pc, verified>>,
           done' \subseteq Context, overdue' \in BOOLEAN,
           limit' \in [Leg -> {"none", "ctx", "past"}],
           watcher' \in [Leg -> {"none", "watching", "gone"}],
           hungUp' \in [Leg -> BOOLEAN]
    PROVE  IInv'
  BY DEF IInv, Types, SocksTypeOK, LegInv, DialInv, BytesInv

LEMMA SocketKeeps ==
    ASSUME IInv, NEW d \in Leg, Socket(d)
    PROVE  IInv'
  <1>0. UNCHANGED <<pc, verified>>
    BY DEF Socket
  <1>1. CASE ConnectCut(d) \/ ConnectFails(d)
    BY <1>0, <1>1, FailureKeeps DEF ConnectCut, ConnectFails
  <1>2. CASE Write(d)
    BY <1>0, <1>2, WriteKeeps
  <1>3. CASE Read(d)
    BY <1>0, <1>3, ReadKeeps
  <1>4. CASE IoFails(d)
    BY <1>0, <1>4, FailureKeeps, Places DEF IoFails
  <1>5. CASE Interrupt(d)
    BY <1>0, <1>5, QuietKeeps DEF Interrupt, IInv, Types, SocksTypeOK
  <1>6. CASE Dismiss(d)
    BY <1>0, <1>6, QuietKeeps DEF Dismiss, IInv, Types, SocksTypeOK
  <1>7. CASE Arrive(d)
    BY <1>0, <1>7, ArriveKeeps
  <1>8. CASE HangUp(d)
    BY <1>0, <1>8, QuietKeeps DEF HangUp, IInv, Types, SocksTypeOK
  <1>9. CASE Connect(d)
    BY <1>0, <1>9, ConnectKeeps
  <1> QED
    BY <1>1, <1>2, <1>3, <1>4, <1>5, <1>6, <1>7, <1>8, <1>9
       DEF Socket, DialRuns, WatcherRuns, NetworkActs

-----------------------------------------------------------------------------
(* TLS is through, and the leg still waits for it or does not. *)
LEMMA TlsDoneKeeps ==
    ASSUME IInv, NEW d \in Leg, TlsDone(d)
    PROVE  IInv'
  <1> USE DEF TlsDone
  <1>1. CASE pc = d
    <2>1. at' = [at EXCEPT ![d] = "exchange"] /\ UNCHANGED conn
      BY <1>1 DEF Leave
    <2>2. Types'
      BY <2>1, Places DEF IInv, Types, SocksTypeOK
    <2>3. LegInv'
      BY <2>1, LegsStay DEF IInv, Types, SocksTypeOK
    <2>4. \A e \in Leg : DialInv(e)'
      <3> SUFFICES ASSUME NEW e \in Leg PROVE DialInv(e)'
        OBVIOUS
      <3>1. CASE e = d
        BY <3>1, <2>1 DEF IInv, Types, SocksTypeOK, DialInv, BytesInv
      <3>2. CASE e # d
        BY <3>2, <2>1, OtherLegs DEF IInv, Types, SocksTypeOK
      <3> QED
        BY <3>1, <3>2
    <2> QED
      BY <2>2, <2>3, <2>4 DEF IInv
  <1>2. CASE pc # d
    BY <1>2, FailureKeeps
  <1> QED
    BY <1>1, <1>2

(* What a leg leaves when it is over: its place is "used", its connection  *)
(* is closed or as it was, and its bytes are forgotten.                    *)
LEMMA OverKeeps ==
    ASSUME IInv, NEW d \in Leg,
           at'[d] = "used", taken'[d] = 0, arrived'[d] = 0
    PROVE  DialInv(d)'
  BY DEF DialInv, BytesInv

LEMMA LegPassesKeeps ==
    ASSUME IInv, NEW d \in Leg, LegPasses(d)
    PROVE  IInv'
  <1> USE DEF LegPasses
  <1>1. /\ limit' = [limit EXCEPT ![d] = "none"]
        /\ reply' = [reply EXCEPT ![d] = NoReply]
        /\ arrived' = [arrived EXCEPT ![d] = 0]
        /\ taken' = [taken EXCEPT ![d] = 0]
        /\ hungUp' = [hungUp EXCEPT ![d] = FALSE]
    BY DEF Forget
  <1>2. /\ conn' \in [Leg -> {"none", "open", "closed"}]
        /\ \A e \in Leg \ {d} : conn'[e] = conn[e]
    BY DEF CloseOwn, IInv, Types, SocksTypeOK
  <1>3. EndedBy(d) \subseteq Context
    BY DEF EndedBy, Context
  <1>4. CASE d = LastLeg
    <2>1. /\ pc' = "returned" /\ verified' = TRUE
          /\ at' = [at EXCEPT ![d] = "used"]
          /\ done' = done \union EndedBy(d) \union {"validation"}
      BY <1>4
    <2>2. done' \subseteq Context
      BY <2>1, <1>3 DEF Context, IInv, Types, SocksTypeOK
    <2>3. Types'
      BY <1>1, <1>2, <2>1, <2>2, NoReplyIsReply, Places
         DEF IInv, Types, SocksTypeOK
    <2>4. LegInv'
      <3>1. d = "api" /\ at["trace"] = "used" /\ at["gateway"] = "used"
        BY <1>4 DEF LastLeg, IInv, LegInv
      <3>2. \A e \in Leg : at'[e] = "used"
        BY <2>1, <3>1, Legs DEF IInv, Types, SocksTypeOK
      <3> QED
        BY <2>1, <3>2 DEF LegInv
    <2>5. \A e \in Leg : DialInv(e)'
      <3> SUFFICES ASSUME NEW e \in Leg PROVE DialInv(e)'
        OBVIOUS
      <3>1. CASE e = d
        BY <3>1, <1>1, <2>1, OverKeeps DEF IInv, Types, SocksTypeOK
      <3>2. CASE e # d
        BY <3>2, <1>1, <1>2, <2>1, OtherLegs DEF IInv, Types, SocksTypeOK
      <3> QED
        BY <3>1, <3>2
    <2> QED
      BY <2>3, <2>4, <2>5 DEF IInv
  <1>5. CASE d # LastLeg
    <2>1. /\ pc' = NextLeg(d) /\ UNCHANGED verified
          /\ at' = [at EXCEPT ![d] = "used", ![NextLeg(d)] = "connecting"]
          /\ done' = done \union EndedBy(d)
      BY <1>5
    <2>2. done' \subseteq Context
      BY <2>1, <1>3 DEF IInv, Types, SocksTypeOK
    <2>3. \/ d = "trace" /\ NextLeg(d) = "gateway"
          \/ d = "gateway" /\ NextLeg(d) = "api"
      BY <1>5, Legs DEF LastLeg, NextLeg
    <2>4. NextLeg(d) \in Leg /\ NextLeg(d) # d /\ at[NextLeg(d)] = "none"
      BY <2>3, Legs DEF IInv, LegInv
    <2>5. /\ at'[d] = "used" /\ at'[NextLeg(d)] = "connecting"
          /\ \A e \in Leg \ {d, NextLeg(d)} : at'[e] = at[e]
      BY <2>1, <2>4 DEF IInv, Types, SocksTypeOK
    <2>6. Types'
      BY <1>1, <1>2, <2>1, <2>2, <2>4, NoReplyIsReply, Places
         DEF IInv, Types, SocksTypeOK
    <2>7. LegInv'
      BY <2>1, <2>3, <2>5, Legs DEF IInv, LegInv
    <2>8. \A e \in Leg : DialInv(e)'
      <3> SUFFICES ASSUME NEW e \in Leg PROVE DialInv(e)'
        OBVIOUS
      <3>1. CASE e = d
        BY <3>1, <1>1, <2>5, OverKeeps DEF IInv, Types, SocksTypeOK
      <3>2. CASE e = NextLeg(d)
        BY <3>2, <1>1, <2>4, <2>5
           DEF IInv, Types, SocksTypeOK, DialInv, BytesInv
      <3>3. CASE e \notin {d, NextLeg(d)}
        BY <3>3, <1>1, <1>2, <2>5, OtherLegs DEF IInv, Types, SocksTypeOK
      <3> QED
        BY <3>1, <3>2, <3>3
    <2> QED
      BY <2>6, <2>7, <2>8 DEF IInv
  <1> QED
    BY <1>4, <1>5

LEMMA LegFailsKeeps ==
    ASSUME IInv, NEW d \in Leg, LegFails(d)
    PROVE  IInv'
  <1> USE DEF LegFails
  <1>1. /\ conn' \in [Leg -> {"none", "open", "closed"}]
        /\ \A e \in Leg : conn'[e] \in {conn[e], "closed"}
    BY DEF CloseOwn, IInv, Types, SocksTypeOK
  <1>2. /\ at' \in [Leg -> Place]
        /\ \A e \in Leg : \/ at'[e] = at[e]
                          \/ at[e] = "exchange" /\ at'[e] = "used"
    BY Places DEF IInv, Types, SocksTypeOK
  <1>3. done' \subseteq Context
    BY DEF EndedBy, Context, IInv, Types, SocksTypeOK
  <1>4. Types'
    BY <1>1, <1>2, <1>3 DEF IInv, Types, SocksTypeOK
  <1>5. LegInv'
    <2>1. verified = FALSE
      BY Legs DEF IInv, LegInv, Types
    <2> QED
      BY <2>1, Legs DEF LegInv
  <1>6. \A e \in Leg : DialInv(e)'
    BY <1>1, <1>2 DEF IInv, DialInv, BytesInv
  <1> QED
    BY <1>4, <1>5, <1>6 DEF IInv

LEMMA TransportClosesKeeps ==
    ASSUME IInv, NEW d \in Leg, TransportCloses(d)
    PROVE  IInv'
  <1> USE DEF TransportCloses
  <1>1. Types'
    BY DEF IInv, Types, SocksTypeOK
  <1>2. LegInv'
    BY DEF IInv, LegInv
  <1>3. \A e \in Leg : DialInv(e)'
    <2> SUFFICES ASSUME NEW e \in Leg PROVE DialInv(e)'
      OBVIOUS
    <2>1. conn'[e] \in {conn[e], "closed"}
      BY DEF IInv, Types, SocksTypeOK
    <2> QED
      BY <2>1 DEF IInv, DialInv, BytesInv
  <1> QED
    BY <1>1, <1>2, <1>3 DEF IInv

LEMMA BeginKeeps ==
    ASSUME IInv, Begin
    PROVE  IInv'
  <1>1. /\ pc = "entry" /\ pc' = "trace"
        /\ at' = [at EXCEPT !["trace"] = "connecting"]
        /\ UNCHANGED <<done, overdue, conn, limit, watcher, reply, arrived,
                       taken, hungUp, verified>>
    BY DEF Begin, Enter, First
  <1>2. /\ at["trace"] = "none" /\ at'["trace"] = "connecting"
        /\ \A e \in Leg \ {"trace"} : at'[e] = at[e] /\ at[e] = "none"
    BY <1>1, Legs DEF IInv, LegInv, Types, SocksTypeOK
  <1>3. Types'
    BY <1>1, Legs, Places DEF IInv, Types, SocksTypeOK
  <1>4. LegInv'
    BY <1>1, <1>2, Legs DEF IInv, LegInv
  <1>5. \A e \in Leg : DialInv(e)'
    BY <1>1, <1>2 DEF IInv, DialInv, BytesInv
  <1> QED
    BY <1>3, <1>4, <1>5 DEF IInv

LEMMA NextKeeps ==
    ASSUME IInv, [Next]_vars
    PROVE  IInv'
  <1>1. CASE Expire
    BY <1>1, QuietKeeps
       DEF Expire, socketVars, Context, IInv, Types, SocksTypeOK
  <1>2. CASE ParentEnds
    BY <1>2, QuietKeeps
       DEF ParentEnds, socketVars, Context, IInv, Types, SocksTypeOK
  <1>3. CASE Refuse
    <2>1. UNCHANGED socksVars /\ pc = "entry" /\ pc' = "returned"
          /\ UNCHANGED verified
      BY <1>3 DEF Refuse
    <2>2. Types'
      BY <2>1 DEF IInv, Types, SocksTypeOK, socksVars, socketVars
    <2>3. LegInv'
      BY <2>1 DEF IInv, LegInv, socksVars, socketVars
    <2>4. \A e \in Leg : DialInv(e)'
      BY <2>1 DEF IInv, DialInv, BytesInv, socksVars, socketVars
    <2> QED
      BY <2>2, <2>3, <2>4 DEF IInv
  <1>4. CASE Begin
    BY <1>4, BeginKeeps
  <1>5. ASSUME NEW d \in Leg, Socket(d) \/ LegStep(d)
        PROVE  IInv'
    <2>1. CASE Socket(d)
      BY <2>1, SocketKeeps
    <2>2. CASE TlsDone(d)
      BY <2>2, TlsDoneKeeps
    <2>3. CASE TlsFails(d)
      BY <2>3, FailureKeeps DEF TlsFails
    <2>4. CASE LegPasses(d)
      BY <2>4, LegPassesKeeps
    <2>5. CASE LegFails(d)
      BY <2>5, LegFailsKeeps
    <2>6. CASE TransportCloses(d)
      BY <2>6, TransportClosesKeeps
    <2> QED
      BY <1>5, <2>1, <2>2, <2>3, <2>4, <2>5, <2>6 DEF LegStep
  <1>6. CASE UNCHANGED vars
    BY <1>6, QuietKeeps
       DEF vars, socksVars, socketVars, IInv, Types, SocksTypeOK
  <1> QED
    BY <1>1, <1>2, <1>3, <1>4, <1>5, <1>6 DEF Next, Terminated

THEOREM Inductive == Spec => []IInv
  BY InitEstablishes, NextKeeps, PTL DEF Spec

-----------------------------------------------------------------------------
(* Every variable keeps to its domain, no read takes what has not come, a  *)
(* failed dial keeps no connection, and an endpoint is verified over three *)
(* legs (socks5.go:46-51, find.go:281-290).                                *)
THEOREM TypeCorrect == Spec => []TypeOK
  <1>1. IInv => TypeOK
    BY DEF IInv, Types, LegInv, DialInv, TypeOK
  <1> QED
    BY <1>1, Inductive, PTL

(* TLS starts at the first byte behind the proxy's whole answer, whatever  *)
(* the type and length of its address and however its bytes come           *)
(* (socks5.go:71-98, 131-155).                                             *)
THEOREM HandOver == Spec => []CleanHandOver
  <1>1. IInv => CleanHandOver
    BY DEF IInv, DialInv, BytesInv, CleanHandOver
  <1> QED
    BY <1>1, Inductive, PTL
=============================================================================
