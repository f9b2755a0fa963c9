---------------------------- MODULE ConnectionProofs ----------------------------
(***************************************************************************)
(* Proofs about Endpoint and its Connection, for any number of frames and  *)
(* any size of read, with or without the timeouts: every completion of a   *)
(* read, a write, a posted call or a timer finds the connection in a state *)
(* that it can deal with.                                                  *)
(***************************************************************************)
EXTENDS Endpoint, WellFoundedInduction, SequenceTheorems, FiniteSetTheorems, TLAPS

TimerSet ==
    [kind : {"post_init", "open", "close", "shutdown"},
     status : {"armed", "cancelled", "expired", "handled"},
     tstat : {"unknown", "failed", "closed"}]
Timers == Seq(TimerSet)
Errors == {"none", "error", "eof", "pass_through", "open_timeout", "close_timeout"}
Messages == [op : {"text", "pong", "close"}, n : Nat, terminal : BOOLEAN]
EndpointSettings == [handlers : SUBSET Handlers, limits : [DOMAIN config -> Nat]]

-----------------------------------------------------------------------------
(* Every nonempty set of naturals has a least element.                     *)
LEMMA LeastNatural ==
    ASSUME NEW T, T \subseteq Nat, T # {}
    PROVE  \E m \in T : \A k \in T : m <= k
<1> DEFINE R == OpToRel(<, Nat)
<1>1. ASSUME NEW k \in T, NEW m \in T, k < m
      PROVE  <<k, m>> \in R
  BY <1>1 DEF OpToRel
<1>2. IsWellFoundedOn(R, Nat)
  BY NatLessThanWellFounded
<1> HIDE DEF R
<1>3. PICK m \in T : \A k \in T : ~(<<k, m>> \in R)
  BY <1>2, WFMin
<1>4. \A k \in T : ~(k < m)
  BY <1>1, <1>3
<1> QED
  BY <1>4

(* Sequences of at most one element, which is all that is ever in flight.  *)
LEMMA OneInFlight ==
    ASSUME NEW x
    PROVE  /\ Head(<<x>>) = x /\ Tail(<<x>>) = <<>> /\ Append(<<>>, x) = <<x>>
           /\ <<x>> # <<>> /\ Len(<<x>>) = 1 /\ Len(<<>>) = 0
OBVIOUS

(* Taking messages off a queue: there is a first terminal one, or none.    *)
LEMMA BatchEnds ==
    ASSUME NEW q \in Seq(Messages)
    PROVE  /\ Batch(q) \in 0 .. Len(q)
           /\ \A k \in 1 .. Batch(q) - 1 : ~q[k].terminal
           /\ Batch(q) = Len(q) \/ (Batch(q) > 0 /\ q[Batch(q)].terminal)
<1> DEFINE Terminal == {k \in 1 .. Len(q) : q[k].terminal}
           Ends(n) == /\ \A k \in 1 .. n - 1 : ~q[k].terminal
                      /\ n = Len(q) \/ (n > 0 /\ q[n].terminal)
<1>1. \E n \in 0 .. Len(q) : Ends(n)
  <2>1. CASE Terminal = {}
    <3>1. Len(q) \in 0 .. Len(q) /\ Ends(Len(q))
      BY <2>1
    <3> QED
      BY <3>1
  <2>2. CASE Terminal # {}
    <3>1. PICK m \in Terminal : \A k \in Terminal : m <= k
      BY <2>2, LeastNatural, Terminal \subseteq Nat
    <3>2. m \in 0 .. Len(q) /\ Ends(m)
      BY <3>1
    <3> QED
      BY <3>2
  <2> QED
    BY <2>1, <2>2
<1>2. Batch(q) = CHOOSE n \in 0 .. Len(q) : Ends(n)
  BY DEF Batch
<1> HIDE DEF Ends
<1>3. Batch(q) \in 0 .. Len(q) /\ Ends(Batch(q))
  BY <1>1, <1>2
<1> QED
  BY <1>3 DEF Ends

-----------------------------------------------------------------------------
(* Timers: what is set is appended, and nothing else changes than a status.*)
LEMMA SetTimerEffect ==
    ASSUME NEW ts \in Timers, NEW kind \in {"post_init", "open", "close", "shutdown"}
    PROVE  /\ SetTimer(ts, kind) \in Timers
           /\ Len(SetTimer(ts, kind)) = Len(ts) + 1
           /\ \A k \in 1 .. Len(ts) : SetTimer(ts, kind)[k] = ts[k]
           /\ SetTimer(ts, kind)[Len(ts) + 1] = [kind |-> kind, status |-> "armed", tstat |-> "unknown"]
           /\ SetTimer(ts, kind)[Len(ts) + 1].kind = kind
           /\ Len(ts) \in Nat
<1>1. [kind |-> kind, status |-> "armed", tstat |-> "unknown"] \in TimerSet
  BY DEF TimerSet
<1> QED
  BY <1>1, AppendProperties DEF SetTimer, Timers

Replaced(ts, k, t) == [ts EXCEPT ![k] = t]
WithStatus(ts, k, s) == [ts EXCEPT ![k].status = s]

LEMMA ReplacedEffect ==
    ASSUME NEW ts \in Timers, NEW k \in 1 .. Len(ts), NEW t \in TimerSet
    PROVE  /\ Replaced(ts, k, t) \in Timers
           /\ Len(Replaced(ts, k, t)) = Len(ts)
           /\ \A j \in 1 .. Len(ts) : Replaced(ts, k, t)[j] = IF j = k THEN t ELSE ts[j]
BY ExceptSeq DEF Timers, Replaced

LEMMA WithStatusEffect ==
    ASSUME NEW ts \in Timers, NEW k \in 1 .. Len(ts),
           NEW s \in {"armed", "cancelled", "expired", "handled"}
    PROVE  /\ WithStatus(ts, k, s) \in Timers /\ Len(WithStatus(ts, k, s)) = Len(ts)
           /\ \A j \in 1 .. Len(ts) :
                /\ WithStatus(ts, k, s)[j].kind = ts[j].kind
                /\ WithStatus(ts, k, s)[j].tstat = ts[j].tstat
                /\ WithStatus(ts, k, s)[j].status = IF j = k THEN s ELSE ts[j].status
                /\ j # k => WithStatus(ts, k, s)[j] = ts[j]
<1> DEFINE t == [ts[k] EXCEPT !.status = s]
<1>1. ts[k] \in TimerSet
  BY DEF Timers
<1>2. t \in TimerSet /\ t.kind = ts[k].kind /\ t.tstat = ts[k].tstat /\ t.status = s
  BY <1>1 DEF TimerSet
<1>3. WithStatus(ts, k, s) = Replaced(ts, k, t)
  BY DEF WithStatus, Replaced
<1> HIDE DEF t
<1>4. /\ WithStatus(ts, k, s) \in Timers /\ Len(WithStatus(ts, k, s)) = Len(ts)
      /\ \A j \in 1 .. Len(ts) : WithStatus(ts, k, s)[j] = IF j = k THEN t ELSE ts[j]
  <2>1. /\ Replaced(ts, k, t) \in Timers /\ Len(Replaced(ts, k, t)) = Len(ts)
        /\ \A j \in 1 .. Len(ts) : Replaced(ts, k, t)[j] = IF j = k THEN t ELSE ts[j]
    BY <1>2, ReplacedEffect
  <2> QED
    BY <1>3, <2>1
<1>5. ASSUME NEW j \in 1 .. Len(ts)
      PROVE  /\ WithStatus(ts, k, s)[j].kind = ts[j].kind
             /\ WithStatus(ts, k, s)[j].tstat = ts[j].tstat
             /\ WithStatus(ts, k, s)[j].status = IF j = k THEN s ELSE ts[j].status
             /\ j # k => WithStatus(ts, k, s)[j] = ts[j]
  <2>1. CASE j = k
    BY <1>2, <1>4, <2>1
  <2>2. CASE j # k
    BY <1>4, <2>2
  <2> QED
    BY <2>1, <2>2
<1> QED
  BY <1>4, <1>5

LEMMA CancelledEffect ==
    ASSUME NEW ts \in Timers, NEW k \in 0 .. Len(ts)
    PROVE  /\ Cancelled(ts, k) \in Timers
           /\ Len(Cancelled(ts, k)) = Len(ts)
           /\ \A j \in 1 .. Len(ts) :
                /\ Cancelled(ts, k)[j].kind = ts[j].kind
                /\ Cancelled(ts, k)[j].tstat = ts[j].tstat
                /\ Cancelled(ts, k)[j].status =
                       IF j = k /\ ts[j].status = "armed" THEN "cancelled" ELSE ts[j].status
                /\ j # k => Cancelled(ts, k)[j] = ts[j]
<1>1. CASE k # 0 /\ ts[k].status = "armed"
  <2>1. k \in 1 .. Len(ts) /\ Cancelled(ts, k) = WithStatus(ts, k, "cancelled")
    BY <1>1 DEF Cancelled, WithStatus
  <2>2. /\ WithStatus(ts, k, "cancelled") \in Timers /\ Len(WithStatus(ts, k, "cancelled")) = Len(ts)
        /\ \A j \in 1 .. Len(ts) :
             /\ WithStatus(ts, k, "cancelled")[j].kind = ts[j].kind
             /\ WithStatus(ts, k, "cancelled")[j].tstat = ts[j].tstat
             /\ WithStatus(ts, k, "cancelled")[j].status = IF j = k THEN "cancelled" ELSE ts[j].status
             /\ j # k => WithStatus(ts, k, "cancelled")[j] = ts[j]
    BY <2>1, WithStatusEffect
  <2> QED
    BY <1>1, <2>1, <2>2
<1>2. CASE ~(k # 0 /\ ts[k].status = "armed")
  BY <1>2 DEF Cancelled
<1> QED
  BY <1>1, <1>2

(* The end of a connection: the shutdown timer is set, and has either been *)
(* cancelled by the time that the end is told, or has run out before it.   *)
LEMMA AsyncShutdownEffect ==
    ASSUME NEW ts \in Timers, NEW tstat \in {"failed", "closed"}, AsyncShutdown(ts, tstat)
    PROVE  /\ timers' \in Timers /\ Len(timers') = Len(ts) + 1
           /\ \A j \in 1 .. Len(ts) : timers'[j] = ts[j]
           /\ timers'[Len(ts) + 1].kind = "shutdown" /\ timers'[Len(ts) + 1].tstat = tstat
           /\ socket' = "shut"
           /\ \/ timers'[Len(ts) + 1].status = "cancelled" /\ ended' = Append(ended, tstat)
              \/ timers'[Len(ts) + 1].status = "expired" /\ ended' = ended
<1> DEFINE last == Len(ts) + 1
           set == SetTimer(ts, "shutdown")
           t == [kind |-> "shutdown", status |-> "armed", tstat |-> tstat]
           before == Replaced(set, last, t)
<1>1. /\ set \in Timers /\ Len(set) = last
      /\ \A k \in 1 .. Len(ts) : set[k] = ts[k]
      /\ set[last] = [kind |-> "shutdown", status |-> "armed", tstat |-> "unknown"]
  BY SetTimerEffect
<1>2. Len(ts) \in Nat /\ last \in Nat /\ last \in 1 .. last
  BY DEF Timers
<1>3. t \in TimerSet /\ t.kind = "shutdown" /\ t.status = "armed" /\ t.tstat = tstat
  BY DEF TimerSet
<1>4. [set EXCEPT ![last].tstat = tstat] = before
  BY <1>1 DEF Replaced
<1>5. socket' = "shut" /\ HandleAsyncShutdown(before, tstat)
  BY <1>4 DEF AsyncShutdown, ShutdownBoth
<1> HIDE DEF set, t
<1>6. /\ before \in Timers /\ Len(before) = last /\ before[last] = t
      /\ \A k \in 1 .. Len(ts) : before[k] = ts[k]
  <2>1. /\ before \in Timers /\ Len(before) = Len(set)
        /\ \A j \in 1 .. Len(set) : before[j] = IF j = last THEN t ELSE set[j]
    BY <1>1, <1>2, <1>3, ReplacedEffect
  <2> QED
    BY <2>1, <1>1, <1>2
<1> HIDE DEF before
<1>7. ASSUME NEW s \in {"cancelled", "expired"}, timers' = WithStatus(before, last, s)
      PROVE  /\ timers' \in Timers /\ Len(timers') = last
             /\ \A j \in 1 .. Len(ts) : timers'[j] = ts[j]
             /\ timers'[last].kind = "shutdown" /\ timers'[last].tstat = tstat
             /\ timers'[last].status = s
  <2>1. /\ timers' \in Timers /\ Len(timers') = last
        /\ \A j \in 1 .. last :
             /\ timers'[j].kind = before[j].kind /\ timers'[j].tstat = before[j].tstat
             /\ timers'[j].status = IF j = last THEN s ELSE before[j].status
             /\ j # last => timers'[j] = before[j]
    BY <1>2, <1>6, <1>7, WithStatusEffect
  <2> QED
    BY <2>1, <1>2, <1>3, <1>6
<1>8. CASE timers' = Cancelled(before, Len(before)) /\ HandleTerminate(tstat)
  <2>1. last # 0 /\ before[last].status = "armed" /\ Len(before) = last
    BY <1>2, <1>3, <1>6
  <2>2. timers' = WithStatus(before, last, "cancelled") /\ ended' = Append(ended, tstat)
    BY <1>8, <2>1 DEF Cancelled, WithStatus, HandleTerminate
  <2> QED
    BY <2>2, <1>5, <1>7
<1>9. CASE timers' = [before EXCEPT ![Len(before)].status = "expired"] /\ UNCHANGED ended
  <2>1. timers' = WithStatus(before, last, "expired") /\ ended' = ended
    BY <1>6, <1>9 DEF WithStatus
  <2> QED
    BY <2>1, <1>5, <1>7
<1> QED
  BY <1>5, <1>8, <1>9 DEF HandleAsyncShutdown

LEMMA TerminateEffect ==
    ASSUME NEW ts \in Timers, handshake_timer \in 0 .. Len(ts), NEW error, Terminate(ts, error)
    PROVE  LET left == Cancelled(ts, handshake_timer)
               tstat == IF state = "connecting" THEN "failed" ELSE "closed"
           IN  /\ state' = "closed" /\ handshake_timer' = 0 /\ ec' \in {ec, error}
               /\ timers' \in Timers
               /\ state = "closed" => timers' = left /\ socket' = socket /\ ended' = ended
               /\ state # "closed" =>
                    /\ Len(timers') = Len(ts) + 1
                    /\ \A j \in 1 .. Len(ts) : timers'[j] = left[j]
                    /\ timers'[Len(ts) + 1].kind = "shutdown" /\ timers'[Len(ts) + 1].tstat = tstat
                    /\ socket' = "shut"
                    /\ \/ timers'[Len(ts) + 1].status = "cancelled" /\ ended' = Append(ended, tstat)
                       \/ timers'[Len(ts) + 1].status = "expired" /\ ended' = ended
<1> DEFINE left == Cancelled(ts, handshake_timer)
           tstat == IF state = "connecting" THEN "failed" ELSE "closed"
<1>1. left \in Timers /\ Len(left) = Len(ts)
  BY CancelledEffect
<1>2. state' = "closed" /\ handshake_timer' = 0 /\ ec' \in {ec, error}
  BY DEF Terminate
<1>3. CASE state = "closed"
  BY <1>1, <1>2, <1>3 DEF Terminate
<1>4. CASE state # "closed"
  <2>1. AsyncShutdown(left, tstat)
    BY <1>4 DEF Terminate
  <2>2. tstat \in {"failed", "closed"}
    OBVIOUS
  <2> HIDE DEF left, tstat
  <2>3. /\ timers' \in Timers /\ Len(timers') = Len(left) + 1
        /\ \A j \in 1 .. Len(left) : timers'[j] = left[j]
        /\ timers'[Len(left) + 1].kind = "shutdown" /\ timers'[Len(left) + 1].tstat = tstat
        /\ socket' = "shut"
        /\ \/ timers'[Len(left) + 1].status = "cancelled" /\ ended' = Append(ended, tstat)
           \/ timers'[Len(left) + 1].status = "expired" /\ ended' = ended
    BY <1>1, <2>1, <2>2, AsyncShutdownEffect
  <2> QED
    BY <1>1, <1>2, <1>4, <2>3 DEF left, tstat
<1> QED
  BY <1>3, <1>4

(* A new connection has the handlers that its endpoint had.                *)
LEMMA CreateConnectionEffect ==
    ASSUME NEW e \in EndpointSettings
    PROVE  /\ CreateConnection(e) \in EndpointSettings
           /\ e.handlers \subseteq CreateConnection(e).handlers
<1> DEFINE Limits == DOMAIN config
           con == SetHandlersOf(NewConnection, e)
           limited == SetLimitsOf(con, e)
<1>1. config \in [Limits -> Nat]
  BY DEF config
<1>2. con \in EndpointSettings /\ e.handlers \subseteq con.handlers
  BY <1>1 DEF EndpointSettings, SetHandlersOf, NewConnection
<1> HIDE DEF con
<1>3. limited \in EndpointSettings /\ limited.handlers = con.handlers
  <2>1. limited = [con EXCEPT !.limits = [limit \in Limits |->
                      IF e.limits[limit] # config[limit] \/ limit = "max_http_body_size"
                      THEN e.limits[limit] ELSE con.limits[limit]]]
    BY DEF SetLimitsOf
  <2>2. \A limit \in Limits : e.limits[limit] \in Nat /\ con.limits[limit] \in Nat
    BY <1>2 DEF EndpointSettings
  <2> HIDE DEF Limits, limited
  <2> QED
    BY <1>2, <2>1, <2>2 DEF EndpointSettings, Limits
<1> HIDE DEF limited
<1>4. CreateConnection(e) = [limited EXCEPT !.handlers = @ \cup (e.handlers \cap TransportHandlers)]
  BY DEF CreateConnection, InitTransport, limited, con
<1> QED
  BY <1>2, <1>3, <1>4 DEF EndpointSettings

-----------------------------------------------------------------------------
(* The parts of the inductive invariant.  A connection that is not closed  *)
(* has no shutdown timer; a closed one has been told as ended, or the one  *)
(* shutdown timer that ran out will do it, with the same outcome.          *)

Outcome == IF opened THEN "closed" ELSE "failed"
Shutdowns(ts) == {k \in 1 .. Len(ts) : ts[k].kind = "shutdown"}

EndedOnce(st, ts, en, outcome) ==
    IF st # "closed" THEN en = <<>> /\ Shutdowns(ts) = {}
    ELSE \/ /\ en = <<outcome>>
            /\ \A k \in Shutdowns(ts) : ts[k].status \notin {"armed", "expired"}
         \/ /\ en = <<>>
            /\ \E k \in Shutdowns(ts) :
                 /\ ts[k].status = "expired" /\ ts[k].tstat = outcome
                 /\ \A j \in Shutdowns(ts) : j = k

Ending == EndedOnce(state, timers, ended, Outcome)

(* What each internal state waits for, and what it cannot have yet.        *)
Control ==
    /\ istate \in {"USER_INIT", "TRANSPORT_INIT", "PROCESS_HTTP_REQUEST"} => reads = <<>>
    /\ istate = "READ_HTTP_REQUEST" => reads = <<>> \/ reads = <<"handshake">>
    /\ istate = "PROCESS_CONNECTION" => reads = <<>> \/ reads = <<"frame">>
    /\ istate \in {"USER_INIT", "TRANSPORT_INIT", "READ_HTTP_REQUEST"} => writes = <<>>
    /\ istate = "PROCESS_HTTP_REQUEST" => writes = <<>> \/ writes = <<"http_response">>
    /\ istate = "PROCESS_CONNECTION" => writes = <<>> \/ writes = <<"frames">>
    /\ istate = "PROCESS_CONNECTION" => state # "connecting" /\ opened
    /\ istate # "PROCESS_CONNECTION" =>
         /\ state \in {"connecting", "closed"} /\ ~opened /\ ~running
         /\ posted = 0 /\ send_queue = <<>> /\ ~write_flag /\ sent = <<>>
    /\ running => reads = <<>>
    /\ writes = <<"frames">> => write_flag
    /\ write_flag /\ state # "closed" => writes = <<"frames">>

(* What is written last, and what is still to be written.                  *)
Queue ==
    /\ NoLostWakeup
    /\ NothingAfterClose
    /\ sent # <<>> /\ sent[Len(sent)].terminal => write_flag
    /\ writes = <<"frames">> =>
         /\ current_msgs # <<>> /\ sent # <<>>
         /\ current_msgs[Len(current_msgs)].terminal = sent[Len(sent)].terminal

(* What keeps a connection alive until its end is told.                    *)
CloseIsComing ==
    \/ \E k \in 1 .. Len(send_queue) : send_queue[k].terminal
    \/ writes = <<"frames">> /\ current_msgs[Len(current_msgs)].terminal

Waiting ==
    /\ state = "connecting" /\ istate = "TRANSPORT_INIT" =>
         \E k \in 1 .. Len(timers) : timers[k].kind = "post_init" /\ timers[k].status = "expired"
    /\ state = "connecting" /\ istate = "READ_HTTP_REQUEST" => reads # <<>>
    /\ state = "connecting" /\ istate = "PROCESS_HTTP_REQUEST" => writes # <<>>
    /\ state = "open" => running \/ reads # <<>>
    /\ state = "closing" => CloseIsComing

(* The loop of accepts.                                                    *)
Accepting ==
    /\ accepting = <<>> \/ accepting = <<"this">> \/ accepting = <<"another">>
    /\ transport_state = "LISTENING" <=> accepting # <<>>
    /\ accepting = <<"this">> <=> created /\ istate = "USER_INIT" /\ state = "connecting"
    /\ ~created => istate = "USER_INIT" /\ state = "connecting" /\ socket = "UNINITIALIZED"
    /\ istate = "USER_INIT" /\ state = "connecting" => timers = <<>>
    /\ endpoint.handlers = {} \/ "open" \in endpoint.handlers
    /\ transport_state # "UNINITIALIZED" => "open" \in endpoint.handlers
    /\ created => "open" \in settings.handlers

-----------------------------------------------------------------------------
(* Types.                                                                  *)

Types ==
    /\ TypeOK
    /\ endpoint \in EndpointSettings /\ settings \in EndpointSettings
    /\ transport_state \in {"UNINITIALIZED", "READY", "LISTENING", "exited"}
    /\ created \in BOOLEAN /\ accepting \in Seq({"this", "another"})

LEMMA InitTypes == ServerInit => Types
<1> SUFFICES ASSUME ServerInit PROVE Types
  OBVIOUS
<1>1. NewConnection \in EndpointSettings /\ NewEndpoint \in EndpointSettings
  BY DEF NewConnection, NewEndpoint, EndpointSettings, config
<1>2. settings.handlers \subseteq Handlers /\ settings.limits \in [DOMAIN config -> Nat]
  BY <1>1 DEF ServerInit, Init, EndpointSettings
<1>3. TypeOK
  <2>1. \A S : <<>> \in Seq(S)
    BY EmptySeq
  <2>2. /\ state = "connecting" /\ istate = "USER_INIT" /\ ec = "none" /\ was_clean = FALSE
        /\ timers = <<>> /\ handshake_timer = 0 /\ socket = "UNINITIALIZED"
        /\ reads = <<>> /\ writes = <<>> /\ running = FALSE /\ buf = <<>> /\ received = 0
        /\ response = "none" /\ send_queue = <<>> /\ current_msgs = <<>> /\ write_flag = FALSE
        /\ posted = 0 /\ answered = 0 /\ sent = <<>> /\ opened = FALSE /\ ended = <<>>
    BY DEF ServerInit, Init
  <2>3. handshake_timer \in 0 .. Len(timers)
    BY <2>2
  <2> QED
    BY <1>2, <2>1, <2>2, <2>3 DEF TypeOK, States, InternalStates
<1>4. accepting \in Seq({"this", "another"})
  BY EmptySeq DEF ServerInit
<1> QED
  BY <1>1, <1>3, <1>4 DEF ServerInit, Init, Types

(* What goes through a queue.                                              *)
LEMMA MessageTypes ==
    /\ \A n \in Nat : Reply(n) \in Messages
    /\ Pong \in Messages /\ CloseFrame \in Messages
BY DEF Reply, Pong, CloseFrame, Messages

LEMMA PushTypes ==
    ASSUME TypeOK, NEW msg \in Messages, Push(msg)
    PROVE  send_queue' \in Seq(Messages) /\ posted' \in Nat
BY DEF TypeOK, Push, Dispatch, Messages

LEMMA SetTimeoutTypes ==
    ASSUME NEW ts \in Timers, NEW kind \in {"open", "close"},
           timers' = SetTimer(ts, kind), handshake_timer' = Len(timers')
    PROVE  timers' \in Timers /\ handshake_timer' \in 0 .. Len(timers')
<1>1. timers' \in Timers
  BY SetTimerEffect
<1>2. Len(timers') \in Nat
  BY <1>1 DEF Timers
<1> QED
  BY <1>1, <1>2

LEMMA SendCloseFrameTypes ==
    ASSUME TypeOK, NEW ack \in BOOLEAN, SendCloseFrame(ack)
    PROVE  /\ state' = "closing" /\ was_clean' \in BOOLEAN
           /\ timers' \in Timers /\ handshake_timer' \in 0 .. Len(timers')
           /\ send_queue' \in Seq(Messages) /\ posted' \in Nat
           /\ UNCHANGED <<ec, socket, ended>>
<1>1. send_queue' \in Seq(Messages) /\ posted' \in Nat
  BY MessageTypes, PushTypes DEF SendCloseFrame
<1>2. timers \in Timers /\ handshake_timer \in 0 .. Len(timers) /\ was_clean \in BOOLEAN
  BY DEF TypeOK, Timers, TimerSet
<1>3. timers' \in Timers /\ handshake_timer' \in 0 .. Len(timers')
  BY <1>2, SetTimeoutTypes DEF SendCloseFrame, timerVars
<1>4. state' = "closing" /\ UNCHANGED <<ec, socket, ended>> /\ was_clean' \in BOOLEAN
  BY <1>2 DEF SendCloseFrame
<1> QED
  BY <1>1, <1>3, <1>4

LEMMA TerminateTypes ==
    ASSUME TypeOK, NEW ts \in Timers, handshake_timer \in 0 .. Len(ts),
           NEW error \in Errors, Terminate(ts, error)
    PROVE  /\ state' = "closed" /\ ec' \in Errors
           /\ timers' \in Timers /\ handshake_timer' \in 0 .. Len(timers')
           /\ socket' \in {socket, "shut"} /\ ended' \in Seq({"failed", "closed"})
<1> DEFINE tstat == IF state = "connecting" THEN "failed" ELSE "closed"
<1>1. ended \in Seq({"failed", "closed"}) /\ ec \in Errors
  BY DEF TypeOK, Errors
<1>2. tstat \in {"failed", "closed"}
  OBVIOUS
<1> HIDE DEF tstat
<1>3. Append(ended, tstat) \in Seq({"failed", "closed"})
  BY <1>1, <1>2
<1>4. /\ state' = "closed" /\ handshake_timer' = 0 /\ ec' \in {ec, error} /\ timers' \in Timers
      /\ socket' \in {socket, "shut"} /\ ended' \in {ended, Append(ended, tstat)}
  BY TerminateEffect DEF tstat
<1>5. 0 \in 0 .. Len(timers')
  BY <1>4 DEF Timers
<1> QED
  BY <1>1, <1>3, <1>4, <1>5

(* One read, one write, one frame less, or one more.                       *)
LEMMA FlightTypes ==
    ASSUME NEW S, NEW s \in Seq(S)
    PROVE  /\ s # <<>> => Tail(s) \in Seq(S) /\ Head(s) \in S
           /\ \A x \in S : Append(s, x) \in Seq(S)
BY HeadTailProperties, AppendProperties

LEMMA AcceptTypes ==
    ASSUME TypeOK, HandleAccept, UNCHANGED settings
    PROVE  TypeOK'
<1> DEFINE set == SetTimer(timers, "post_init")
           last == Len(timers) + 1
<1>1. timers \in Timers /\ handshake_timer \in 0 .. Len(timers)
  BY DEF TypeOK, Timers, TimerSet
<1>2. set \in Timers /\ Len(set) = last /\ last \in Nat /\ last \in 1 .. last /\ last \in 0 .. last
  BY <1>1, SetTimerEffect DEF Timers
<1>3. socket' = "READING" /\ HandlePostInit(set)
  BY DEF HandleAccept, InitConnection, PreInit, HandlePreInit, PostInit
<1> HIDE DEF set
<1>4. ASSUME HandleTransportInit(Cancelled(set, Len(set)))
      PROVE  /\ timers' \in Timers /\ handshake_timer' \in 0 .. Len(timers')
             /\ reads' \in Seq({"handshake", "frame"}) /\ istate' = "READ_HTTP_REQUEST"
  <2> DEFINE left == Cancelled(set, Len(set))
  <2>1. left \in Timers /\ Len(left) = last
    BY <1>2, CancelledEffect
  <2>2. ReadHandshake(left) /\ istate' = "READ_HTTP_REQUEST"
    BY <1>4 DEF HandleTransportInit
  <2> HIDE DEF left
  <2>3. reads' \in Seq({"handshake", "frame"})
    BY <2>2, FlightTypes DEF ReadHandshake, AsyncRead, TypeOK
  <2>4. CASE settings.limits.open_handshake_timeout > 0
    BY <2>1, <2>2, <2>3, <2>4, SetTimeoutTypes DEF ReadHandshake
  <2>5. CASE ~(settings.limits.open_handshake_timeout > 0)
    <3>1. timers' = left /\ handshake_timer' = handshake_timer
      BY <2>2, <2>5 DEF ReadHandshake
    <3>2. handshake_timer \in 0 .. last
      BY <1>1, <1>2 DEF Timers
    <3> QED
      BY <2>1, <2>2, <2>3, <3>1, <3>2
  <2> QED
    BY <2>4, <2>5
<1>5. ASSUME istate' = "TRANSPORT_INIT", timers' = [set EXCEPT ![Len(set)].status = "expired"],
             UNCHANGED <<handshake_timer, reads>>
      PROVE  /\ timers' \in Timers /\ handshake_timer' \in 0 .. Len(timers')
             /\ reads' \in Seq({"handshake", "frame"})
  <2>1. timers' = WithStatus(set, last, "expired")
    BY <1>2, <1>5 DEF WithStatus
  <2>2. timers' \in Timers /\ Len(timers') = last
    BY <1>2, <2>1, WithStatusEffect
  <2>3. handshake_timer \in 0 .. last
    BY <1>1, <1>2 DEF Timers
  <2> QED
    BY <1>5, <2>2, <2>3 DEF TypeOK
<1>6. /\ timers' \in Timers /\ handshake_timer' \in 0 .. Len(timers')
      /\ reads' \in Seq({"handshake", "frame"}) /\ istate' \in InternalStates
  BY <1>3, <1>4, <1>5 DEF HandlePostInit, InternalStates
<1> QED
  BY <1>3, <1>6 DEF HandleAccept, TypeOK, Timers, TimerSet, inputVars, outputVars

(* What ends with Terminate.                                               *)
LEMMA EndTypes ==
    ASSUME TypeOK, NEW ts \in Timers, handshake_timer \in 0 .. Len(ts),
           NEW error \in Errors, Terminate(ts, error),
           istate' \in InternalStates, was_clean' \in BOOLEAN, write_flag' \in BOOLEAN,
           reads' \in Seq({"handshake", "frame"}), writes' \in Seq({"http_response", "frames"}),
           current_msgs' \in Seq(Messages), buf' \in Seq(Frames), running' \in BOOLEAN,
           UNCHANGED <<settings, received, send_queue, posted, answered, sent, opened, response>>
    PROVE  TypeOK'
<1>1. /\ state' = "closed" /\ ec' \in Errors
      /\ timers' \in Timers /\ handshake_timer' \in 0 .. Len(timers')
      /\ socket' \in {socket, "shut"} /\ ended' \in Seq({"failed", "closed"})
  BY TerminateTypes
<1> QED
  BY <1>1 DEF TypeOK, States, Errors, Timers, TimerSet, Messages

(* What changes nothing but the calls, reads and writes in flight, and the *)
(* queue.                                                                  *)
LEMMA FlowTypes ==
    ASSUME TypeOK,
           state' \in States, istate' \in InternalStates, ec' \in Errors,
           was_clean' \in BOOLEAN, write_flag' \in BOOLEAN,
           timers' \in Timers, handshake_timer' \in 0 .. Len(timers'),
           reads' \in Seq({"handshake", "frame"}), writes' \in Seq({"http_response", "frames"}),
           current_msgs' \in Seq(Messages), send_queue' \in Seq(Messages), sent' \in Seq(Messages),
           posted' \in Nat, answered' \in Nat,
           buf' \in Seq(Frames), running' \in BOOLEAN, received' \in Nat,
           response' \in {"none", "switching_protocols", "http_error"}, opened' \in BOOLEAN,
           UNCHANGED <<settings, socket, ended>>
    PROVE  TypeOK'
BY DEF TypeOK, Errors, Timers, TimerSet, Messages

LEMMA ServingTypes ==
    ASSUME TypeOK, Ending, Serving, UNCHANGED settings
    PROVE  TypeOK'
<1> USE DEF timerVars, endVars, inputVars, outputVars
<1>0. /\ state \in States /\ istate \in InternalStates /\ ec \in Errors /\ was_clean \in BOOLEAN
      /\ timers \in Timers /\ handshake_timer \in 0 .. Len(timers)
      /\ reads \in Seq({"handshake", "frame"}) /\ writes \in Seq({"http_response", "frames"})
      /\ buf \in Seq(Frames) /\ received \in Nat /\ running \in BOOLEAN
      /\ send_queue \in Seq(Messages) /\ current_msgs \in Seq(Messages) /\ sent \in Seq(Messages)
      /\ posted \in Nat /\ answered \in Nat /\ write_flag \in BOOLEAN /\ opened \in BOOLEAN
      /\ response \in {"none", "switching_protocols", "http_error"}
  BY DEF TypeOK, Timers, TimerSet, Errors, Messages
<1>r. reads # <<>> => Tail(reads) \in Seq({"handshake", "frame"})
  BY <1>0, FlightTypes
<1>w. writes # <<>> => Tail(writes) \in Seq({"http_response", "frames"})
  BY <1>0, FlightTypes
<1>a. /\ \A x \in {"handshake", "frame"} :
           /\ Append(reads, x) \in Seq({"handshake", "frame"})
           /\ reads # <<>> => Append(Tail(reads), x) \in Seq({"handshake", "frame"})
      /\ \A x \in {"http_response", "frames"} : Append(writes, x) \in Seq({"http_response", "frames"})
  BY <1>0, <1>r, FlightTypes
<1>b. buf # <<>> => Tail(buf) \in Seq(Frames)
  BY <1>0, FlightTypes
<1>e. <<>> \in Seq(Frames) /\ <<>> \in Seq(Messages)
  BY EmptySeq
<1>i. \A n : \A input \in Inputs(n) : input \in Seq(Frames) /\ Len(input) \in Nat
  BY DEF Inputs
<1>t. \A k \in 1 .. Len(timers) :
        /\ Handled(k) \in Timers /\ Len(Handled(k)) = Len(timers)
        /\ [timers EXCEPT ![k].status = "expired"] \in Timers
        /\ Len([timers EXCEPT ![k].status = "expired"]) = Len(timers)
  <2> TAKE k \in 1 .. Len(timers)
  <2>1. /\ WithStatus(timers, k, "handled") \in Timers
        /\ Len(WithStatus(timers, k, "handled")) = Len(timers)
        /\ WithStatus(timers, k, "expired") \in Timers
        /\ Len(WithStatus(timers, k, "expired")) = Len(timers)
    BY <1>0, WithStatusEffect
  <2> QED
    BY <2>1 DEF WithStatus, Handled
<1>1. CASE ReadMoreOfTheRequest
  BY <1>0, <1>1, <1>a, FlowTypes DEF ReadMoreOfTheRequest, ReadCompletes, AsyncRead
<1>2. CASE SwitchProtocols \/ RefuseRequest
  <2>1. PICK status \in {"switching_protocols", "http_error"}, rest \in Seq(Frames) :
          Len(rest) \in Nat /\ Respond(status, rest)
    BY <1>2, <1>i, <1>e DEF SwitchProtocols, RefuseRequest
  <2>2. /\ response' \in {"none", "switching_protocols", "http_error"} /\ ec' \in Errors
        /\ istate' \in InternalStates /\ received' \in Nat
    BY <1>0, <2>1 DEF Respond, WriteHttpResponse, Errors, InternalStates
  <2> QED
    BY <1>0, <1>a, <1>r, <2>1, <2>2, FlowTypes
       DEF Respond, ReadCompletes, WriteHttpResponse, AsyncWrite
<1>3. CASE ReadTooLate \/ ResponseTooLate
  BY <1>0, <1>3, <1>r, <1>w, FlowTypes DEF ReadTooLate, ResponseTooLate, ReadCompletes, WriteCompletes
<1>4. CASE Open
  <2>1. timers' \in Timers /\ handshake_timer' = 0 /\ 0 \in 0 .. Len(timers')
    <3>1. timers' \in Timers /\ handshake_timer' = 0
      BY <1>0, <1>4, CancelledEffect DEF Open, CancelTimer
    <3> QED
      BY <3>1 DEF Timers
  <2> QED
    BY <1>0, <1>4, <1>w, <2>1, FlowTypes DEF Open, WriteCompletes, States, InternalStates
<1>5. CASE HandshakeRefused
  BY <1>0, <1>5, <1>w, EndTypes DEF HandshakeRefused, WriteCompletes
<1>6. CASE ResponseFails
  <2>1. "pass_through" \in Errors
    BY DEF Errors
  <2> QED
    BY <1>0, <1>6, <1>w, <2>1, EndTypes DEF ResponseFails, WriteCompletes
<1>7. ASSUME NEW k \in 1 .. Len(timers), Expire(k)
      PROVE  TypeOK'
  BY <1>0, <1>7, <1>t, FlowTypes DEF Expire
<1>8. ASSUME NEW k \in 1 .. Len(timers), HandleTimeout(k)
      PROVE  TypeOK'
  <2>1. PICK error \in Errors : Terminate(Handled(k), error)
    BY <1>8 DEF HandleTimeout, Errors
  <2> QED
    BY <1>0, <1>8, <1>t, <2>1, EndTypes DEF HandleTimeout
<1>9. ASSUME NEW k \in 1 .. Len(timers), HandlePostInitTimeout(k)
      PROVE  TypeOK'
  <2>1. "error" \in Errors
    BY DEF Errors
  <2> QED
    BY <1>0, <1>9, <1>t, <2>1, EndTypes DEF HandlePostInitTimeout
<1>10. ASSUME NEW k \in 1 .. Len(timers), HandleAsyncShutdownTimeout(k)
       PROVE  TypeOK'
  <2>1. timers[k].tstat \in {"failed", "closed"}
    BY <1>10 DEF HandleAsyncShutdownTimeout, Expired, Ending, EndedOnce, Shutdowns, Outcome
  <2>2. ended' \in Seq({"failed", "closed"})
    BY <1>10, <2>1, FlightTypes DEF HandleAsyncShutdownTimeout, HandleTerminate, TypeOK
  <2>3. timers' \in Timers /\ handshake_timer \in 0 .. Len(timers')
    BY <1>0, <1>10, <1>t DEF HandleAsyncShutdownTimeout
  <2> QED
    BY <1>10, <2>2, <2>3 DEF HandleAsyncShutdownTimeout, TypeOK, Timers, TimerSet
<1>11. CASE ReadFails
  <2>1. {ReadError(e) : e \in SocketErrors} \subseteq Errors
    BY DEF ReadError, SocketErrors, translate_ec, Errors
  <2>2. CASE UNCHANGED <<timerVars, endVars>>
    BY <1>0, <1>11, <1>r, <2>2, FlowTypes DEF ReadFails
  <2>3. CASE \E error \in Errors : Terminate(timers, error)
    BY <1>0, <1>11, <1>r, <2>3, EndTypes DEF ReadFails
  <2> QED
    BY <1>11, <2>1, <2>2, <2>3 DEF ReadFails
<1>12. CASE ReadFrames
  BY <1>0, <1>12, <1>r, <1>i, FlowTypes DEF ReadFrames, ReadCompletes
<1>13. CASE DataMessage
  <2>1. /\ answered' \in Nat /\ send_queue' \in Seq(Messages) /\ posted' \in Nat
    BY <1>0, <1>13, MessageTypes, PushTypes DEF DataMessage, EndpointSend, Send
  <2> QED
    BY <1>0, <1>13, <1>b, <2>1, FlowTypes DEF DataMessage, NextFrame
<1>14. CASE Ping
  <2>1. send_queue' \in Seq(Messages) /\ posted' \in Nat
    BY <1>0, <1>14, MessageTypes, PushTypes DEF Ping, SendPong
  <2> QED
    BY <1>0, <1>14, <1>b, <2>1, FlowTypes DEF Ping, NextFrame
<1>15. ASSUME NEW ack \in BOOLEAN, SendCloseFrame(ack),
              buf' \in Seq(Frames), running' \in BOOLEAN,
              UNCHANGED <<istate, reads, writes, response, opened, received,
                          answered, current_msgs, write_flag, sent>>
       PROVE  TypeOK'
  <2>1. "closing" \in States
    BY DEF States
  <2> QED
    BY <1>0, <1>15, <2>1, SendCloseFrameTypes, FlowTypes
<1>16. CASE PeerCloses
  <2>1. CASE SendCloseFrame(TRUE)
    BY <1>0, <1>15, <1>16, <1>b, <2>1 DEF PeerCloses, NextFrame
  <2>2. CASE Terminate(timers, "none") /\ was_clean' = TRUE /\ UNCHANGED <<send_queue, posted>>
    <3>1. "none" \in Errors
      BY DEF Errors
    <3> QED
      BY <1>0, <1>16, <1>b, <2>2, <3>1, EndTypes DEF PeerCloses, NextFrame
  <2>3. CASE UNCHANGED <<was_clean, send_queue, posted, timerVars, endVars>>
    BY <1>0, <1>16, <1>b, <2>3, FlowTypes DEF PeerCloses, NextFrame
  <2> QED
    BY <1>16, <2>1, <2>2, <2>3 DEF PeerCloses
<1>17. CASE PeerClosesBadly
  <2>1. CASE SendCloseFrame(TRUE)
    BY <1>0, <1>15, <1>17, <1>b, <2>1 DEF PeerClosesBadly, NextFrame
  <2>2. CASE UNCHANGED <<was_clean, send_queue, posted, timerVars, endVars>>
    BY <1>0, <1>17, <1>b, <2>2, FlowTypes DEF PeerClosesBadly, NextFrame
  <2> QED
    BY <1>17, <2>1, <2>2 DEF PeerClosesBadly
<1>18. CASE ProtocolError
  <2>1. CASE SendCloseFrame(FALSE)
    BY <1>0, <1>15, <1>18, <1>e, <2>1 DEF ProtocolError
  <2>2. CASE Terminate(timers, "error") /\ UNCHANGED <<was_clean, send_queue, posted>>
    <3>1. "error" \in Errors
      BY DEF Errors
    <3> QED
      BY <1>0, <1>18, <1>e, <2>2, <3>1, EndTypes DEF ProtocolError
  <2> QED
    BY <1>18, <2>1, <2>2 DEF ProtocolError, Close
<1>19. CASE ReadOn
  BY <1>0, <1>19, <1>a, FlowTypes DEF ReadOn, AsyncRead
<1>20. CASE WriteFrame
  <2>1. posted' \in Nat
    BY <1>0, <1>20 DEF WriteFrame
  <2>2. CASE WriteNothing
    BY <1>0, <1>20, <2>1, <2>2, FlowTypes DEF WriteFrame, WriteNothing
  <2>3. CASE WriteBatch
    <3> DEFINE n == Batch(send_queue)
    <3>1. n \in 0 .. Len(send_queue)
      BY <1>0, BatchEnds
    <3> HIDE DEF n
    <3>2. /\ SubSeq(send_queue, 1, n) \in Seq(Messages)
          /\ SubSeq(send_queue, n + 1, Len(send_queue)) \in Seq(Messages)
      BY <1>0, <3>1
    <3>3. current_msgs' \in Seq(Messages) /\ send_queue' \in Seq(Messages) /\ write_flag' = TRUE
      BY <2>3, <3>2 DEF WriteBatch, n
    <3>4. sent' \in Seq(Messages)
      BY <1>0, <2>3, <3>3, ConcatProperties DEF WriteBatch
    <3>5. writes' \in Seq({"http_response", "frames"})
      BY <1>a, <2>3 DEF WriteBatch, AsyncWrite
    <3> QED
      BY <1>0, <1>20, <2>1, <3>3, <3>4, <3>5, FlowTypes DEF WriteFrame
  <2> QED
    BY <1>20, <2>2, <2>3 DEF WriteFrame
<1>21. CASE FramesWritten
  <2>1. CASE Terminate(timers, "none") /\ UNCHANGED <<write_flag, posted>>
    <3>1. "none" \in Errors
      BY DEF Errors
    <3> QED
      BY <1>0, <1>21, <1>w, <1>e, <2>1, <3>1, EndTypes DEF FramesWritten, WriteCompletes
  <2>2. CASE /\ write_flag' = FALSE
             /\ posted' = IF send_queue = <<>> THEN posted ELSE posted + 1
             /\ UNCHANGED <<timerVars, endVars>>
    <3>1. posted' \in Nat
      BY <1>0, <2>2
    <3> QED
      BY <1>0, <1>21, <1>w, <1>e, <2>2, <3>1, FlowTypes DEF FramesWritten, WriteCompletes
  <2> QED
    BY <1>21, <2>1, <2>2 DEF FramesWritten
<1>22. CASE WriteFramesFails
  <2>1. "pass_through" \in Errors
    BY DEF Errors
  <2> QED
    BY <1>0, <1>22, <1>w, <1>e, <2>1, EndTypes DEF WriteFramesFails, WriteCompletes
<1> QED
  BY <1>1, <1>2, <1>3, <1>4, <1>5, <1>6, <1>7, <1>8, <1>9, <1>10, <1>11, <1>12, <1>13, <1>14,
     <1>16, <1>17, <1>18, <1>19, <1>20, <1>21, <1>22
     DEF Serving, Handshake, Timeout, ProcessFrame

(* The accept loop: what waits for a client, and what it is created with.  *)
LEMMA StartAcceptTypes ==
    ASSUME Types, NEW left \in Seq({"this", "another"}), StartAccept(left)
    PROVE  /\ TypeOK' /\ settings' \in EndpointSettings
           /\ created' \in BOOLEAN /\ accepting' \in Seq({"this", "another"})
<1> USE DEF timerVars, endVars, inputVars, outputVars, vars
<1>1. accepting' \in Seq({"this", "another"})
  BY FlightTypes DEF StartAccept, AcceptNext, Create, AsyncAccept
<1>2. CASE AcceptNext(left) /\ UNCHANGED vars
  BY <1>1, <1>2 DEF AcceptNext, Types, TypeOK
<1>3. CASE Create(left)
  <2>1. settings' \in EndpointSettings
    BY <1>3, CreateConnectionEffect DEF Create, Types
  <2>2. settings'.handlers \subseteq Handlers /\ settings'.limits \in [DOMAIN config -> Nat]
    BY <2>1 DEF EndpointSettings
  <2>3. socket' = "READY" /\ created' = TRUE
    BY <1>3 DEF Create, InitSocket
  <2> QED
    BY <1>1, <1>3, <2>1, <2>2, <2>3 DEF Create, Types, TypeOK
<1> QED
  BY <1>2, <1>3 DEF StartAccept

LEMMA NextTypes ==
    ASSUME Types, Ending, [ServerNext]_serverVars
    PROVE  Types'
<1> USE DEF timerVars, endVars, inputVars, outputVars, vars
<1>0. /\ TypeOK /\ endpoint \in EndpointSettings /\ settings \in EndpointSettings
      /\ created \in BOOLEAN /\ accepting \in Seq({"this", "another"})
      /\ transport_state \in {"UNINITIALIZED", "READY", "LISTENING", "exited"}
  BY DEF Types
<1>1. ASSUME UNCHANGED <<settings, vars>>
      PROVE  TypeOK'
  BY <1>0, <1>1 DEF TypeOK
<1>2. accepting # <<>> => Tail(accepting) \in Seq({"this", "another"})
  BY <1>0, FlightTypes
<1>3. CASE SetHandlers
  <2>1. endpoint' \in EndpointSettings
    BY <1>0, <1>3 DEF SetHandlers, SetHandler, EndpointSettings, Handlers
  <2> QED
    BY <1>0, <1>1, <1>3, <2>1 DEF SetHandlers, Types, acceptVars
<1>4. CASE Disable
  <2>1. endpoint' \in EndpointSettings
    <3>1. PICK limit \in Disabled : endpoint' = SetLimit(endpoint, limit, 0)
      BY <1>4 DEF Disable
    <3>2. endpoint.limits \in [DOMAIN config -> Nat] /\ endpoint.handlers \in SUBSET Handlers
      BY <1>0 DEF EndpointSettings
    <3>3. [endpoint.limits EXCEPT ![limit] = 0] \in [DOMAIN config -> Nat]
      BY <3>2
    <3>4. endpoint' = [endpoint EXCEPT !.limits = [endpoint.limits EXCEPT ![limit] = 0]]
      BY <3>1 DEF SetLimit
    <3> HIDE DEF Handlers
    <3> QED
      BY <1>0, <3>2, <3>3, <3>4 DEF EndpointSettings
  <2> QED
    BY <1>0, <1>1, <1>4, <2>1 DEF Disable, Types, acceptVars
<1>5. CASE InitAsio \/ ListenFails
  BY <1>0, <1>1, <1>5 DEF InitAsio, ListenFails, Types, acceptVars
<1>6. CASE Listen
  BY <1>0, <1>6, StartAcceptTypes DEF Listen, Types
<1>7. CASE AcceptThis
  <2>1. TypeOK'
    BY <1>0, <1>7, AcceptTypes DEF AcceptThis, AcceptNext
  <2> QED
    BY <1>0, <1>2, <1>7, <2>1, FlightTypes DEF AcceptThis, AcceptCompletes, AcceptNext, AsyncAccept, Types
<1>8. CASE AcceptThisFails
  <2>1. timers \in Timers /\ handshake_timer \in 0 .. Len(timers) /\ "error" \in Errors
    BY <1>0 DEF TypeOK, Timers, TimerSet, Errors
  <2>2. TypeOK'
    BY <1>0, <1>8, <2>1, EndTypes DEF AcceptThisFails, AcceptFails, AcceptNext, TypeOK, Messages
  <2> QED
    BY <1>0, <1>2, <1>8, <2>2, FlightTypes
       DEF AcceptThisFails, AcceptCompletes, AcceptNext, AsyncAccept, Types
<1>9. CASE AcceptAnother
  BY <1>0, <1>2, <1>9, StartAcceptTypes DEF AcceptAnother, AcceptCompletes, Types
<1>10. CASE Serve
  BY <1>0, <1>10, ServingTypes DEF Serve, Types, acceptVars
<1>11. CASE UNCHANGED serverVars
  BY <1>0, <1>1, <1>11 DEF serverVars, acceptVars, Types
<1> QED
  BY <1>3, <1>4, <1>5, <1>6, <1>7, <1>8, <1>9, <1>10, <1>11 DEF ServerNext

-----------------------------------------------------------------------------
(* Ending: a connection is told as ended once.                             *)

(* Timers whose shutdown timers are the same say the same of the end.      *)
LEMMA SameEnd ==
    ASSUME NEW st, NEW en, NEW outcome, NEW before \in Timers, NEW after \in Timers,
           Len(before) <= Len(after),
           \A k \in 1 .. Len(before) :
               /\ after[k].kind = before[k].kind /\ after[k].tstat = before[k].tstat
               /\ \/ after[k].status = before[k].status
                  \/ before[k].kind # "shutdown"
                  \/ before[k].status = "armed" /\ after[k].status = "cancelled",
           \A k \in Len(before) + 1 .. Len(after) : after[k].kind # "shutdown",
           EndedOnce(st, before, en, outcome)
    PROVE  EndedOnce(st, after, en, outcome)
<1>1. Len(before) \in Nat /\ Len(after) \in Nat
  BY DEF Timers
<1>2. Shutdowns(after) = Shutdowns(before)
  BY <1>1 DEF Shutdowns
<1>3. \A k \in Shutdowns(before) : k \in 1 .. Len(before) /\ before[k].kind = "shutdown"
  BY DEF Shutdowns
<1> QED
  BY <1>2, <1>3 DEF EndedOnce

LEMMA TerminateEndsOnce ==
    ASSUME NEW ts \in Timers, handshake_timer \in 0 .. Len(ts), NEW error, Terminate(ts, error),
           EndedOnce(state, ts, ended, Outcome),
           state # "closed" => Outcome = IF state = "connecting" THEN "failed" ELSE "closed",
           UNCHANGED opened
    PROVE  Ending'
<1> DEFINE left == Cancelled(ts, handshake_timer)
           last == Len(ts) + 1
<1>1. /\ left \in Timers /\ Len(left) = Len(ts) /\ Len(ts) \in Nat
      /\ \A j \in 1 .. Len(ts) :
            /\ left[j].kind = ts[j].kind /\ left[j].tstat = ts[j].tstat
            /\ \/ left[j].status = ts[j].status
               \/ ts[j].status = "armed" /\ left[j].status = "cancelled"
  BY CancelledEffect DEF Timers
<1>2. Outcome' = Outcome
  BY DEF Outcome
<1> HIDE DEF left
<1>3. EndedOnce(state, left, ended, Outcome)
  BY <1>1, SameEnd
<1>4. CASE state = "closed"
  <2>1. state' = "closed" /\ timers' = left /\ ended' = ended
    BY <1>4, TerminateEffect DEF left
  <2> QED
    BY <1>2, <1>3, <1>4, <2>1 DEF Ending
<1>5. CASE state # "closed"
  <2>1. /\ state' = "closed" /\ Len(timers') = last
        /\ \A j \in 1 .. Len(ts) : timers'[j] = left[j]
        /\ timers'[last].kind = "shutdown" /\ timers'[last].tstat = Outcome
        /\ \/ timers'[last].status = "cancelled" /\ ended' = Append(ended, Outcome)
           \/ timers'[last].status = "expired" /\ ended' = ended
    BY <1>5, TerminateEffect DEF left
  <2>2. Shutdowns(left) = {} /\ ended = <<>>
    BY <1>3, <1>5 DEF EndedOnce
  <2>3. Shutdowns(timers') = {last}
    BY <1>1, <2>1, <2>2 DEF Shutdowns
  <2>4. Append(ended, Outcome) = <<Outcome>>
    BY <2>2, OneInFlight
  <2> QED
    BY <1>2, <2>1, <2>2, <2>3, <2>4 DEF Ending, EndedOnce
<1> QED
  BY <1>4, <1>5

LEMMA SendCloseFrameEnds ==
    ASSUME TypeOK, Ending, state # "closed", NEW ack, SendCloseFrame(ack), UNCHANGED opened
    PROVE  Ending'
<1>1. timers \in Timers /\ Len(timers) \in Nat
  BY DEF TypeOK, Timers, TimerSet
<1>2. timers' = timers \/ timers' = SetTimer(timers, "close")
  BY DEF SendCloseFrame, timerVars
<1>3. /\ timers' \in Timers /\ Len(timers) <= Len(timers')
      /\ \A k \in 1 .. Len(timers) : timers'[k] = timers[k]
      /\ \A k \in Len(timers) + 1 .. Len(timers') : timers'[k].kind # "shutdown"
  <2>1. /\ SetTimer(timers, "close") \in Timers /\ Len(SetTimer(timers, "close")) = Len(timers) + 1
        /\ \A k \in 1 .. Len(timers) : SetTimer(timers, "close")[k] = timers[k]
        /\ SetTimer(timers, "close")[Len(timers) + 1].kind # "shutdown"
    BY <1>1, SetTimerEffect
  <2> QED
    BY <1>1, <1>2, <2>1
<1>4. EndedOnce(state, timers', ended, Outcome)
  BY <1>1, <1>3, SameEnd DEF Ending
<1>5. state' = "closing" /\ ended' = ended /\ Outcome' = Outcome
  BY DEF SendCloseFrame, Outcome
<1> QED
  BY <1>4, <1>5 DEF Ending, EndedOnce

LEMMA AcceptEnds ==
    ASSUME TypeOK, Ending, HandleAccept
    PROVE  Ending' /\ state' = "connecting"
<1> DEFINE set == SetTimer(timers, "post_init")
           last == Len(timers) + 1
           left == Cancelled(set, last)
<1>1. timers \in Timers /\ Len(timers) \in Nat /\ last \in 1 .. last /\ last \in 0 .. last
  BY DEF TypeOK, Timers, TimerSet
<1>2. set \in Timers /\ Len(set) = last /\ \A k \in 1 .. last : set[k].kind # "shutdown"
  <2>1. \A k \in 1 .. Len(timers) : timers[k].kind # "shutdown"
    BY DEF HandleAccept, Ending, EndedOnce, Shutdowns
  <2>2. /\ set \in Timers /\ Len(set) = last /\ set[last].kind = "post_init"
        /\ \A k \in 1 .. Len(timers) : set[k] = timers[k]
    BY <1>1, SetTimerEffect
  <2> HIDE DEF set
  <2> QED
    BY <1>1, <2>1, <2>2
<1>3. state' = "connecting" /\ ended' = <<>> /\ HandlePostInit(set)
  BY DEF HandleAccept, InitConnection, PreInit, HandlePreInit, PostInit, endVars, Ending, EndedOnce
<1> HIDE DEF set
<1>4. left \in Timers /\ Len(left) = last /\ \A k \in 1 .. last : left[k].kind # "shutdown"
  <2>1. /\ left \in Timers /\ Len(left) = last
        /\ \A k \in 1 .. last : left[k].kind = set[k].kind
    BY <1>1, <1>2, CancelledEffect
  <2> QED
    BY <1>2, <2>1
<1>5. CASE HandleTransportInit(Cancelled(set, Len(set)))
  <2>1. timers' = left \/ timers' = SetTimer(left, "open")
    BY <1>2, <1>5 DEF HandleTransportInit, ReadHandshake
  <2> HIDE DEF left
  <2>2. /\ Len(SetTimer(left, "open")) = last + 1
        /\ \A k \in 1 .. last : SetTimer(left, "open")[k] = left[k]
        /\ SetTimer(left, "open")[last + 1].kind = "open"
    <3>1. /\ Len(SetTimer(left, "open")) = Len(left) + 1
          /\ \A k \in 1 .. Len(left) : SetTimer(left, "open")[k] = left[k]
          /\ SetTimer(left, "open")[Len(left) + 1].kind = "open"
      BY <1>4, SetTimerEffect
    <3> QED
      BY <1>4, <3>1
  <2>3. \A k \in 1 .. Len(timers') : timers'[k].kind # "shutdown"
    BY <1>1, <1>4, <2>1, <2>2
  <2> QED
    BY <1>3, <2>3 DEF Ending, EndedOnce, Shutdowns
<1>6. CASE timers' = [set EXCEPT ![Len(set)].status = "expired"]
  <2>1. timers' = WithStatus(set, last, "expired")
    BY <1>2, <1>6 DEF WithStatus
  <2>2. Len(timers') = last /\ \A k \in 1 .. last : timers'[k].kind # "shutdown"
    BY <1>1, <1>2, <2>1, WithStatusEffect
  <2> QED
    BY <1>3, <2>2 DEF Ending, EndedOnce, Shutdowns
<1> QED
  BY <1>3, <1>5, <1>6 DEF HandlePostInit

LEMMA ServingEnds ==
    ASSUME TypeOK, Control, Ending, Serving
    PROVE  Ending'
<1> USE DEF timerVars, endVars, inputVars, outputVars
<1>0. /\ timers \in Timers /\ handshake_timer \in 0 .. Len(timers) /\ Len(timers) \in Nat
      /\ state \in States /\ istate \in InternalStates
  BY DEF TypeOK, Timers, TimerSet
<1>1. ASSUME UNCHANGED <<timers, ended, opened>>, state' = "closed" <=> state = "closed"
      PROVE  Ending'
  BY <1>1 DEF Ending, EndedOnce, Outcome
<1>2. ASSUME NEW error, Terminate(timers, error), UNCHANGED opened
      PROVE  Ending'
  <2>1. state # "closed" => Outcome = IF state = "connecting" THEN "failed" ELSE "closed"
    BY <1>0 DEF Control, Outcome, States
  <2> QED
    BY <1>0, <1>2, <2>1, TerminateEndsOnce DEF Ending
<1>3. CASE ReadMoreOfTheRequest \/ ReadTooLate \/ ResponseTooLate
  BY <1>1, <1>3 DEF ReadMoreOfTheRequest, ReadTooLate, ResponseTooLate
<1>4. CASE SwitchProtocols \/ RefuseRequest
  BY <1>1, <1>4 DEF SwitchProtocols, RefuseRequest, Respond
<1>5. CASE Open
  <2>1. state = "connecting" /\ state' = "open" /\ ended' = ended /\ timers' = Cancelled(timers, handshake_timer)
    BY <1>5 DEF Open, CancelTimer
  <2>2. /\ Cancelled(timers, handshake_timer) \in Timers
        /\ Len(Cancelled(timers, handshake_timer)) = Len(timers)
        /\ \A j \in 1 .. Len(timers) : Cancelled(timers, handshake_timer)[j].kind = timers[j].kind
    BY <1>0, CancelledEffect
  <2>3. Shutdowns(timers') = Shutdowns(timers)
    BY <2>1, <2>2 DEF Shutdowns
  <2> QED
    BY <2>1, <2>3 DEF Ending, EndedOnce
<1>6. CASE HandshakeRefused
  BY <1>2, <1>6 DEF HandshakeRefused
<1>7. CASE ResponseFails
  BY <1>2, <1>7 DEF ResponseFails
<1>8. ASSUME NEW k \in 1 .. Len(timers)
      PROVE  /\ WithStatus(timers, k, "handled") \in Timers
             /\ Len(WithStatus(timers, k, "handled")) = Len(timers)
             /\ WithStatus(timers, k, "expired") \in Timers
             /\ Len(WithStatus(timers, k, "expired")) = Len(timers)
             /\ \A j \in 1 .. Len(timers) :
                  /\ WithStatus(timers, k, "handled")[j].kind = timers[j].kind
                  /\ WithStatus(timers, k, "handled")[j].tstat = timers[j].tstat
                  /\ WithStatus(timers, k, "handled")[j].status =
                         IF j = k THEN "handled" ELSE timers[j].status
                  /\ WithStatus(timers, k, "expired")[j].kind = timers[j].kind
                  /\ WithStatus(timers, k, "expired")[j].tstat = timers[j].tstat
                  /\ WithStatus(timers, k, "expired")[j].status =
                         IF j = k THEN "expired" ELSE timers[j].status
  BY <1>0, WithStatusEffect
<1>9. ASSUME NEW k \in 1 .. Len(timers), timers[k].kind # "shutdown",
             NEW s \in {"handled", "expired"}
      PROVE  EndedOnce(state, WithStatus(timers, k, s), ended, Outcome)
  <2>1. /\ WithStatus(timers, k, s) \in Timers /\ Len(WithStatus(timers, k, s)) = Len(timers)
        /\ \A j \in 1 .. Len(timers) :
             /\ WithStatus(timers, k, s)[j].kind = timers[j].kind
             /\ WithStatus(timers, k, s)[j].tstat = timers[j].tstat
             /\ WithStatus(timers, k, s)[j].status = timers[j].status \/ timers[j].kind # "shutdown"
    BY <1>8, <1>9
  <2> QED
    BY <1>0, <2>1, SameEnd DEF Ending
<1>10. ASSUME NEW k \in 1 .. Len(timers), Expire(k)
       PROVE  Ending'
  <2>1. /\ timers' = WithStatus(timers, k, "expired") /\ timers[k].status = "armed"
        /\ state' = state /\ ended' = ended /\ Outcome' = Outcome
    BY <1>10 DEF Expire, WithStatus, Outcome
  <2>2. timers[k].kind # "shutdown"
    BY <2>1 DEF Ending, EndedOnce, Shutdowns
  <2> QED
    BY <1>9, <2>1, <2>2 DEF Ending
<1>11. ASSUME NEW k \in 1 .. Len(timers), timers[k].kind # "shutdown",
              NEW error, Terminate(Handled(k), error), UNCHANGED opened
       PROVE  Ending'
  <2>1. Handled(k) = WithStatus(timers, k, "handled")
    BY DEF Handled, WithStatus
  <2>2. state # "closed" => Outcome = IF state = "connecting" THEN "failed" ELSE "closed"
    BY <1>0 DEF Control, Outcome, States
  <2>3. /\ Handled(k) \in Timers /\ handshake_timer \in 0 .. Len(Handled(k))
        /\ EndedOnce(state, Handled(k), ended, Outcome)
    BY <1>0, <1>8, <1>9, <1>11, <2>1
  <2> QED
    BY <1>11, <2>2, <2>3, TerminateEndsOnce
<1>12. ASSUME NEW k \in 1 .. Len(timers), HandleTimeout(k)
       PROVE  Ending'
  BY <1>11, <1>12 DEF HandleTimeout, Expired
<1>13. ASSUME NEW k \in 1 .. Len(timers), HandlePostInitTimeout(k)
       PROVE  Ending'
  BY <1>11, <1>13 DEF HandlePostInitTimeout, Expired
<1>14. ASSUME NEW k \in 1 .. Len(timers), HandleAsyncShutdownTimeout(k)
       PROVE  Ending'
  <2>1. /\ timers[k].kind = "shutdown" /\ timers[k].status = "expired"
        /\ timers' = WithStatus(timers, k, "handled")
        /\ ended' = Append(ended, timers[k].tstat) /\ state' = state /\ Outcome' = Outcome
    BY <1>14 DEF HandleAsyncShutdownTimeout, Expired, Handled, WithStatus, HandleTerminate, Outcome
  <2>2. k \in Shutdowns(timers)
    BY <2>1 DEF Shutdowns
  <2>3. /\ state = "closed" /\ ended = <<>> /\ timers[k].tstat = Outcome
        /\ \A j \in Shutdowns(timers) : j = k
    BY <2>1, <2>2 DEF Ending, EndedOnce
  <2>4. Shutdowns(timers') = Shutdowns(timers) /\ timers'[k].status = "handled"
    BY <1>8, <2>1 DEF Shutdowns
  <2>5. ended' = <<Outcome>>
    BY <2>1, <2>3, OneInFlight
  <2> QED
    BY <2>1, <2>3, <2>4, <2>5 DEF Ending, EndedOnce
<1>15. CASE ReadFails
  BY <1>1, <1>2, <1>15 DEF ReadFails
<1>16. CASE ReadFrames \/ DataMessage \/ Ping \/ ReadOn \/ WriteFrame
  BY <1>1, <1>16 DEF ReadFrames, DataMessage, Ping, ReadOn, WriteFrame
<1>17. CASE PeerCloses
  BY <1>1, <1>2, <1>17, SendCloseFrameEnds DEF PeerCloses
<1>18. CASE PeerClosesBadly
  BY <1>1, <1>18, SendCloseFrameEnds DEF PeerClosesBadly
<1>19. CASE ProtocolError
  BY <1>2, <1>19, SendCloseFrameEnds DEF ProtocolError, Close
<1>20. CASE FramesWritten
  BY <1>1, <1>2, <1>20 DEF FramesWritten
<1>21. CASE WriteFramesFails
  BY <1>2, <1>21 DEF WriteFramesFails
<1> QED
  BY <1>3, <1>4, <1>5, <1>6, <1>7, <1>10, <1>12, <1>13, <1>14, <1>15, <1>16, <1>17, <1>18,
     <1>19, <1>20, <1>21
     DEF Serving, Handshake, Timeout, ProcessFrame

-----------------------------------------------------------------------------
(* Control: at most one read and one write.                                *)

(* What the calls of Terminate and SendCloseFrame leave to the state.      *)
LEMMA EndState ==
    /\ \A ts, error : Terminate(ts, error) => state' = "closed"
    /\ \A ack : SendCloseFrame(ack) => state' = "closing"
BY DEF Terminate, SendCloseFrame

LEMMA AcceptControl ==
    ASSUME Control, HandleAccept
    PROVE  Control' /\ istate' # "USER_INIT"
<1>1. /\ istate = "USER_INIT" /\ state' = "connecting"
      /\ UNCHANGED <<writes, opened, inputVars, outputVars>>
      /\ HandlePostInit(SetTimer(timers, "post_init"))
  BY DEF HandleAccept, InitConnection, PreInit, HandlePreInit, PostInit
<1>2. \/ istate' = "READ_HTTP_REQUEST" /\ reads' = Append(reads, "handshake")
      \/ istate' = "TRANSPORT_INIT" /\ reads' = reads
  BY <1>1 DEF HandlePostInit, HandleTransportInit, ReadHandshake, AsyncRead
<1> QED
  BY <1>1, <1>2, OneInFlight DEF Control, inputVars, outputVars

LEMMA ServingIsInitialised ==
    ASSUME Serving, istate' = "USER_INIT"
    PROVE  istate = "USER_INIT"
BY DEF Serving, Handshake, ProcessFrame, Timeout, Expire, HandleTimeout, HandlePostInitTimeout,
       HandleAsyncShutdownTimeout, ReadMoreOfTheRequest, SwitchProtocols, RefuseRequest, Respond,
       ReadTooLate, Open, HandshakeRefused, ResponseTooLate, ResponseFails, ReadFails, ReadFrames,
       DataMessage, Ping, PeerCloses, PeerClosesBadly, ProtocolError, ReadOn, WriteFrame,
       FramesWritten, WriteFramesFails

LEMMA ServingNeverConnects ==
    ASSUME Serving, state # "connecting"
    PROVE  state' # "connecting"
BY EndState
   DEF Serving, Handshake, ProcessFrame, Timeout, Expire, HandleTimeout, HandlePostInitTimeout,
       HandleAsyncShutdownTimeout, ReadMoreOfTheRequest, SwitchProtocols, RefuseRequest, Respond,
       ReadTooLate, Open, HandshakeRefused, ResponseTooLate, ResponseFails, ReadFails, ReadFrames,
       DataMessage, Ping, PeerCloses, PeerClosesBadly, ProtocolError, ReadOn, WriteFrame,
       FramesWritten, WriteFramesFails, Close, endVars

LEMMA ServingControl ==
    ASSUME TypeOK, Control, Serving, istate # "USER_INIT" => "open" \in settings.handlers
    PROVE  Control'
<1> USE DEF timerVars, endVars, inputVars, outputVars
<1>0. state \in States /\ istate \in InternalStates /\ posted \in Nat
      /\ Head(<<"handshake">>) = "handshake" /\ Tail(<<"handshake">>) = <<>>
      /\ Head(<<"frame">>) = "frame" /\ Tail(<<"frame">>) = <<>>
      /\ Head(<<"http_response">>) = "http_response" /\ Tail(<<"http_response">>) = <<>>
      /\ Head(<<"frames">>) = "frames" /\ Tail(<<"frames">>) = <<>>
      /\ \A x : Append(<<>>, x) = <<x>>
      /\ "handshake" # "frame" /\ "http_response" # "frames"
  BY OneInFlight DEF TypeOK
<1>1. ASSUME UNCHANGED <<istate, reads, writes, opened, running, posted, send_queue, write_flag, sent>>,
             state' = state \/ state' = "closed"
      PROVE  Control'
  BY <1>0, <1>1 DEF Control, States
<1>2. CASE ReadMoreOfTheRequest
  BY <1>0, <1>2 DEF ReadMoreOfTheRequest, ReadCompletes, AsyncRead, Control
<1>3. CASE SwitchProtocols \/ RefuseRequest
  BY <1>0, <1>3 DEF SwitchProtocols, RefuseRequest, Respond, ReadCompletes, WriteHttpResponse, AsyncWrite, Control
<1>4. CASE ReadTooLate \/ ResponseTooLate
  <2>1. CASE ReadTooLate
    <3>1. reads' = <<>>
      BY <1>0, <2>1 DEF ReadTooLate, ReadCompletes, Control, InternalStates
    <3> QED
      BY <2>1, <3>1 DEF ReadTooLate, Control
  <2>2. CASE ResponseTooLate
    <3>1. writes' = <<>> /\ istate = "PROCESS_HTTP_REQUEST"
      BY <1>0, <2>2 DEF ResponseTooLate, WriteCompletes, Control, InternalStates
    <3>2. <<>> # <<"frames">>
      OBVIOUS
    <3> QED
      BY <2>2, <3>1, <3>2 DEF ResponseTooLate, Control
  <2> QED
    BY <1>4, <2>1, <2>2
<1>5. CASE Open
  <2>1. /\ writes = <<"http_response">> /\ istate = "PROCESS_HTTP_REQUEST"
    BY <1>0, <1>5 DEF Open, WriteCompletes, Control, InternalStates
  <2>2. opened' = TRUE
    BY <1>5, <2>1 DEF Open
  <2> QED
    BY <1>0, <1>5, <2>1, <2>2 DEF Open, Control
<1>6. CASE HandshakeRefused \/ ResponseFails
  <2>1. /\ state' = "closed" /\ writes' = Tail(writes) /\ writes # <<>> /\ Head(writes) = "http_response"
        /\ UNCHANGED <<istate, reads, opened, running, posted, send_queue, write_flag, sent>>
    BY <1>6, EndState DEF HandshakeRefused, ResponseFails, WriteCompletes
  <2>2. writes' = <<>> /\ istate = "PROCESS_HTTP_REQUEST"
    BY <1>0, <2>1 DEF Control, InternalStates
  <2>3. <<>> # <<"frames">>
    OBVIOUS
  <2> QED
    BY <2>1, <2>2, <2>3 DEF Control
<1>7. CASE Timeout
  <2>1. state' = state \/ state' = "closed"
    BY <1>7, EndState
       DEF Timeout, Expire, HandleTimeout, HandlePostInitTimeout, HandleAsyncShutdownTimeout
  <2> QED
    BY <1>1, <1>7, <2>1
       DEF Timeout, Expire, HandleTimeout, HandlePostInitTimeout, HandleAsyncShutdownTimeout
<1>8. CASE ReadFails
  <2>1. state' = state \/ state' = "closed"
    BY <1>8, EndState DEF ReadFails
  <2> QED
    BY <1>0, <1>8, <2>1 DEF ReadFails, Control, States
<1>9. CASE ReadFrames
  BY <1>0, <1>9 DEF ReadFrames, ReadCompletes, Control, InternalStates
<1>10. ASSUME running, UNCHANGED <<istate, reads, writes, opened, write_flag, sent>>,
              state' \in {state, "closing", "closed"}, state = "closed" => state' # "closing",
              running' \in BOOLEAN
       PROVE  Control'
  BY <1>0, <1>10 DEF Control, States
<1>11. CASE DataMessage \/ Ping
  BY <1>10, <1>11 DEF DataMessage, Ping, NextFrame
<1>12. CASE PeerCloses
  BY <1>10, <1>12, EndState DEF PeerCloses, NextFrame
<1>13. CASE PeerClosesBadly
  BY <1>10, <1>13, EndState DEF PeerClosesBadly, NextFrame
<1>14. CASE ProtocolError
  BY <1>10, <1>14, EndState DEF ProtocolError, Close
<1>15. CASE ReadOn
  BY <1>0, <1>15 DEF ReadOn, AsyncRead, Control
<1>16. CASE WriteFrame
  <2>1. CASE WriteNothing
    BY <1>0, <1>16, <2>1 DEF WriteFrame, WriteNothing, Control
  <2>2. CASE ~write_flag /\ WriteBatch
    <3>1. istate = "PROCESS_CONNECTION" /\ writes = <<>>
      BY <1>0, <1>16, <2>2 DEF WriteFrame, Control
    <3>2. writes' = <<"frames">> /\ write_flag' = TRUE
      BY <1>0, <2>2, <3>1 DEF WriteBatch, AsyncWrite
    <3> QED
      BY <1>0, <1>16, <3>1, <3>2 DEF WriteFrame, Control
  <2> QED
    BY <1>16, <2>1, <2>2 DEF WriteFrame
<1>17. CASE FramesWritten
  <2>1. writes = <<"frames">> /\ writes' = <<>> /\ istate = "PROCESS_CONNECTION"
    BY <1>0, <1>17 DEF FramesWritten, WriteCompletes, Control, InternalStates
  <2>2. \/ state' = "closed"
        \/ state' = state /\ write_flag' = FALSE
    BY <1>17, EndState DEF FramesWritten
  <2> QED
    BY <1>0, <1>17, <2>1, <2>2 DEF FramesWritten, Control
<1>18. CASE WriteFramesFails
  <2>1. writes = <<"frames">> /\ writes' = <<>> /\ istate = "PROCESS_CONNECTION" /\ state' = "closed"
    BY <1>0, <1>18, EndState DEF WriteFramesFails, WriteCompletes, Control, InternalStates
  <2> QED
    BY <1>0, <1>18, <2>1 DEF WriteFramesFails, Control
<1> QED
  BY <1>2, <1>3, <1>4, <1>5, <1>6, <1>7, <1>8, <1>9, <1>11, <1>12, <1>13, <1>14, <1>15, <1>16,
     <1>17, <1>18
     DEF Serving, Handshake, ProcessFrame

-----------------------------------------------------------------------------
(* Queue: what is written, and that somebody will write the rest.          *)

(* A batch ends with the only terminal message that it may have; what is   *)
(* left of the queue has none, unless there was one behind it.             *)
LEMMA WriteBatchEffect ==
    ASSUME TypeOK, send_queue # <<>>, WriteBatch
    PROVE  /\ current_msgs' \in Seq(Messages) /\ current_msgs' # <<>>
           /\ \A k \in 1 .. Len(current_msgs') - 1 : ~current_msgs'[k].terminal
           /\ sent' = sent \o current_msgs'
           /\ write_flag' = TRUE /\ writes' = Append(writes, "frames")
           /\ (\E k \in 1 .. Len(send_queue) : send_queue[k].terminal) =>
                  current_msgs'[Len(current_msgs')].terminal
<1> DEFINE n == Batch(send_queue)
<1>1. send_queue \in Seq(Messages) /\ Len(send_queue) \in Nat /\ Len(send_queue) > 0
  BY DEF TypeOK, Messages
<1>2. /\ n \in 0 .. Len(send_queue)
      /\ \A k \in 1 .. n - 1 : ~send_queue[k].terminal
      /\ n = Len(send_queue) \/ (n > 0 /\ send_queue[n].terminal)
  BY <1>1, BatchEnds
<1>3. /\ current_msgs' = SubSeq(send_queue, 1, n)
      /\ write_flag' = TRUE /\ writes' = Append(writes, "frames") /\ sent' = sent \o current_msgs'
  BY DEF WriteBatch, AsyncWrite
<1> HIDE DEF n
<1>4. n \in 1 .. Len(send_queue)
  BY <1>1, <1>2
<1>5. /\ current_msgs' \in Seq(Messages) /\ Len(current_msgs') = n
      /\ \A k \in 1 .. n : current_msgs'[k] = send_queue[k]
  <2>1. \A k \in 1 .. n : send_queue[k] \in Messages
    BY <1>1, <1>4
  <2> QED
    BY <1>3, <1>4, <2>1, SubSeqProperties
<1>6. current_msgs' # <<>>
  BY <1>4, <1>5
<1>7. ASSUME NEW k \in 1 .. Len(send_queue), send_queue[k].terminal
      PROVE  current_msgs'[Len(current_msgs')].terminal
  BY <1>1, <1>2, <1>4, <1>5, <1>7
<1>8. (\E k \in 1 .. Len(send_queue) : send_queue[k].terminal) =>
          current_msgs'[Len(current_msgs')].terminal
  BY <1>7
<1>9. \A k \in 1 .. Len(current_msgs') - 1 : ~current_msgs'[k].terminal
  <2> SUFFICES ASSUME NEW k \in 1 .. n - 1
               PROVE  ~current_msgs'[k].terminal
    BY <1>5
  <2>1. k \in 1 .. n
    BY <1>4
  <2> QED
    BY <1>2, <1>5, <2>1
<1> QED
  BY <1>3, <1>5, <1>6, <1>8, <1>9

(* Every message is queued with somebody to write it.                      *)
LEMMA PushWakes ==
    ASSUME TypeOK, NEW msg \in Messages, Push(msg)
    PROVE  (write_flag \/ posted' > 0) /\ posted' >= posted
BY DEF TypeOK, Push, Dispatch

LEMMA ServingQueue ==
    ASSUME TypeOK, Control, Queue, Serving
    PROVE  Queue'
<1> USE DEF timerVars, endVars, inputVars, outputVars
<1>0. /\ state \in States /\ istate \in InternalStates /\ posted \in Nat
      /\ sent \in Seq(Messages) /\ current_msgs \in Seq(Messages) /\ send_queue \in Seq(Messages)
      /\ write_flag \in BOOLEAN
  BY DEF TypeOK, Messages
<1>n. <<>> # <<"frames">> /\ <<"http_response">> # <<"frames">>
      /\ Head(<<"frames">>) = "frames" /\ Tail(<<"frames">>) = <<>>
      /\ Head(<<"http_response">>) = "http_response" /\ Tail(<<"http_response">>) = <<>>
      /\ \A x : Append(<<>>, x) = <<x>>
  BY OneInFlight
<1>1. ASSUME UNCHANGED <<write_flag, current_msgs, sent>>,
             writes' = writes \/ writes' # <<"frames">>,
             NoLostWakeup'
      PROVE  Queue'
  BY <1>1 DEF Queue, NothingAfterClose
<1>2. ASSUME UNCHANGED <<send_queue, posted, write_flag, current_msgs, sent>>,
             writes' = writes \/ writes' # <<"frames">>,
             state' = "closed" \/ state # "closed"
      PROVE  Queue'
  BY <1>1, <1>2 DEF Queue, NoLostWakeup
<1>3. state' = "closed" \/ state # "closed"
  BY EndState
     DEF Serving, Handshake, ProcessFrame, Timeout, Expire, HandleTimeout, HandlePostInitTimeout,
         HandleAsyncShutdownTimeout, ReadMoreOfTheRequest, SwitchProtocols, RefuseRequest, Respond,
         ReadTooLate, Open, HandshakeRefused, ResponseTooLate, ResponseFails, ReadFails, ReadFrames,
         DataMessage, Ping, PeerCloses, PeerClosesBadly, ProtocolError, ReadOn, WriteFrame,
         FramesWritten, WriteFramesFails, Close
<1>4. CASE SwitchProtocols \/ RefuseRequest
  <2>1. istate = "READ_HTTP_REQUEST" /\ writes' = Append(writes, "http_response")
        /\ UNCHANGED <<send_queue, posted, write_flag, current_msgs, sent>>
    BY <1>4 DEF SwitchProtocols, RefuseRequest, Respond, WriteHttpResponse, AsyncWrite
  <2>2. writes' # <<"frames">>
    BY <1>n, <2>1 DEF Control
  <2> QED
    BY <1>2, <1>3, <2>1, <2>2
<1>5. CASE Open \/ HandshakeRefused \/ ResponseTooLate \/ ResponseFails
  <2>1. writes' = Tail(writes) /\ writes # <<>>
        /\ UNCHANGED <<send_queue, posted, write_flag, current_msgs, sent>>
    BY <1>5 DEF Open, HandshakeRefused, ResponseTooLate, ResponseFails, WriteCompletes
  <2>2. writes' # <<"frames">>
    BY <1>0, <1>n, <2>1 DEF Control, InternalStates
  <2> QED
    BY <1>2, <1>3, <2>1, <2>2
<1>6. CASE ReadMoreOfTheRequest \/ ReadTooLate \/ Timeout \/ ReadFails \/ ReadFrames \/ ReadOn
  BY <1>2, <1>3, <1>6
     DEF ReadMoreOfTheRequest, ReadTooLate, ReadFails, ReadFrames, ReadOn, Timeout, Expire,
         HandleTimeout, HandlePostInitTimeout, HandleAsyncShutdownTimeout
<1>7. CASE ProcessFrame /\ ~ReadOn
  <2>1. UNCHANGED <<write_flag, current_msgs, sent, writes>>
    BY <1>7 DEF ProcessFrame, DataMessage, Ping, PeerCloses, PeerClosesBadly, ProtocolError
  <2>2. \/ UNCHANGED <<send_queue, posted>>
        \/ \E msg \in Messages : Push(msg)
    BY <1>0, <1>7, MessageTypes
       DEF ProcessFrame, DataMessage, EndpointSend, Send, Ping, SendPong, PeerCloses, PeerClosesBadly,
           ProtocolError, Close, SendCloseFrame, TypeOK
  <2>3. NoLostWakeup'
    BY <1>3, <2>1, <2>2, PushWakes DEF NoLostWakeup, Queue
  <2> QED
    BY <1>1, <2>1, <2>3
<1>8. CASE WriteFrame
  <2>1. posted > 0 /\ posted' = posted - 1 /\ state' = state
    BY <1>8 DEF WriteFrame
  <2>2. CASE (write_flag \/ send_queue = <<>>) /\ WriteNothing
    <3>1. NoLostWakeup'
      BY <2>2 DEF WriteNothing, NoLostWakeup
    <3> QED
      BY <1>1, <2>2, <3>1 DEF WriteNothing
  <2>3. CASE ~write_flag /\ send_queue # <<>> /\ WriteBatch
    <3>1. /\ current_msgs' \in Seq(Messages) /\ current_msgs' # <<>>
          /\ \A k \in 1 .. Len(current_msgs') - 1 : ~current_msgs'[k].terminal
          /\ sent' = sent \o current_msgs' /\ write_flag' = TRUE
      BY <2>3, WriteBatchEffect
    <3>2. \A k \in 1 .. Len(sent) : ~sent[k].terminal
      <4>1. sent # <<>> => ~sent[Len(sent)].terminal
        BY <2>3 DEF Queue
      <4>2. \A k \in 1 .. Len(sent) - 1 : ~sent[k].terminal
        BY DEF Queue, NothingAfterClose
      <4> QED
        BY <1>0, <4>1, <4>2
    <3>3. /\ Len(sent') = Len(sent) + Len(current_msgs') /\ Len(current_msgs') > 0
          /\ Len(sent) \in Nat /\ Len(current_msgs') \in Nat
          /\ \A k \in 1 .. Len(sent') : sent'[k] =
                 IF k <= Len(sent) THEN sent[k] ELSE current_msgs'[k - Len(sent)]
      BY <1>0, <3>1, ConcatProperties
    <3>4. NothingAfterClose'
      BY <3>1, <3>2, <3>3 DEF NothingAfterClose
    <3>5. sent' # <<>> /\ current_msgs'[Len(current_msgs')].terminal = sent'[Len(sent')].terminal
      BY <3>3
    <3> QED
      BY <3>1, <3>4, <3>5 DEF Queue, NoLostWakeup
  <2> QED
    BY <1>8, <2>2, <2>3 DEF WriteFrame
<1>9. CASE FramesWritten
  <2>0. writes # <<>> /\ Head(writes) = "frames" /\ writes' = Tail(writes)
        /\ UNCHANGED <<sent, send_queue>>
    BY <1>9 DEF FramesWritten, WriteCompletes
  <2>1. /\ writes = <<"frames">> /\ writes' = <<>> /\ UNCHANGED <<sent, send_queue>>
    BY <1>0, <1>n, <2>0 DEF Control, InternalStates
  <2>2. current_msgs[Len(current_msgs)].terminal = sent[Len(sent)].terminal
    BY <2>1 DEF Queue
  <2>3. CASE Terminate(timers, "none") /\ UNCHANGED <<write_flag, posted>>
    BY <1>n, <2>1, <2>3, EndState DEF Queue, NoLostWakeup, NothingAfterClose
  <2>4. CASE /\ ~current_msgs[Len(current_msgs)].terminal
             /\ posted' = IF send_queue = <<>> THEN posted ELSE posted + 1
    BY <1>0, <1>n, <2>1, <2>2, <2>4 DEF Queue, NoLostWakeup, NothingAfterClose
  <2> QED
    BY <1>9, <2>3, <2>4 DEF FramesWritten
<1>10. CASE WriteFramesFails
  <2>1. /\ writes' = <<>> /\ state' = "closed" /\ UNCHANGED <<sent, send_queue, write_flag>>
    BY <1>0, <1>n, <1>10, EndState DEF WriteFramesFails, WriteCompletes, Control, InternalStates
  <2> QED
    BY <1>n, <2>1 DEF Queue, NoLostWakeup, NothingAfterClose
<1> QED
  BY <1>4, <1>5, <1>6, <1>7, <1>8, <1>9, <1>10 DEF Serving, Handshake, ProcessFrame
-----------------------------------------------------------------------------
(* Waiting: something is always in flight that leads to the end.           *)

(* A message is queued behind, or beside, the close frame that is queued.  *)
LEMMA PushKeepsTheClose ==
    ASSUME TypeOK, NEW msg \in Messages, Push(msg), UNCHANGED <<writes, current_msgs>>
    PROVE  CloseIsComing \/ msg.terminal => CloseIsComing'
<1>1. /\ Len(send_queue) \in Nat /\ Len(send_queue') = Len(send_queue) + 1
      /\ send_queue'[Len(send_queue) + 1] = msg
      /\ \A k \in 1 .. Len(send_queue) : send_queue'[k] = send_queue[k]
  BY AppendProperties DEF Push, TypeOK, Messages
<1>2. \A k \in 1 .. Len(send_queue) : k \in 1 .. Len(send_queue')
  BY <1>1
<1>3. Len(send_queue) + 1 \in 1 .. Len(send_queue')
  BY <1>1
<1> QED
  BY <1>1, <1>2, <1>3 DEF CloseIsComing

LEMMA ClosesIn ==
    ASSUME TypeOK, NEW ack, SendCloseFrame(ack), UNCHANGED <<writes, current_msgs>>
    PROVE  state' = "closing" /\ CloseIsComing'
<1>1. CloseFrame \in Messages /\ CloseFrame.terminal
  BY MessageTypes DEF CloseFrame
<1> QED
  BY <1>1, PushKeepsTheClose DEF SendCloseFrame

(* Only the callback of the timer that has run out takes its turn.         *)
LEMMA TimeoutKeepsWaiting ==
    ASSUME TypeOK, Timeout
    PROVE  \/ state' = "closed"
           \/ /\ UNCHANGED <<state, istate, reads, writes, running, send_queue, current_msgs>>
              /\ \A k \in 1 .. Len(timers) :
                    timers[k].kind = "post_init" /\ timers[k].status = "expired" =>
                    /\ k \in 1 .. Len(timers')
                    /\ timers'[k].kind = "post_init" /\ timers'[k].status = "expired"
<1> USE DEF timerVars, endVars, inputVars, outputVars
<1>1. timers \in Timers
  BY DEF TypeOK, Timers, TimerSet
<1>2. PICK k \in 1 .. Len(timers) :
          Expire(k) \/ HandleTimeout(k) \/ HandlePostInitTimeout(k) \/ HandleAsyncShutdownTimeout(k)
  BY DEF Timeout
<1>3. CASE HandleTimeout(k) \/ HandlePostInitTimeout(k)
  BY <1>3, EndState DEF HandleTimeout, HandlePostInitTimeout
<1>4. CASE Expire(k)
  <2>1. timers' = WithStatus(timers, k, "expired")
    BY <1>4 DEF Expire, WithStatus
  <2>2. /\ Len(timers') = Len(timers)
        /\ \A j \in 1 .. Len(timers) :
              /\ timers'[j].kind = timers[j].kind
              /\ timers'[j].status = IF j = k THEN "expired" ELSE timers[j].status
    <3>1. /\ Len(WithStatus(timers, k, "expired")) = Len(timers)
          /\ \A j \in 1 .. Len(timers) :
                /\ WithStatus(timers, k, "expired")[j].kind = timers[j].kind
                /\ WithStatus(timers, k, "expired")[j].status =
                       IF j = k THEN "expired" ELSE timers[j].status
      BY <1>1, WithStatusEffect
    <3> QED
      BY <2>1, <3>1
  <2> QED
    BY <1>4, <2>2 DEF Expire
<1>5. CASE HandleAsyncShutdownTimeout(k)
  <2>1. timers' = WithStatus(timers, k, "handled") /\ timers[k].kind = "shutdown"
    BY <1>5 DEF HandleAsyncShutdownTimeout, Expired, Handled, WithStatus
  <2>2. /\ Len(timers') = Len(timers)
        /\ \A j \in 1 .. Len(timers) :
              /\ timers'[j].kind = timers[j].kind
              /\ timers'[j].status = IF j = k THEN "handled" ELSE timers[j].status
    BY <1>1, <2>1, WithStatusEffect
  <2>3. \A j \in 1 .. Len(timers) : timers[j].kind = "post_init" => j # k
    BY <2>1
  <2> QED
    BY <1>5, <2>2, <2>3 DEF HandleAsyncShutdownTimeout
<1> QED
  BY <1>2, <1>3, <1>4, <1>5

LEMMA ServingWaiting ==
    ASSUME TypeOK, Control, Queue, Waiting, Serving
    PROVE  Waiting'
<1> USE DEF timerVars, endVars, inputVars, outputVars
<1>0. /\ state \in States /\ istate \in InternalStates
      /\ Head(<<"handshake">>) # "frame"
      /\ Append(writes, "http_response") # <<>> /\ Append(reads, "frame") # <<>>
      /\ reads # <<>> => Append(Tail(reads), "handshake") # <<>>
  <2>1. \A S : \A s \in Seq(S) : s # <<>> => Tail(s) \in Seq(S)
    BY HeadTailProperties
  <2>2. reads \in Seq({"handshake", "frame"}) /\ writes \in Seq({"http_response", "frames"})
    BY DEF TypeOK
  <2>3. \A S : \A s \in Seq(S), x \in S : Append(s, x) # <<>>
    BY AppendProperties
  <2>4. Append(writes, "http_response") # <<>> /\ Append(reads, "frame") # <<>>
    BY <2>2, <2>3
  <2>5. reads # <<>> => Append(Tail(reads), "handshake") # <<>>
    BY <2>1, <2>2, <2>3
  <2>6. Head(<<"handshake">>) # "frame"
    BY OneInFlight
  <2> QED
    BY <2>4, <2>5, <2>6 DEF TypeOK
<1>1. ASSUME state' = "closed"
      PROVE  Waiting'
  BY <1>1 DEF Waiting
<1>2. ASSUME UNCHANGED <<state, istate, reads, writes, running, send_queue, current_msgs, timers>>
      PROVE  Waiting'
  BY <1>2 DEF Waiting, CloseIsComing
<1>3. ASSUME istate = "PROCESS_CONNECTION", istate' = istate, state' \in States \ {"connecting"},
             state' = "open" => running' \/ reads' # <<>>,
             state' = "closing" => CloseIsComing'
      PROVE  Waiting'
  BY <1>3 DEF Waiting, States
<1>4. CASE Handshake
  <2>1. CASE ReadMoreOfTheRequest
    BY <1>0, <1>4, <2>1 DEF ReadMoreOfTheRequest, AsyncRead, Waiting
  <2>2. CASE SwitchProtocols \/ RefuseRequest
    BY <1>0, <1>4, <2>2 DEF SwitchProtocols, RefuseRequest, Respond, WriteHttpResponse, AsyncWrite, Waiting
  <2>3. CASE Open
    BY <2>3 DEF Open, Waiting
  <2>4. CASE ReadTooLate \/ HandshakeRefused \/ ResponseTooLate \/ ResponseFails
    BY <1>1, <2>4, EndState DEF ReadTooLate, HandshakeRefused, ResponseTooLate, ResponseFails
  <2> QED
    BY <1>4, <2>1, <2>2, <2>3, <2>4 DEF Handshake
<1>5. CASE Timeout
  <2>1. CASE state' = "closed"
    BY <1>1, <2>1
  <2>2. CASE /\ UNCHANGED <<state, istate, reads, writes, running, send_queue, current_msgs>>
             /\ \A k \in 1 .. Len(timers) :
                    timers[k].kind = "post_init" /\ timers[k].status = "expired" =>
                    /\ k \in 1 .. Len(timers')
                    /\ timers'[k].kind = "post_init" /\ timers'[k].status = "expired"
    BY <2>2 DEF Waiting, CloseIsComing
  <2> QED
    BY <1>5, <2>1, <2>2, TimeoutKeepsWaiting
<1>6. CASE ReadFails
  BY <1>1, <1>6, EndState DEF ReadFails
<1>7. CASE ReadFrames
  <2>1. istate = "PROCESS_CONNECTION"
    BY <1>0, <1>7 DEF ReadFrames, ReadCompletes, Control, InternalStates
  <2>2. state' = state /\ state # "connecting" /\ running' = TRUE /\ istate' = istate
        /\ UNCHANGED <<writes, send_queue, current_msgs>>
    BY <1>7, <2>1 DEF ReadFrames, Control
  <2> QED
    BY <1>0, <1>3, <2>1, <2>2 DEF Waiting, CloseIsComing
<1>8. CASE ProcessFrame
  <2>1. istate = "PROCESS_CONNECTION" /\ state # "connecting" /\ running /\ istate' = istate
        /\ UNCHANGED <<writes, current_msgs>>
    BY <1>8 DEF ProcessFrame, DataMessage, Ping, PeerCloses, PeerClosesBadly, ProtocolError, ReadOn,
                NextFrame, Control
  <2>2. ASSUME state' = state, running' = TRUE \/ reads' # <<>>,
               UNCHANGED send_queue \/ \E msg \in Messages : Push(msg)
        PROVE  Waiting'
    <3>1. CloseIsComing => CloseIsComing'
      BY <2>1, <2>2, PushKeepsTheClose DEF CloseIsComing
    <3> QED
      BY <1>0, <1>3, <2>1, <2>2, <3>1 DEF Waiting
  <2>3. ASSUME NEW ack, SendCloseFrame(ack)
        PROVE  Waiting'
    BY <1>3, <2>1, <2>3, ClosesIn DEF States
  <2>4. CASE DataMessage \/ Ping
    <3>1. UNCHANGED send_queue \/ \E msg \in Messages : Push(msg)
      BY <2>4, MessageTypes DEF DataMessage, EndpointSend, Send, Ping, SendPong, TypeOK
    <3> QED
      BY <2>1, <2>2, <2>4, <3>1 DEF DataMessage, Ping
  <2>5. CASE PeerCloses
    <3>1. \/ SendCloseFrame(TRUE)
          \/ state' = "closed"
          \/ state' = state /\ UNCHANGED send_queue
      BY <2>5, EndState DEF PeerCloses
    <3> QED
      BY <1>1, <2>1, <2>2, <2>3, <2>5, <3>1 DEF PeerCloses
  <2>6. CASE PeerClosesBadly
    <3>1. SendCloseFrame(TRUE) \/ state' = "closed"
      BY <2>6 DEF PeerClosesBadly
    <3> QED
      BY <1>1, <2>3, <3>1
  <2>7. CASE ProtocolError
    BY <1>1, <2>3, <2>7, EndState DEF ProtocolError, Close
  <2>8. CASE ReadOn
    BY <1>0, <2>2, <2>8 DEF ReadOn, AsyncRead
  <2> QED
    BY <1>8, <2>4, <2>5, <2>6, <2>7, <2>8 DEF ProcessFrame
<1>9. CASE WriteFrame
  <2>1. istate = "PROCESS_CONNECTION" /\ state # "connecting" /\ state' = state /\ istate' = istate
        /\ UNCHANGED <<reads, running, timers>>
    BY <1>9 DEF WriteFrame, Control
  <2>2. CASE (write_flag \/ send_queue = <<>>) /\ WriteNothing
    BY <1>2, <2>1, <2>2 DEF WriteNothing
  <2>3. CASE ~write_flag /\ send_queue # <<>> /\ WriteBatch
    <3>1. /\ writes' = Append(writes, "frames")
          /\ (\E k \in 1 .. Len(send_queue) : send_queue[k].terminal) =>
                 current_msgs'[Len(current_msgs')].terminal
      BY <2>3, WriteBatchEffect
    <3>2. writes = <<>>
      BY <2>1, <2>3 DEF Control
    <3>3. writes' = <<"frames">>
      BY <3>1, <3>2, OneInFlight
    <3>4. writes # <<"frames">>
      BY <3>2, OneInFlight
    <3>5. CloseIsComing => CloseIsComing'
      BY <3>1, <3>3, <3>4 DEF CloseIsComing
    <3> QED
      BY <1>0, <1>3, <2>1, <3>5 DEF Waiting
  <2> QED
    BY <1>9, <2>2, <2>3 DEF WriteFrame
<1>10. CASE FramesWritten
  <2>1. writes # <<>> /\ Head(writes) = "frames" /\ UNCHANGED <<istate, reads, running, send_queue>>
    BY <1>10 DEF FramesWritten, WriteCompletes
  <2>2. istate = "PROCESS_CONNECTION" /\ state # "connecting"
    BY <1>0, <2>1, OneInFlight DEF Control, InternalStates
  <2>3. CASE Terminate(timers, "none")
    BY <1>1, <2>3, EndState
  <2>4. CASE ~current_msgs[Len(current_msgs)].terminal /\ state' = state
    <3>1. CloseIsComing => CloseIsComing'
      BY <2>1, <2>4 DEF CloseIsComing
    <3> QED
      BY <1>0, <1>3, <2>1, <2>2, <2>4, <3>1 DEF Waiting
  <2> QED
    BY <1>10, <2>3, <2>4 DEF FramesWritten
<1>11. CASE WriteFramesFails
  BY <1>1, <1>11, EndState DEF WriteFramesFails
<1> QED
  BY <1>4, <1>5, <1>6, <1>7, <1>8, <1>9, <1>10, <1>11 DEF Serving

LEMMA AcceptWaiting ==
    ASSUME TypeOK, HandleAccept
    PROVE  Waiting'
<1> DEFINE set == SetTimer(timers, "post_init")
           last == Len(timers) + 1
<1>1. timers \in Timers /\ Len(timers) \in Nat /\ last \in 1 .. last
  BY DEF TypeOK, Timers, TimerSet
<1>2. set \in Timers /\ Len(set) = last /\ set[last].kind = "post_init"
  BY <1>1, SetTimerEffect
<1>3. state' = "connecting" /\ HandlePostInit(set)
  BY DEF HandleAccept, InitConnection, PreInit, HandlePreInit, PostInit
<1> HIDE DEF set
<1>4. CASE HandleTransportInit(Cancelled(set, Len(set)))
  <2>1. istate' = "READ_HTTP_REQUEST" /\ reads' = Append(reads, "handshake")
    BY <1>4 DEF HandleTransportInit, ReadHandshake, AsyncRead
  <2>2. reads' # <<>>
    BY <2>1
  <2> QED
    BY <1>3, <2>1, <2>2 DEF Waiting
<1>5. CASE istate' = "TRANSPORT_INIT" /\ timers' = [set EXCEPT ![Len(set)].status = "expired"]
  <2>1. timers' = WithStatus(set, last, "expired")
    BY <1>2, <1>5 DEF WithStatus
  <2>2. /\ Len(timers') = last
        /\ timers'[last].kind = "post_init" /\ timers'[last].status = "expired"
    BY <1>1, <1>2, <2>1, WithStatusEffect
  <2>3. \E k \in 1 .. Len(timers') : timers'[k].kind = "post_init" /\ timers'[k].status = "expired"
    BY <1>1, <2>2
  <2> QED
    BY <1>3, <1>5, <2>3 DEF Waiting
<1> QED
  BY <1>3, <1>4, <1>5 DEF HandlePostInit
-----------------------------------------------------------------------------
(* The loop of accepts.                                                    *)

(* Nothing happens to a connection before it is accepted.                  *)
LEMMA ServingIsAccepted ==
    ASSUME Control, Serving, istate = "USER_INIT", timers = <<>>
    PROVE  FALSE
<1>1. reads = <<>> /\ writes = <<>> /\ ~running /\ ~(posted > 0)
  BY DEF Control
<1>2. ~Timeout
  <2>1. Len(timers) = 0
    OBVIOUS
  <2>2. 1 .. Len(timers) = {}
    BY <2>1
  <2> HIDE DEF Expire, HandleTimeout, HandlePostInitTimeout, HandleAsyncShutdownTimeout
  <2> QED
    BY <2>2 DEF Timeout
<1>3. ~ProcessFrame
  BY <1>1 DEF ProcessFrame, DataMessage, Ping, PeerCloses, PeerClosesBadly, ProtocolError, NextFrame, ReadOn
<1>4. ~Handshake
  BY <1>1
     DEF Handshake, ReadMoreOfTheRequest, SwitchProtocols, RefuseRequest, Respond, ReadCompletes,
         ReadTooLate, Open, HandshakeRefused, ResponseTooLate, ResponseFails, WriteCompletes
<1>5. ~ReadFails /\ ~ReadFrames /\ ~WriteFrame /\ ~FramesWritten /\ ~WriteFramesFails
  BY <1>1 DEF ReadFails, ReadFrames, ReadCompletes, WriteFrame, FramesWritten, WriteFramesFails, WriteCompletes
<1> QED
  BY <1>2, <1>3, <1>4, <1>5 DEF Serving

IInv == Types /\ Control /\ Ending /\ Queue /\ Waiting /\ Accepting

LEMMA InitInvariant == ServerInit => IInv
<1> SUFFICES ASSUME ServerInit PROVE IInv
  OBVIOUS
<1>1. Types
  BY InitTypes
<1>2. /\ state = "connecting" /\ istate = "USER_INIT" /\ timers = <<>> /\ socket = "UNINITIALIZED"
      /\ reads = <<>> /\ writes = <<>> /\ running = FALSE /\ send_queue = <<>>
      /\ write_flag = FALSE /\ posted = 0 /\ sent = <<>> /\ opened = FALSE /\ ended = <<>>
      /\ endpoint.handlers = {} /\ transport_state = "UNINITIALIZED"
      /\ created = FALSE /\ accepting = <<>>
  BY DEF ServerInit, Init, NewEndpoint
<1>3. <<>> # <<"frames">> /\ <<>> # <<"this">> /\ Len(<<>>) = 0
  OBVIOUS
<1>4. Control
  BY <1>2, <1>3 DEF Control
<1>5. Ending
  BY <1>2, <1>3 DEF Ending, EndedOnce, Shutdowns
<1>6. Queue
  BY <1>2, <1>3 DEF Queue, NoLostWakeup, NothingAfterClose
<1>7. Waiting
  BY <1>2 DEF Waiting
<1>8. Accepting
  BY <1>2, <1>3 DEF Accepting
<1> QED
  BY <1>1, <1>4, <1>5, <1>6, <1>7, <1>8 DEF IInv

(* What leaves the connection alone, or gives it its settings only.        *)
LEMMA SameConnection ==
    ASSUME IInv,
           UNCHANGED <<state, istate, reads, writes, opened, running, posted, send_queue, write_flag,
                       sent, current_msgs, timers, ended>>
    PROVE  Control' /\ Ending' /\ Queue' /\ Waiting'
<1>1. Control'
  BY DEF IInv, Control
<1>2. Ending'
  BY DEF IInv, Ending, Outcome
<1>3. Queue'
  BY DEF IInv, Queue, NoLostWakeup, NothingAfterClose
<1>4. Waiting'
  BY DEF IInv, Waiting, CloseIsComing
<1> QED
  BY <1>1, <1>2, <1>3, <1>4

LEMMA StartAcceptInvariant ==
    ASSUME IInv, StartAccept(<<>>), "open" \in endpoint.handlers,
           accepting # <<"this">>, UNCHANGED endpoint, transport_state' = "LISTENING"
    PROVE  Control' /\ Ending' /\ Queue' /\ Waiting' /\ Accepting'
<1> USE DEF timerVars, endVars, inputVars, outputVars, vars
<1>1. UNCHANGED <<state, istate, reads, writes, opened, running, posted, send_queue, write_flag,
                  sent, current_msgs, timers, ended>>
  BY DEF StartAccept, Create
<1>2. Control' /\ Ending' /\ Queue' /\ Waiting'
  BY <1>1, SameConnection
<1>3. <<"this">> # <<"another">> /\ <<"this">> # <<>> /\ <<"another">> # <<>>
      /\ Append(<<>>, "this") = <<"this">> /\ Append(<<>>, "another") = <<"another">>
  OBVIOUS
<1>4. CASE AcceptNext(<<>>) /\ UNCHANGED vars
  <2>1. accepting' = <<"another">> /\ UNCHANGED <<created, settings, istate, state, socket, timers>>
    BY <1>3, <1>4 DEF AcceptNext, AsyncAccept
  <2>2. Accepting'
    BY <1>3, <2>1 DEF IInv, Accepting
  <2> QED
    BY <1>2, <2>2
<1>5. CASE Create(<<>>)
  <2>1. /\ accepting' = <<"this">> /\ created' = TRUE /\ ~created
        /\ settings' = CreateConnection(endpoint)
    BY <1>3, <1>5 DEF Create, AsyncAccept
  <2>2. "open" \in settings'.handlers
    BY <2>1, CreateConnectionEffect DEF IInv, Types
  <2>3. Accepting'
    BY <1>1, <1>3, <2>1, <2>2 DEF IInv, Accepting
  <2> QED
    BY <1>2, <2>3
<1> QED
  BY <1>4, <1>5 DEF StartAccept

LEMMA AcceptFailsInvariant ==
    ASSUME IInv, AcceptFails
    PROVE  Control' /\ Ending' /\ Queue' /\ Waiting' /\ state' = "closed"
<1> USE DEF timerVars, endVars, inputVars, outputVars
<1>1. /\ istate = "USER_INIT" /\ state = "connecting" /\ Terminate(timers, "error")
      /\ UNCHANGED <<istate, reads, writes, opened, running, posted, send_queue, write_flag,
                     sent, current_msgs>>
  BY DEF AcceptFails
<1>2. state' = "closed"
  BY <1>1, EndState
<1>3. Control'
  BY <1>1, <1>2 DEF IInv, Control
<1>4. Ending'
  <2>1. timers \in Timers /\ handshake_timer \in 0 .. Len(timers)
    BY DEF IInv, Types, TypeOK, Timers, TimerSet
  <2>2. EndedOnce(state, timers, ended, Outcome) /\ Outcome = "failed"
    BY <1>1 DEF IInv, Ending, Outcome, Control
  <2> QED
    BY <1>1, <2>1, <2>2, TerminateEndsOnce
<1>5. Queue'
  BY <1>1, <1>2 DEF IInv, Queue, NoLostWakeup, NothingAfterClose
<1>6. Waiting'
  BY <1>2 DEF Waiting
<1> QED
  BY <1>2, <1>3, <1>4, <1>5, <1>6
(* The step, one action of the server after another.                       *)
LEMMA NextInvariant == IInv /\ [ServerNext]_serverVars => IInv'
<1> SUFFICES ASSUME IInv, [ServerNext]_serverVars PROVE IInv'
  OBVIOUS
<1> USE DEF timerVars, endVars, inputVars, outputVars, vars
<1>0. Types /\ TypeOK /\ Control /\ Ending /\ Queue /\ Waiting /\ Accepting
  BY DEF IInv, Types
<1>1. Types'
  BY <1>0, NextTypes
<1>2. SUFFICES Control' /\ Ending' /\ Queue' /\ Waiting' /\ Accepting'
  BY <1>1 DEF IInv
<1>3. <<>> # <<"this">> /\ <<>> # <<"another">> /\ <<"this">> # <<"another">>
      /\ Tail(<<"this">>) = <<>> /\ Tail(<<"another">>) = <<>> /\ Head(<<"this">>) = "this"
      /\ Head(<<"another">>) = "another" /\ Append(<<>>, "another") = <<"another">>
  BY OneInFlight
<1>4. ASSUME UNCHANGED <<settings, vars, acceptVars>>,
             transport_state' = "LISTENING" <=> transport_state = "LISTENING",
             endpoint'.handlers = {} \/ "open" \in endpoint'.handlers,
             transport_state' # "UNINITIALIZED" => "open" \in endpoint'.handlers
      PROVE  Control' /\ Ending' /\ Queue' /\ Waiting' /\ Accepting'
  <2>1. Control' /\ Ending' /\ Queue' /\ Waiting'
    BY <1>4, SameConnection
  <2>2. Accepting'
    BY <1>0, <1>4 DEF Accepting, acceptVars
  <2> QED
    BY <2>1, <2>2
<1>5. CASE SetHandlers
  <2>1. "open" \in endpoint'.handlers
    BY <1>0, <1>5 DEF SetHandlers, SetHandler, Types, EndpointSettings
  <2> QED
    BY <1>4, <1>5, <2>1 DEF SetHandlers
<1>6. CASE Disable
  <2>1. endpoint'.handlers = endpoint.handlers
    BY <1>0, <1>6 DEF Disable, SetLimit, Types, EndpointSettings
  <2> QED
    BY <1>0, <1>4, <1>6, <2>1 DEF Disable, Accepting
<1>7. CASE InitAsio \/ ListenFails
  BY <1>0, <1>4, <1>7 DEF InitAsio, ListenFails, Accepting
<1>8. CASE Listen
  <2>1. accepting = <<>> /\ "open" \in endpoint.handlers
    BY <1>0, <1>8 DEF Listen, Accepting
  <2> QED
    BY <1>3, <1>8, <2>1, StartAcceptInvariant DEF Listen
<1>9. CASE AcceptAnother
  <2>1. accepting = <<"another">> /\ "open" \in endpoint.handlers
    BY <1>0, <1>3, <1>9 DEF AcceptAnother, AcceptCompletes, Accepting
  <2> QED
    BY <1>3, <1>9, <2>1, StartAcceptInvariant DEF AcceptAnother, AcceptCompletes
<1>10. ASSUME AcceptCompletes("this"), AcceptNext(Tail(accepting)),
              istate' # "USER_INIT" \/ state' = "closed"
       PROVE  Accepting'
  <2>1. accepting = <<"this">>
    BY <1>0, <1>3, <1>10 DEF AcceptCompletes, Accepting
  <2>2. accepting' = <<"another">> /\ UNCHANGED <<created, settings, endpoint, transport_state>>
    BY <1>3, <1>10, <2>1 DEF AcceptCompletes, AcceptNext, AsyncAccept
  <2> QED
    BY <1>0, <1>3, <1>10, <2>1, <2>2 DEF Accepting
<1>11. CASE AcceptThis
  <2>1. HandleAccept /\ UNCHANGED settings
    BY <1>11 DEF AcceptThis, AcceptNext
  <2>2. Control' /\ istate' # "USER_INIT"
    BY <1>0, <2>1, AcceptControl
  <2>3. Ending' /\ state' = "connecting"
    BY <1>0, <2>1, AcceptEnds
  <2>4. Queue'
    BY <1>0, <2>1 DEF HandleAccept, Queue, NoLostWakeup, NothingAfterClose
  <2>5. Waiting'
    BY <1>0, <2>1, AcceptWaiting
  <2> QED
    BY <1>10, <1>11, <2>2, <2>3, <2>4, <2>5 DEF AcceptThis
<1>12. CASE AcceptThisFails
  BY <1>10, <1>12, AcceptFailsInvariant DEF AcceptThisFails
<1>13. CASE Serve
  <2>1. Serving /\ UNCHANGED <<endpoint, transport_state, acceptVars, settings>>
    BY <1>13 DEF Serve
  <2>2. ~(istate = "USER_INIT" /\ state = "connecting")
    BY <1>0, <2>1, ServingIsAccepted DEF Accepting
  <2>3. created /\ "open" \in settings.handlers
    BY <1>0, <2>2 DEF Accepting
  <2>4. Control' /\ Ending' /\ Queue' /\ Waiting'
    BY <1>0, <2>1, <2>3, ServingControl, ServingEnds, ServingQueue, ServingWaiting
  <2>5. ~(istate' = "USER_INIT" /\ state' = "connecting")
    <3>1. CASE istate = "USER_INIT"
      <4>1. state = "closed"
        BY <1>0, <2>2, <3>1 DEF Control
      <4>2. state' # "connecting"
        BY <2>1, <4>1, ServingNeverConnects
      <4> QED
        BY <4>2
    <3>2. CASE istate # "USER_INIT"
      BY <2>1, <3>2, ServingIsInitialised
    <3> QED
      BY <3>1, <3>2
  <2>6. Accepting'
    BY <1>0, <1>3, <2>1, <2>2, <2>3, <2>5 DEF Accepting, acceptVars
  <2> QED
    BY <2>4, <2>6
<1>14. CASE UNCHANGED serverVars
  BY <1>0, <1>4, <1>14 DEF serverVars, Accepting
<1> QED
  BY <1>5, <1>6, <1>7, <1>8, <1>9, <1>11, <1>12, <1>13, <1>14 DEF ServerNext
LEMMA InvariantImplies ==
    ASSUME IInv
    PROVE  TypeOK /\ OneOfEach /\ NoLostWakeup /\ NothingAfterClose /\ EndsOnce /\ AlwaysAccepting
<1>1. TypeOK /\ NoLostWakeup /\ NothingAfterClose
  BY DEF IInv, Types, Queue
<1>2. state \in States /\ istate \in InternalStates /\ timers \in Timers
  BY <1>1 DEF TypeOK, Timers, TimerSet
<1>3. OneOfEach
  <2>1. /\ reads = <<>> \/ reads = <<"handshake">> \/ reads = <<"frame">>
        /\ writes = <<>> \/ writes = <<"http_response">> \/ writes = <<"frames">>
    BY <1>2 DEF IInv, Control, InternalStates
  <2>2. Len(reads) <= 1 /\ Len(writes) <= 1
    <3>1. Len(<<>>) \in {0, 1} /\ \A x : Len(<<x>>) \in {0, 1}
      BY OneInFlight
    <3>2. Len(reads) \in {0, 1} /\ Len(writes) \in {0, 1}
      BY <2>1, <3>1
    <3>3. \A n \in {0, 1} : n <= 1
      OBVIOUS
    <3> QED
      BY <3>2, <3>3
  <2> QED
    BY <2>2 DEF IInv, Control, OneOfEach
<1>4. EndsOnce
  <2> DEFINE ending == {k \in 1 .. Len(timers) : timers[k].kind = "shutdown" /\ timers[k].status = "expired"}
  <2>1. ending = {} \/ \E k \in 1 .. Len(timers) : ending = {k}
    BY DEF IInv, Ending, EndedOnce, Shutdowns
  <2>2. Len(<<>>) = 0 /\ Len(<<Outcome>>) = 1 /\ <<Outcome>> # <<>>
    BY OneInFlight
  <2>3. IF state # "closed" THEN ended = <<>> /\ ending = {}
        ELSE \/ ended = <<Outcome>> /\ ending = {}
             \/ ended = <<>> /\ \E k \in 1 .. Len(timers) : ending = {k}
    BY DEF IInv, Ending, EndedOnce, Shutdowns
  <2>4. ending # {} => alive
    BY DEF alive
  <2>5. Cardinality({}) = 0 /\ \A k : Cardinality({k}) = 1
    BY FS_EmptySet, FS_Singleton
  <2> HIDE DEF ending
  <2>6. Len(ended) + Cardinality(ending) = IF state = "closed" THEN 1 ELSE 0
    <3>1. CASE state # "closed"
      BY <2>2, <2>3, <2>5, <3>1
    <3>2. CASE state = "closed" /\ ended = <<Outcome>> /\ ending = {}
      <4>1. Len(ended) = 1 /\ Cardinality(ending) = 0
        BY <2>2, <2>5, <3>2
      <4> QED
        BY <3>2, <4>1
    <3>3. CASE state = "closed" /\ ended = <<>> /\ \E k \in 1 .. Len(timers) : ending = {k}
      <4>1. Len(ended) = 0 /\ Cardinality(ending) = 1
        BY <2>2, <2>5, <3>3
      <4> QED
        BY <3>3, <4>1
    <3> QED
      BY <2>3, <3>1, <3>2, <3>3
  <2>7. ended # <<>> => ended = <<IF opened THEN "closed" ELSE "failed">>
    BY <2>3 DEF Outcome
  <2>8. ASSUME istate # "USER_INIT", ~alive
        PROVE  ended # <<>>
    <3>1. ~running /\ reads = <<>> /\ writes = <<>> /\ ~(posted > 0)
          /\ \A k \in 1 .. Len(timers) : timers[k].status \notin {"armed", "expired"}
      BY <2>8 DEF alive
    <3>2. state # "connecting"
      BY <1>2, <2>8, <3>1 DEF IInv, Waiting, Control, InternalStates
    <3>3. state # "open"
      BY <3>1 DEF IInv, Waiting
    <3>4. state # "closing"
      <4>1. writes # <<"frames">>
        BY <3>1, OneInFlight
      <4>2. ASSUME state = "closing"
            PROVE  send_queue = <<>>
        BY <3>1, <4>1, <4>2 DEF IInv, Control, Queue, NoLostWakeup
      <4>3. ~CloseIsComing \/ send_queue # <<>>
        BY <4>1 DEF CloseIsComing
      <4> QED
        BY <4>2, <4>3 DEF IInv, Waiting
    <3> QED
      BY <1>2, <2>2, <2>3, <2>4, <2>8, <3>2, <3>3, <3>4 DEF States
  <2> QED
    BY <2>6, <2>7, <2>8 DEF EndsOnce, ending
<1>5. AlwaysAccepting
  <2>1. <<"this">> # <<>> /\ Len(<<>>) = 0 /\ Len(<<"this">>) = 1 /\ Len(<<"another">>) = 1
    OBVIOUS
  <2>2. state \in {"connecting", "closed"} \/ istate # "USER_INIT"
    BY DEF IInv, Control
  <2> QED
    BY <2>1, <2>2 DEF IInv, Accepting, AlwaysAccepting
<1> QED
  BY <1>1, <1>3, <1>4, <1>5

LEMMA Invariant == ServerSpec => []IInv
BY InitInvariant, NextInvariant, PTL DEF ServerSpec

-----------------------------------------------------------------------------
(* However many frames come and however they are split, the fields of a    *)
(* connection hold what they are declared to hold.                         *)
THEOREM ConnectionTypes == ServerSpec => []TypeOK
BY Invariant, InvariantImplies, PTL

(* The shared buffers are used by one read and one write at a time.        *)
THEOREM ConnectionOneOfEach == ServerSpec => []OneOfEach
BY Invariant, InvariantImplies, PTL

(* No queued message waits for a write that nobody will start.             *)
THEOREM ConnectionNoLostWakeup == ServerSpec => []NoLostWakeup
BY Invariant, InvariantImplies, PTL

(* Nothing is written behind a close frame.                                *)
THEOREM ConnectionNothingAfterClose == ServerSpec => []NothingAfterClose
BY Invariant, InvariantImplies, PTL

(* A connection is told as ended once, and never forgotten before.         *)
THEOREM ConnectionEndsOnce == ServerSpec => []EndsOnce
BY Invariant, InvariantImplies, PTL

(* The server never stops accepting.                                       *)
THEOREM ServerAccepts == ServerSpec => []AlwaysAccepting
BY Invariant, InvariantImplies, PTL

-----------------------------------------------------------------------------
(* RepliesInOrder: a message joins the queue behind all others, and what   *)
(* is taken off its front is put behind what was sent.                     *)

(* A message that is no text changes nothing, the next reply is in order.  *)
LEMMA OneMoreMessage ==
    ASSUME NEW s \in Seq(Messages), NEW n \in Nat, AreReplies(s, n), NEW msg \in Messages
    PROVE  /\ msg.op # "text" => AreReplies(Append(s, msg), n)
           /\ msg.op = "text" /\ msg.n = n + 1 => AreReplies(Append(s, msg), n + 1)
<1> DEFINE t == Append(s, msg)
           last == Len(s) + 1
           texts == {i \in DOMAIN s : s[i].op = "text"}
           more == {i \in DOMAIN t : t[i].op = "text"}
<1>1. /\ Len(s) \in Nat /\ DOMAIN s = 1 .. Len(s) /\ DOMAIN t = 1 .. last
      /\ t[last] = msg /\ \A i \in 1 .. Len(s) : t[i] = s[i]
  OBVIOUS
<1>2. /\ {s[i].n : i \in texts} = 1 .. n
      /\ \A i, j \in texts : i < j => s[i].n < s[j].n
  BY DEF AreReplies
<1>3. \A i \in texts : i \in 1 .. Len(s) /\ t[i] = s[i] /\ s[i].n \in 1 .. n
  BY <1>1, <1>2
<1> HIDE DEF t
<1>4. CASE msg.op # "text"
  <2>1. more = texts
    BY <1>1, <1>4
  <2>2. {t[i].n : i \in more} = 1 .. n /\ \A i, j \in more : i < j => t[i].n < t[j].n
    BY <1>2, <1>3, <2>1
  <2>3. QED
    BY <1>4, <2>2 DEF t, AreReplies
<1>5. CASE msg.op = "text" /\ msg.n = n + 1
  <2>1. more = texts \cup {last}
    BY <1>1, <1>5
  <2>2. {t[i].n : i \in more} = {s[i].n : i \in texts} \cup {n + 1}
    BY <1>1, <1>3, <1>5, <2>1
  <2>3. (1 .. n) \cup {n + 1} = 1 .. n + 1
    OBVIOUS
  <2>4. ASSUME NEW i \in more, NEW j \in more, i < j
        PROVE  t[i].n < t[j].n
    <3>1. i \in texts
      BY <1>1, <1>3, <2>1, <2>4
    <3>2. CASE j \in texts
      BY <1>2, <1>3, <2>4, <3>1, <3>2
    <3>3. CASE j = last
      <4>1. t[j].n = n + 1 /\ t[i].n \in 1 .. n
        BY <1>1, <1>3, <1>5, <3>1, <3>3
      <4>2. QED
        BY <4>1
    <3>4. QED
      BY <2>1, <3>2, <3>3
  <2>5. {t[i].n : i \in more} = 1 .. n + 1
    BY <1>2, <2>2, <2>3
  <2>6. QED
    BY <1>5, <2>4, <2>5 DEF t, AreReplies
<1>6. QED
  BY <1>4, <1>5

LEMMA PushKeepsTheOrder ==
    ASSUME TypeOK, RepliesInOrder, NEW msg \in Messages, Push(msg), UNCHANGED sent,
           \/ msg.op # "text" /\ UNCHANGED answered
           \/ msg.op = "text" /\ msg.n = answered + 1 /\ answered' = answered + 1
    PROVE  RepliesInOrder'
<1>1. /\ sent \in Seq(Messages) /\ send_queue \in Seq(Messages) /\ answered \in Nat
      /\ sent \o send_queue \in Seq(Messages)
  BY DEF TypeOK, Messages
<1>2. sent' \o send_queue' = Append(sent \o send_queue, msg)
  BY <1>1 DEF Push
<1>3. QED
  BY <1>1, <1>2, OneMoreMessage DEF RepliesInOrder

LEMMA BatchKeepsTheOrder ==
    ASSUME TypeOK, RepliesInOrder, send_queue # <<>>, WriteBatch, UNCHANGED answered
    PROVE  RepliesInOrder'
<1> DEFINE n == Batch(send_queue)
           batch == SubSeq(send_queue, 1, n)
           rest == SubSeq(send_queue, n + 1, Len(send_queue))
<1>1. /\ sent \in Seq(Messages) /\ send_queue \in Seq(Messages) /\ Len(send_queue) \in Nat
      /\ sent' = sent \o batch /\ send_queue' = rest
  BY DEF TypeOK, Messages, WriteBatch
<1>2. n \in 0 .. Len(send_queue)
  BY <1>1, BatchEnds
<1> HIDE DEF n
<1>3. batch \in Seq(Messages) /\ rest \in Seq(Messages)
  <2>1. n \in Int /\ n + 1 \in Int /\ \A k \in 1 .. n : send_queue[k] \in Messages
    BY <1>1, <1>2
  <2>2. \A k \in n + 1 .. Len(send_queue) : send_queue[k] \in Messages
    BY <1>1, <1>2
  <2>3. QED
    BY <1>1, <2>1, <2>2, SubSeqProperties
<1>4. batch \o rest = send_queue
  <2>1. n \in 1 - 1 .. Len(send_queue) /\ Len(send_queue) \in n .. Len(send_queue)
        /\ 1 \in 1 .. Len(send_queue) + 1
    BY <1>1, <1>2
  <2>2. batch \o rest = SubSeq(send_queue, 1, Len(send_queue))
    BY <1>1, <2>1, ConcatAdjacentSubSeq
  <2>3. QED
    BY <1>1, <2>2, SubSeqFull
<1>5. (sent \o batch) \o rest = sent \o (batch \o rest)
  <2>1. ASSUME NEW s \in Seq(Messages), NEW t \in Seq(Messages), NEW r \in Seq(Messages)
        PROVE  (s \o t) \o r = s \o (t \o r)
    BY ConcatAssociative
  <2>2. sent \in Seq(Messages)
    BY <1>1
  <2> HIDE DEF batch, rest
  <2>3. QED
    BY <1>3, <2>1, <2>2
<1>6. QED
  BY <1>1, <1>4, <1>5 DEF RepliesInOrder

LEMMA ServingReplies ==
    ASSUME TypeOK, RepliesInOrder, Serving
    PROVE  RepliesInOrder'
<1> USE DEF timerVars, endVars, inputVars, outputVars
<1>1. ASSUME UNCHANGED <<sent, send_queue, answered>>
      PROVE  RepliesInOrder'
  BY <1>1 DEF RepliesInOrder
<1>2. CASE Handshake \/ Timeout \/ ReadFails \/ ReadFrames \/ FramesWritten \/ WriteFramesFails
  <2>1. UNCHANGED <<sent, send_queue, answered>>
    BY <1>2 DEF Handshake, ReadMoreOfTheRequest, SwitchProtocols, RefuseRequest, Respond, ReadTooLate,
       Open, HandshakeRefused, ResponseTooLate, ResponseFails, Timeout, Expire, HandleTimeout,
       HandlePostInitTimeout, HandleAsyncShutdownTimeout, ReadFails, ReadFrames, FramesWritten,
       WriteFramesFails
  <2>2. QED
    BY <1>1, <2>1
<1>3. CASE ProcessFrame
  <2>1. UNCHANGED sent
    BY <1>3 DEF ProcessFrame, DataMessage, Ping, PeerCloses, PeerClosesBadly, ProtocolError, ReadOn
  <2>2. CASE DataMessage
    <3>1. CASE Send
      <4>1. answered' = answered + 1 /\ answered' \in Nat /\ Push(Reply(answered'))
        BY <3>1 DEF Send, TypeOK
      <4>2. /\ Reply(answered') \in Messages
            /\ Reply(answered').op = "text" /\ Reply(answered').n = answered'
        BY <4>1, MessageTypes DEF Reply
      <4>3. QED
        BY <2>1, <4>1, <4>2, PushKeepsTheOrder
    <3>2. CASE UNCHANGED <<answered, send_queue, posted>>
      BY <1>1, <2>1, <3>2
    <3>3. QED
      BY <2>2, <3>1, <3>2 DEF DataMessage, EndpointSend
  <2>3. CASE ProcessFrame /\ ~DataMessage
    <3>1. UNCHANGED answered
      BY <2>3 DEF ProcessFrame, Ping, PeerCloses, PeerClosesBadly, ProtocolError, ReadOn
    <3>2. UNCHANGED send_queue \/ Push(Pong) \/ Push(CloseFrame)
      BY <2>3 DEF ProcessFrame, Ping, SendPong, PeerCloses, PeerClosesBadly, ProtocolError, Close,
         SendCloseFrame, ReadOn
    <3>3. Pong.op # "text" /\ CloseFrame.op # "text"
      BY DEF Pong, CloseFrame
    <3>4. QED
      BY <1>1, <2>1, <3>1, <3>2, <3>3, MessageTypes, PushKeepsTheOrder
  <2>4. QED
    BY <1>3, <2>2, <2>3
<1>4. CASE WriteFrame
  <2>1. UNCHANGED answered
    BY <1>4 DEF WriteFrame
  <2>2. CASE WriteNothing
    BY <1>1, <2>1, <2>2 DEF WriteNothing
  <2>3. CASE send_queue # <<>> /\ WriteBatch
    BY <2>1, <2>3, BatchKeepsTheOrder
  <2>4. QED
    BY <1>4, <2>2, <2>3 DEF WriteFrame
<1>5. QED
  BY <1>2, <1>3, <1>4 DEF Serving

LEMMA RepliesInit == ServerInit => RepliesInOrder
<1> SUFFICES ASSUME ServerInit PROVE RepliesInOrder
  OBVIOUS
<1>1. sent \o send_queue = <<>> /\ answered = 0
  BY DEF ServerInit, Init
<1>2. 1 .. 0 = {} /\ DOMAIN <<>> = {}
  OBVIOUS
<1>3. QED
  BY <1>1, <1>2 DEF RepliesInOrder, AreReplies

LEMMA RepliesNext ==
    ASSUME TypeOK, RepliesInOrder, [ServerNext]_serverVars
    PROVE  RepliesInOrder'
<1> USE DEF vars, outputVars
<1>1. ASSUME UNCHANGED <<sent, send_queue, answered>>
      PROVE  RepliesInOrder'
  BY <1>1 DEF RepliesInOrder
<1>2. CASE Serve
  BY <1>2, ServingReplies DEF Serve
<1>3. CASE \/ SetHandlers \/ Disable \/ InitAsio \/ Listen \/ ListenFails
           \/ AcceptThis \/ AcceptThisFails \/ AcceptAnother \/ UNCHANGED serverVars
  <2>1. UNCHANGED <<sent, send_queue, answered>>
    BY <1>3 DEF SetHandlers, Disable, InitAsio, Listen, ListenFails, AcceptThis, AcceptThisFails,
       AcceptAnother, StartAccept, AcceptNext, Create, HandleAccept, AcceptFails, serverVars
  <2>2. QED
    BY <1>1, <2>1
<1>4. QED
  BY <1>2, <1>3 DEF ServerNext

(* Every reply goes out once and in the order of the messages, however     *)
(* many writes, pings and close frames come between.                       *)
THEOREM ConnectionRepliesInOrder == ServerSpec => []RepliesInOrder
<1>1. TypeOK /\ RepliesInOrder /\ [ServerNext]_serverVars => RepliesInOrder'
  BY RepliesNext
<1>2. QED
  BY <1>1, RepliesInit, ConnectionTypes, PTL DEF ServerSpec
===============================================================================
