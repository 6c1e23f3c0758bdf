------------------------ MODULE IpmbIncoming_proofs -------------------------
(***************************************************************************)
(* Proofs about IpmbIncoming, for any channels, commands, addresses and    *)
(* retries, and any number of frames, updates and restarts.                *)
(***************************************************************************)
EXTENDS IpmbIncoming, SequenceTheorems, TLAPS

-----------------------------------------------------------------------------
(***************************************************************************)
(* The invariant.                                                          *)
(***************************************************************************)
Bcasts == [ch : Channels, tries : 0..(NumRetries + 1)]

\* The types in parts.
TypeKernel ==
    /\ dev \in [Channels -> Addrs \cup {None}]
    /\ rx \in [Channels -> Seq(Requests)]
TypeFd == fd \in [Channels -> BOOLEAN]
TypeChannel ==
    /\ waits \in [Channels -> Nat] /\ ready \in [Channels -> Nat]
    /\ bmcAddr \in [Channels -> Addrs]
TypeReq == req \in [Requests -> Request] /\ filter \subseteq Keys /\ refused \subseteq Keys
TypeRest ==
    /\ bcast \in Bcasts \cup {None}
    /\ asked \in [Channels -> NewAddrs \cup {None}]
    /\ updates \in 0..MaxUpdates /\ deaths \in 0..MaxDeaths

\* The parts are the type invariant.
LEMMA TypeParts ==
    /\ TypeOK <=> TypeKernel /\ TypeFd /\ TypeChannel /\ TypeReq /\ TypeRest
    /\ TypeKernel' /\ TypeFd' /\ TypeChannel' /\ TypeReq' /\ TypeRest' => TypeOK'
  BY DEF TypeOK, TypeKernel, TypeFd, TypeChannel, TypeReq, TypeRest, Bcasts

\* A request that ipmid has is a command; one that is refused was refused before.
Sound(r, keys) ==
    /\ r.st = "ipmid" => r.key \in Keys
    /\ r.st = "writing" /\ r.cc = "C1" => r.key \in keys
Refusals == filter \subseteq refused /\ \A n \in Requests : Sound(req[n], refused)

\* What every step keeps: NeverDeaf and FailedUpdateRepeats are inductive with
\* the types, WrongRefusalHasCause follows from Refusals.
IInv == TypeOK /\ NeverDeaf /\ FailedUpdateRepeats /\ Refusals

LEMMA RefusalsSuffice == Refusals => WrongRefusalHasCause
  BY DEF Refusals, Sound, WrongRefusalHasCause

\* A frame given up.
LEMMA BlankType == Blank \in Request /\ Blank.st = "lost"
<1>1. (CHOOSE c \in Channels : TRUE) \in Channels /\ (CHOOSE b \in Bodies : TRUE) \in Bodies
  BY IncomingAssumption
<1>2. NumRetries \in Nat
  BY IncomingAssumption
<1>. QED
  BY <1>1, <1>2 DEF Blank, Request

LEMMA InitIInv == Init => IInv
<1>. SUFFICES ASSUME Init PROVE IInv
  OBVIOUS
<1>1. TypeKernel
  <2>1. PICK d \in DeviceAddrs : dev = [c \in Channels |-> Device(d)]
    BY DEF Init
  <2>2. Device(d) \in Addrs \cup {None}
    BY IncomingAssumption DEF Device, Addrs
  <2>. QED
    BY <2>1, <2>2 DEF Init, TypeKernel
<1>2. TypeFd
  BY DEF Init, TypeFd
<1>3. TypeChannel
  BY DEF Init, TypeChannel, Addrs
<1>4. \A n \in Requests : req[n] = [Blank EXCEPT !.st = "unsent"]
  BY DEF Init
<1>5. [Blank EXCEPT !.st = "unsent"] \in Request /\ [Blank EXCEPT !.st = "unsent"].st = "unsent"
  <2>1. ASSUME NEW r \in Request
        PROVE  [r EXCEPT !.st = "unsent"] \in Request /\ [r EXCEPT !.st = "unsent"].st = "unsent"
    BY DEF Request
  <2>. QED
    BY <2>1, BlankType
<1>6. TypeReq
  BY <1>5 DEF Init, TypeReq
<1>7. TypeRest
  BY IncomingAssumption DEF Init, TypeRest
<1>8. NeverDeaf /\ FailedUpdateRepeats
  BY DEF Init, NeverDeaf, FailedUpdateRepeats
<1>9. Refusals
  BY <1>4, <1>5 DEF Init, Refusals, Sound
<1>. QED
  BY <1>1, <1>2, <1>3, <1>6, <1>7, <1>8, <1>9, TypeParts DEF IInv

\* A step that leaves the channels alone.
LEMMA ChannelsKept ==
    ASSUME TypeFd, TypeChannel, NeverDeaf, FailedUpdateRepeats, UNCHANGED <<channel, asked>>
    PROVE  TypeFd' /\ TypeChannel' /\ NeverDeaf' /\ FailedUpdateRepeats'
  BY DEF channel, TypeFd, TypeChannel, NeverDeaf, FailedUpdateRepeats

\* A step that writes one request, with more refused keys perhaps.
LEMMA RequestWritten ==
    ASSUME TypeReq, Refusals, NEW n \in Requests, NEW r \in Request,
           req' = [req EXCEPT ![n] = r],
           refused \subseteq refused', filter' \subseteq refused', refused' \subseteq Keys,
           Sound(r, refused')
    PROVE  TypeReq' /\ Refusals'
<1>1. TypeReq'
  BY DEF TypeReq
<1>2. \A m \in Requests : Sound(req[m], refused')
  BY DEF Refusals, Sound
<1>3. \A m \in Requests : req'[m] = IF m = n THEN r ELSE req[m]
  BY DEF TypeReq
<1>. QED
  BY <1>1, <1>2, <1>3 DEF Refusals

\* A step that writes one request and no key.
LEMMA RequestOnly ==
    ASSUME TypeReq, Refusals, NEW n \in Requests, NEW r \in Request,
           req' = [req EXCEPT ![n] = r], UNCHANGED <<filter, refused>>, Sound(r, refused)
    PROVE  TypeReq' /\ Refusals'
  BY RequestWritten DEF TypeReq, Refusals

LEMMA RequestsKept ==
    ASSUME TypeReq, Refusals, UNCHANGED <<req, filter, refused>>
    PROVE  TypeReq' /\ Refusals'
  BY DEF TypeReq, Refusals

\* A request is given up.
LEMMA Lost ==
    ASSUME TypeReq, Refusals, NEW n \in Requests, Lose(n), UNCHANGED <<filter, refused>>
    PROVE  TypeReq' /\ Refusals'
<1>1. Sound(Blank, refused)
  BY BlankType DEF Sound
<1>. QED
  BY <1>1, BlankType, RequestOnly DEF Lose

\* Some requests are given up.
LEMMA SomeLost ==
    ASSUME TypeReq, filter' \subseteq refused', refused' \subseteq Keys,
           req' \in [Requests -> Request],
           \A n \in Requests : req'[n] = Blank \/ (req'[n] = req[n] /\ Sound(req[n], refused'))
    PROVE  TypeReq' /\ Refusals'
<1>1. Sound(Blank, refused')
  BY BlankType DEF Sound
<1>. QED
  BY <1>1 DEF TypeReq, Refusals

-----------------------------------------------------------------------------
(***************************************************************************)
(* The steps.                                                              *)
(***************************************************************************)
\* The invariant taken apart.
LEMMA IInvParts ==
    ASSUME IInv
    PROVE  /\ TypeKernel /\ TypeFd /\ TypeChannel /\ TypeReq /\ TypeRest
           /\ NeverDeaf /\ FailedUpdateRepeats /\ Refusals
  BY TypeParts DEF IInv

LEMMA BoardStep ==
    ASSUME IInv, NEW c \in Channels, NEW key \in Keys \cup {None}, NEW body \in Bodies,
           BoardSends(c, key, body)
    PROVE  IInv'
<1>1. /\ TypeKernel /\ TypeFd /\ TypeChannel /\ TypeReq /\ TypeRest
      /\ NeverDeaf /\ FailedUpdateRepeats /\ Refusals
  BY IInvParts
<1>2. PICK n \in Requests :
        /\ req' = [req EXCEPT ![n].st = "rx", ![n].ch = c, ![n].key = key, ![n].body = body]
        /\ rx' = [rx EXCEPT ![c] = Append(@, n)]
        /\ UNCHANGED <<dev, channel, filter, bcast, refused, history>>
  BY DEF BoardSends
<1>3. TypeKernel'
  BY <1>1, <1>2 DEF TypeKernel
<1>4. ASSUME NEW r \in Request
      PROVE  LET q == [r EXCEPT !.st = "rx", !.ch = c, !.key = key, !.body = body]
             IN  q \in Request /\ q.st = "rx"
  BY DEF Request
<1>. DEFINE q == [req[n] EXCEPT !.st = "rx", !.ch = c, !.key = key, !.body = body]
<1>5. req' = [req EXCEPT ![n] = q]
  BY <1>1, <1>2 DEF TypeReq
<1>6. req[n] \in Request
  BY <1>1 DEF TypeReq
<1>7. q \in Request /\ q.st = "rx"
  BY <1>4, <1>6
<1>. HIDE DEF q
<1>8. Sound(q, refused)
  BY <1>7 DEF Sound
<1>9. TypeReq' /\ Refusals'
  BY <1>1, <1>2, <1>5, <1>7, <1>8, RequestOnly
<1>10. TypeFd' /\ TypeChannel' /\ NeverDeaf' /\ FailedUpdateRepeats'
  BY <1>1, <1>2, ChannelsKept DEF history
<1>11. TypeRest'
  BY <1>1, <1>2 DEF TypeRest, history
<1>. QED
  BY <1>3, <1>9, <1>10, <1>11, TypeParts DEF IInv

LEMMA WaitStep ==
    ASSUME IInv, NEW c \in Channels, WaitCompletes(c)
    PROVE  IInv'
<1>1. /\ TypeKernel /\ TypeFd /\ TypeChannel /\ TypeReq /\ TypeRest
      /\ NeverDeaf /\ FailedUpdateRepeats /\ Refusals
  BY IInvParts
<1>2. /\ waits[c] > 0
      /\ ready' = [ready EXCEPT ![c] = @ + waits[c]] /\ waits' = [waits EXCEPT ![c] = 0]
      /\ UNCHANGED <<kernel, fd, bmcAddr, filter, req, bcast, refused, history>>
  BY DEF WaitCompletes
<1>3. TypeFd' /\ TypeChannel' /\ NeverDeaf' /\ FailedUpdateRepeats'
  BY <1>1, <1>2 DEF TypeFd, TypeChannel, NeverDeaf, FailedUpdateRepeats, history
<1>4. TypeReq' /\ Refusals'
  BY <1>1, <1>2, RequestsKept
<1>5. TypeKernel' /\ TypeRest'
  BY <1>1, <1>2 DEF TypeKernel, TypeRest, kernel, history
<1>. QED
  BY <1>3, <1>4, <1>5, TypeParts DEF IInv

\* What becomes of a frame that is read.
LEMMA HandleStep ==
    ASSUME TypeReq, Refusals, NEW n \in Requests, Handle(n), UNCHANGED <<filter, refused>>
    PROVE  TypeReq' /\ Refusals'
<1>1. req[n] \in Request
  BY DEF TypeReq
<1>2. CASE Lose(n)
  BY <1>2, Lost
<1>3. CASE req[n].key # None /\ isBlocked(req[n].key) /\ Answer(n, "C1")
  <2>1. ASSUME NEW r \in Request
        PROVE  LET q == [r EXCEPT !.st = "writing", !.cc = "C1"]
               IN  q \in Request /\ q.st = "writing" /\ q.key = r.key
    BY DEF Request
  <2>. DEFINE q == [req[n] EXCEPT !.st = "writing", !.cc = "C1"]
  <2>2. req' = [req EXCEPT ![n] = q]
    BY <1>3 DEF Answer, TypeReq
  <2>3. q \in Request /\ q.st = "writing" /\ q.key = req[n].key
    BY <1>1, <2>1
  <2>. HIDE DEF q
  <2>4. Sound(q, refused)
    BY <1>3, <2>3 DEF Sound, isBlocked, Refusals
  <2>. QED
    BY <2>2, <2>3, <2>4, RequestOnly
<1>4. CASE req[n].key # None /\ req' = [req EXCEPT ![n].st = "ipmid"]
  <2>1. ASSUME NEW r \in Request
        PROVE  LET q == [r EXCEPT !.st = "ipmid"]
               IN  q \in Request /\ q.st = "ipmid" /\ q.key = r.key
    BY DEF Request
  <2>. DEFINE q == [req[n] EXCEPT !.st = "ipmid"]
  <2>2. req' = [req EXCEPT ![n] = q]
    BY <1>4 DEF TypeReq
  <2>3. q \in Request /\ q.st = "ipmid" /\ q.key = req[n].key
    BY <1>1, <2>1
  <2>4. req[n].key \in Keys
    BY <1>1, <1>4 DEF Request
  <2>. HIDE DEF q
  <2>5. Sound(q, refused)
    BY <2>3, <2>4 DEF Sound
  <2>. QED
    BY <2>2, <2>3, <2>5, RequestOnly
<1>. QED
  BY <1>2, <1>3, <1>4 DEF Handle

LEMMA EventStep ==
    ASSUME IInv, NEW c \in Channels, processI2cEvent(c)
    PROVE  IInv'
<1>1. /\ TypeKernel /\ TypeFd /\ TypeChannel /\ TypeReq /\ TypeRest
      /\ NeverDeaf /\ FailedUpdateRepeats /\ Refusals
  BY IInvParts
<1>2. /\ ready[c] > 0 /\ ready' = [ready EXCEPT ![c] = @ - 1]
      /\ waits' = [waits EXCEPT ![c] = IF fd[c] THEN @ + 1 ELSE @]
      /\ UNCHANGED <<dev, fd, bmcAddr, filter, bcast, refused, history>>
  BY DEF processI2cEvent, Rearm
<1>3. TypeChannel'
  <2>1. ready[c] - 1 \in Nat /\ waits[c] + 1 \in Nat
    BY <1>1, <1>2 DEF TypeChannel
  <2>. QED
    BY <1>1, <1>2, <2>1 DEF TypeChannel
<1>4. TypeFd' /\ FailedUpdateRepeats'
  BY <1>1, <1>2 DEF TypeFd, FailedUpdateRepeats, history
<1>5. NeverDeaf'
  <2>. SUFFICES ASSUME NEW x \in Channels, fd'[x] PROVE waits'[x] + ready'[x] > 0
    BY DEF NeverDeaf
  <2>1. CASE x = c
    <3>1. waits'[c] = waits[c] + 1 /\ ready'[c] \in Nat /\ waits[c] \in Nat
      BY <1>1, <1>2, <1>3, <2>1 DEF TypeChannel
    <3>. QED
      BY <2>1, <3>1
  <2>2. CASE x # c
    BY <1>1, <1>2, <2>2 DEF TypeChannel, NeverDeaf
  <2>. QED
    BY <2>1, <2>2
<1>6. TypeKernel' /\ TypeReq' /\ Refusals'
  <2>1. CASE UNCHANGED <<req, rx>>
    <3>1. TypeReq' /\ Refusals'
      BY <1>1, <1>2, <2>1, RequestsKept
    <3>. QED
      BY <1>1, <1>2, <2>1, <3>1 DEF TypeKernel
  <2>2. CASE rx[c] # <<>> /\ Handle(Head(rx[c])) /\ rx' = [rx EXCEPT ![c] = Tail(@)]
    <3>1. rx[c] \in Seq(Requests)
      BY <1>1 DEF TypeKernel
    <3>2. Head(rx[c]) \in Requests /\ Tail(rx[c]) \in Seq(Requests)
      BY <2>2, <3>1
    <3>3. TypeReq' /\ Refusals'
      BY <1>1, <1>2, <2>2, <3>2, HandleStep
    <3>4. TypeKernel'
      BY <1>1, <1>2, <2>2, <3>2 DEF TypeKernel
    <3>. QED
      BY <3>3, <3>4
  <2>. QED
    BY <2>1, <2>2 DEF processI2cEvent
<1>7. TypeRest'
  BY <1>1, <1>2 DEF TypeRest, history
<1>. QED
  BY <1>3, <1>4, <1>5, <1>6, <1>7, TypeParts DEF IInv

\* ipmid's answer to a request.
LEMMA IpmidStep ==
    ASSUME IInv, NEW n \in Requests, Ipmid(n)
    PROVE  IInv'
<1>1. /\ TypeKernel /\ TypeFd /\ TypeChannel /\ TypeReq /\ TypeRest
      /\ NeverDeaf /\ FailedUpdateRepeats /\ Refusals
  BY IInvParts
<1>2. UNCHANGED <<kernel, channel, bcast, history>> /\ req[n].st = "ipmid"
  BY DEF Ipmid, ipmidFails, ipmidAnswers
<1>3. TypeReq' /\ Refusals'
  <2>1. CASE ipmidFails(n)
    BY <1>1, <2>1, Lost DEF ipmidFails
  <2>2. CASE ipmidAnswers(n)
    <3>1. PICK cc \in {"ok", "CE", "C1"} :
            /\ filter' = IF cc = "C1" THEN filter \cup {req[n].key} ELSE filter
            /\ req' = [req EXCEPT ![n].st = "writing", ![n].cc = cc]
            /\ refused' = IF cc = "C1" THEN refused \cup {req[n].key} ELSE refused
      BY <2>2 DEF ipmidAnswers, addFilter, Answer
    <3>2. ASSUME NEW r \in Request
          PROVE  LET q == [r EXCEPT !.st = "writing", !.cc = cc]
                 IN  /\ q \in Request /\ q.st = "writing" /\ q.cc = cc /\ q.key = r.key
      BY DEF Request
    <3>. DEFINE q == [req[n] EXCEPT !.st = "writing", !.cc = cc]
    <3>3. req' = [req EXCEPT ![n] = q] /\ req[n] \in Request
      BY <1>1, <3>1 DEF TypeReq
    <3>4. q \in Request /\ q.st = "writing" /\ q.cc = cc /\ q.key = req[n].key
      BY <3>2, <3>3
    <3>. HIDE DEF q
    <3>5. req[n].key \in Keys
      BY <1>1, <1>2 DEF Refusals, Sound
    <3>6. /\ refused \subseteq refused' /\ filter' \subseteq refused' /\ refused' \subseteq Keys
          /\ Sound(q, refused')
      BY <1>1, <3>1, <3>4, <3>5 DEF TypeReq, Refusals, Sound
    <3>. QED
      BY <1>1, <3>3, <3>4, <3>6, RequestWritten
  <2>. QED
    BY <2>1, <2>2 DEF Ipmid
<1>4. TypeFd' /\ TypeChannel' /\ NeverDeaf' /\ FailedUpdateRepeats'
  BY <1>1, <1>2, ChannelsKept DEF history
<1>5. TypeKernel' /\ TypeRest'
  BY <1>1, <1>2 DEF TypeKernel, TypeRest, kernel, history
<1>. QED
  BY <1>3, <1>4, <1>5, TypeParts DEF IInv

\* A write of an answer.
LEMMA SendStep ==
    ASSUME IInv, NEW n \in Requests, ipmbSendI2cFrame(n)
    PROVE  IInv'
<1>1. /\ TypeKernel /\ TypeFd /\ TypeChannel /\ TypeReq /\ TypeRest
      /\ NeverDeaf /\ FailedUpdateRepeats /\ Refusals
  BY IInvParts
<1>2. /\ UNCHANGED <<kernel, channel, filter, bcast, refused, history>>
      /\ req[n].st = "writing" /\ req[n] \in Request
  BY <1>1 DEF ipmbSendI2cFrame, TypeReq
<1>3. TypeReq' /\ Refusals'
  <2>1. CASE req' = [req EXCEPT ![n].st = "answered", ![n].tries = 0]
    <3>1. ASSUME NEW r \in Request
          PROVE  LET q == [r EXCEPT !.st = "answered", !.tries = 0]
                 IN  q \in Request /\ q.st = "answered"
      <4>1. 0 \in 0..(NumRetries + 1)
        BY IncomingAssumption
      <4>. QED
        BY <4>1 DEF Request
    <3>. DEFINE q == [req[n] EXCEPT !.st = "answered", !.tries = 0]
    <3>2. req' = [req EXCEPT ![n] = q]
      BY <1>1, <2>1 DEF TypeReq
    <3>3. q \in Request /\ q.st = "answered"
      BY <1>2, <3>1
    <3>. HIDE DEF q
    <3>4. Sound(q, refused)
      BY <3>3 DEF Sound
    <3>. QED
      BY <1>1, <1>2, <3>2, <3>3, <3>4, RequestOnly
  <2>2. CASE Lose(n)
    BY <1>1, <1>2, <2>2, Lost
  <2>3. CASE ~(req[n].tries > NumRetries) /\ req' = [req EXCEPT ![n].tries = @ + 1]
    <3>1. ASSUME NEW r \in Request, NEW t \in 0..(NumRetries + 1)
          PROVE  LET q == [r EXCEPT !.tries = t]
                 IN  q \in Request /\ q.st = r.st /\ q.cc = r.cc /\ q.key = r.key
      BY DEF Request
    <3>2. req[n].tries + 1 \in 0..(NumRetries + 1)
      BY <1>2, <2>3, IncomingAssumption DEF Request
    <3>. DEFINE q == [req[n] EXCEPT !.tries = req[n].tries + 1]
    <3>3. req' = [req EXCEPT ![n] = q]
      BY <1>1, <2>3 DEF TypeReq
    <3>4. q \in Request /\ q.st = req[n].st /\ q.cc = req[n].cc /\ q.key = req[n].key
      BY <1>2, <3>1, <3>2
    <3>. HIDE DEF q
    <3>5. Sound(q, refused)
      BY <1>1, <3>4 DEF Sound, Refusals
    <3>. QED
      BY <1>1, <1>2, <3>3, <3>4, <3>5, RequestOnly
  <2>. QED
    BY <2>1, <2>2, <2>3 DEF ipmbSendI2cFrame, NextTry
<1>4. TypeFd' /\ TypeChannel' /\ NeverDeaf' /\ FailedUpdateRepeats'
  BY <1>1, <1>2, ChannelsKept DEF history
<1>5. TypeKernel' /\ TypeRest'
  BY <1>1, <1>2 DEF TypeKernel, TypeRest, kernel, history
<1>. QED
  BY <1>3, <1>4, <1>5, TypeParts DEF IInv

\* Broadcasts.
LEMMA BroadcastStep ==
    ASSUME IInv, writeBroadcast \/ \E c \in Channels : sendBroadcast(c)
    PROVE  IInv'
<1>1. /\ TypeKernel /\ TypeFd /\ TypeChannel /\ TypeReq /\ TypeRest
      /\ NeverDeaf /\ FailedUpdateRepeats /\ Refusals
  BY IInvParts
<1>2. UNCHANGED <<kernel, channel, filter, req, refused, history>>
  BY DEF writeBroadcast, sendBroadcast
<1>3. bcast' \in Bcasts \cup {None}
  <2>1. ASSUME NEW c \in Channels, sendBroadcast(c)
        PROVE  bcast' \in Bcasts
    BY <2>1, IncomingAssumption DEF sendBroadcast, Bcasts
  <2>2. CASE writeBroadcast
    <3>1. bcast \in Bcasts
      BY <1>1, <2>2 DEF writeBroadcast, TypeRest
    <3>2. ASSUME ~(bcast.tries > NumRetries)
          PROVE  [bcast EXCEPT !.tries = @ + 1] \in Bcasts
      <4>1. bcast.tries + 1 \in 0..(NumRetries + 1)
        BY <3>1, <3>2, IncomingAssumption DEF Bcasts
      <4>2. ASSUME NEW r \in Bcasts, NEW t \in 0..(NumRetries + 1)
            PROVE  [r EXCEPT !.tries = t] \in Bcasts
        BY DEF Bcasts
      <4>. QED
        BY <3>1, <4>1, <4>2
    <3>. QED
      BY <2>2, <3>2 DEF writeBroadcast
  <2>. QED
    BY <2>1, <2>2
<1>4. TypeFd' /\ TypeChannel' /\ NeverDeaf' /\ FailedUpdateRepeats'
  BY <1>1, <1>2, ChannelsKept DEF history
<1>5. TypeReq' /\ Refusals'
  BY <1>1, <1>2, RequestsKept
<1>6. TypeKernel' /\ TypeRest'
  BY <1>1, <1>2, <1>3 DEF TypeKernel, TypeRest, kernel, history
<1>. QED
  BY <1>4, <1>5, <1>6, TypeParts DEF IInv

\* An update of a channel's address, wherever it ends.
LEMMA UpdateStep ==
    ASSUME IInv, NEW c \in Channels, NEW a \in NewAddrs,
           ipmbChannelUpdateSlaveAddress(c, a)
    PROVE  IInv'
<1>1. /\ TypeKernel /\ TypeFd /\ TypeChannel /\ TypeReq /\ TypeRest
      /\ NeverDeaf /\ FailedUpdateRepeats /\ Refusals
  BY IInvParts
<1>2. PICK d \in Addrs \cup {None}, e \in Addrs \cup {None}, open \in BOOLEAN :
        /\ dev' = [dev EXCEPT ![c] = e]
        /\ rx' = [rx EXCEPT ![c] = IF d = None THEN <<>> ELSE @]
        /\ req' = [n \in Requests |-> IF d = None /\ req[n].ch = c /\ req[n].st = "rx"
                                      THEN Blank ELSE req[n]]
        /\ fd' = [fd EXCEPT ![c] = open]
        /\ waits' = [waits EXCEPT ![c] = IF open THEN 1 ELSE 0]
        /\ bmcAddr' = [bmcAddr EXCEPT ![c] = IF open THEN a ELSE @]
  <2>1. PICK done \in {"none", "deleted", "created", "opened"} :
          LET d == IF done = "none" THEN dev[c] ELSE Deleted(dev[c])
              e == IF done \in {"created", "opened"} THEN Created(d, a) ELSE d
              open == done = "opened" /\ e # None
          IN  /\ dev' = [dev EXCEPT ![c] = e]
              /\ rx' = [rx EXCEPT ![c] = IF d = None THEN <<>> ELSE @]
              /\ req' = [n \in Requests |-> IF d = None /\ req[n].ch = c /\ req[n].st = "rx"
                                            THEN Blank ELSE req[n]]
              /\ fd' = [fd EXCEPT ![c] = open]
              /\ waits' = [waits EXCEPT ![c] = IF open THEN 1 ELSE 0]
              /\ Accept(c, a, open)
    BY Zenon DEF ipmbChannelUpdateSlaveAddress
  <2>. DEFINE d == IF done = "none" THEN dev[c] ELSE Deleted(dev[c])
              e == IF done \in {"created", "opened"} THEN Created(d, a) ELSE d
  <2>2. d \in Addrs \cup {None} /\ e \in Addrs \cup {None}
    BY <1>1 DEF TypeKernel, Deleted, Created, Addrs
  <2>3. PICK open \in BOOLEAN : open = (done = "opened" /\ e # None)
    BY Zenon
  <2>. USE <2>2
  <2>. WITNESS d \in Addrs \cup {None}, e \in Addrs \cup {None}, open \in BOOLEAN
  <2>. QED
    BY <2>1, <2>3, Zenon DEF Accept
<1>3. /\ a # bmcAddr[c] /\ updates < MaxUpdates /\ updates' = updates + 1
      /\ asked' = [asked EXCEPT ![c] = a]
      /\ UNCHANGED <<ready, filter, bcast, refused, deaths>>
  BY DEF ipmbChannelUpdateSlaveAddress
<1>4. TypeKernel'
  <2>1. rx' \in [Channels -> Seq(Requests)]
    BY <1>1, <1>2 DEF TypeKernel
  <2>. QED
    BY <1>1, <1>2, <2>1 DEF TypeKernel
<1>5. TypeFd'
  BY <1>1, <1>2 DEF TypeFd
<1>6. TypeChannel'
  BY <1>1, <1>2, <1>3 DEF TypeChannel, Addrs
<1>7. NeverDeaf'
  BY <1>1, <1>2, <1>3 DEF NeverDeaf, TypeChannel, TypeFd
<1>8. FailedUpdateRepeats'
  BY <1>1, <1>2, <1>3 DEF FailedUpdateRepeats, TypeChannel, TypeFd, TypeRest
<1>9. TypeReq' /\ Refusals'
  <2>1. \A n \in Requests : req'[n] = Blank \/ req'[n] = req[n]
    BY <1>2
  <2>2. req' \in [Requests -> Request]
    BY <1>1, <1>2, BlankType DEF TypeReq
  <2>. QED
    BY <1>1, <1>3, <2>1, <2>2, SomeLost DEF TypeReq, Refusals
<1>10. TypeRest'
  BY <1>1, <1>3, IncomingAssumption DEF TypeRest
<1>. QED
  BY <1>4, <1>5, <1>6, <1>7, <1>8, <1>9, <1>10, TypeParts DEF IInv

LEMMA RestartStep ==
    ASSUME IInv, Restart
    PROVE  IInv'
<1>1. /\ TypeKernel /\ TypeFd /\ TypeChannel /\ TypeReq /\ TypeRest
      /\ NeverDeaf /\ FailedUpdateRepeats /\ Refusals
  BY IInvParts
<1>2. TypeKernel'
  BY <1>1 DEF Restart, TypeKernel, Device, Addrs
<1>3. TypeFd' /\ TypeChannel' /\ NeverDeaf' /\ FailedUpdateRepeats'
  BY DEF Restart, TypeFd, TypeChannel, NeverDeaf, FailedUpdateRepeats, Addrs
<1>4. TypeReq' /\ Refusals'
  <2>1. \A n \in Requests :
          req'[n] = IF req[n].st \in {"ipmid", "writing"} THEN Blank ELSE req[n]
    BY DEF Restart
  <2>2. req' \in [Requests -> Request]
    BY <1>1, BlankType DEF TypeReq, Restart
  <2>3. filter' = {} /\ refused' = {}
    BY DEF Restart
  <2>4. ASSUME NEW n \in Requests
        PROVE  req'[n] = Blank \/ (req'[n] = req[n] /\ Sound(req[n], refused'))
    <3>1. CASE req[n].st \in {"ipmid", "writing"}
      BY <2>1, <3>1, Zenon
    <3>2. CASE req[n].st \notin {"ipmid", "writing"}
      <4>1. Sound(req[n], refused')
        BY <3>2 DEF Sound
      <4>. QED
        BY <2>1, <3>2, <4>1, Zenon
    <3>. QED
      BY <3>1, <3>2
  <2>. QED
    BY <1>1, <2>2, <2>3, <2>4, SomeLost
<1>5. TypeRest'
  BY <1>1, IncomingAssumption DEF Restart, TypeRest
<1>. QED
  BY <1>2, <1>3, <1>4, <1>5, TypeParts DEF IInv

\* Every step keeps the invariant.
LEMMA NextIInv == IInv /\ [Next]_vars => IInv'
<1>. SUFFICES ASSUME IInv, [Next]_vars PROVE IInv'
  OBVIOUS
<1>1. CASE UNCHANGED vars
  <2>1. /\ TypeKernel /\ TypeFd /\ TypeChannel /\ TypeReq /\ TypeRest
        /\ NeverDeaf /\ FailedUpdateRepeats /\ Refusals
    BY IInvParts
  <2>2. TypeFd' /\ TypeChannel' /\ NeverDeaf' /\ FailedUpdateRepeats'
    BY <1>1, <2>1, ChannelsKept DEF vars, history
  <2>3. TypeReq' /\ Refusals'
    BY <1>1, <2>1, RequestsKept DEF vars
  <2>4. TypeKernel' /\ TypeRest'
    BY <1>1, <2>1 DEF vars, TypeKernel, TypeRest, kernel, history
  <2>. QED
    BY <2>2, <2>3, <2>4, TypeParts DEF IInv
<1>2. CASE Next
  <2>1. Blank.body \in Bodies
    BY BlankType DEF Request
  <2>. QED
    BY <1>2, <2>1, BoardStep, WaitStep, EventStep, IpmidStep, SendStep, BroadcastStep,
       UpdateStep, RestartStep DEF Next
<1>. QED
  BY <1>1, <1>2

\* The types, whatever frames arrive and whichever step of an update fails.
THEOREM IncomingTypeOK == Spec => []TypeOK
<1>1. IInv => TypeOK
  BY DEF IInv
<1>. QED
  BY <1>1, InitIInv, NextIInv, PTL DEF Spec

\* An open descriptor is waited on: no handler of processI2cEvent, no error and
\* no address update leaves a channel that will not be read again.
THEOREM IncomingNeverDeaf == Spec => []NeverDeaf
<1>1. IInv => NeverDeaf
  BY DEF IInv
<1>. QED
  BY <1>1, InitIInv, NextIInv, PTL DEF Spec

\* An update that failed can be asked for again: the channel does not take its
\* address for the one it has.
THEOREM IncomingFailedUpdateRepeats == Spec => []FailedUpdateRepeats
<1>1. IInv => FailedUpdateRepeats
  BY DEF IInv
<1>. QED
  BY <1>1, InitIInv, NextIInv, PTL DEF Spec

\* The filter refuses a command only if ipmid refused one of the same netFn and
\* number since the daemon started.
THEOREM IncomingWrongRefusal == Spec => []WrongRefusalHasCause
<1>1. IInv => WrongRefusalHasCause
  BY RefusalsSuffice DEF IInv
<1>. QED
  BY <1>1, InitIInv, NextIInv, PTL DEF Spec
-----------------------------------------------------------------------------
(***************************************************************************)
(* Frames and queues.  A frame waits once, in the queue of the channel it  *)
(* came on, in the order of arrival; every step that touches it brings it  *)
(* nearer to its end.                                                      *)
(***************************************************************************)
\* The queues of the kernel's devices hold the frames that wait, and no other.
Queued ==
    \A c \in Channels : \A i \in 1..Len(rx[c]) :
        req[rx[c][i]].st = "rx" /\ req[rx[c][i]].ch = c
Waiting ==
    \A n \in Requests : req[n].st = "rx" =>
        \E i \in 1..Len(rx[req[n].ch]) : rx[req[n].ch][i] = n

\* A queue is in the order in which the frames were sent, so no frame is in it twice.
Ordered == \A c \in Channels : \A i, j \in 1..Len(rx[c]) : i < j => rx[c][i] < rx[c][j]

\* Frames are numbered as they are sent.
UnsentLast == \A m, n \in Requests : m < n /\ req[m].st = "unsent" => req[n].st = "unsent"

QueueExact == Queued /\ Waiting /\ Ordered
QueueInv == IInv /\ QueueExact /\ UnsentLast

\* The steps that a frame has left: reading it, ipmid's answer, and the
\* NumRetries + 2 writes of ipmbSendI2cFrame.
FrameLeft(r) ==
    CASE r.st = "rx"      -> NumRetries + 4
      [] r.st = "ipmid"   -> NumRetries + 3
      [] r.st = "writing" -> NumRetries + 2 - r.tries
      [] OTHER            -> 0

Ended(r) == r.st \in {"unsent", "answered", "lost"}
FramesBounded ==
    \A n \in Requests :
        /\ FrameLeft(req[n]) \in 0..(NumRetries + 4)
        /\ FrameLeft(req[n]) = 0 <=> Ended(req[n])

\* What a step may do to a frame once it is sent.
Advances(r, q) == q.st \notin {"unsent", "rx"} /\ FrameLeft(q) < FrameLeft(r)
FrameStep ==
    \A n \in Requests : req[n].st = "unsent" \/ req'[n] = req[n] \/ Advances(req[n], req'[n])

\* A frame leaves the queue only when no frame of its channel that came before it stays.
OrderStep ==
    \A m, n \in Requests :
        /\ m < n /\ req[m].ch = req[n].ch
        /\ req[n].st = "rx" /\ req'[n].st # "rx"
        /\ req[m].st = "rx"
        => req'[m].st # "rx"

\* The values of the measure.
LEMMA FrameLeftValues ==
    ASSUME NEW r \in Request
    PROVE  /\ FrameLeft(r) \in 0..(NumRetries + 4)
           /\ FrameLeft(r) = 0 <=> Ended(r)
           /\ r.st = "rx" => FrameLeft(r) = NumRetries + 4
           /\ r.st = "ipmid" => FrameLeft(r) = NumRetries + 3
           /\ r.st = "writing" => FrameLeft(r) = NumRetries + 2 - r.tries
           /\ r.st = "writing" => FrameLeft(r) \in 1..(NumRetries + 2)
<1>1. NumRetries \in Nat /\ r.tries \in 0..(NumRetries + 1)
  BY IncomingAssumption DEF Request
<1>2. r.st \in {"unsent", "rx", "ipmid", "writing", "answered", "lost"}
  BY DEF Request
<1>3. CASE r.st = "rx"
  BY <1>1, <1>3 DEF FrameLeft, Ended
<1>4. CASE r.st = "ipmid"
  BY <1>1, <1>4 DEF FrameLeft, Ended
<1>5. CASE r.st = "writing"
  BY <1>1, <1>5 DEF FrameLeft, Ended
<1>6. CASE r.st \in {"unsent", "answered", "lost"}
  BY <1>1, <1>6 DEF FrameLeft, Ended
<1>. QED
  BY <1>2, <1>3, <1>4, <1>5, <1>6

\* A frame that is given up, or goes from one stage to a later one, advances.
LEMMA LaterAdvances ==
    ASSUME NEW r \in Request, NEW q \in Request
    PROVE  /\ r.st = "rx" /\ q.st \in {"ipmid", "writing", "answered", "lost"} => Advances(r, q)
           /\ r.st = "ipmid" /\ q.st \in {"writing", "answered", "lost"} => Advances(r, q)
           /\ r.st = "writing" /\ q.st \in {"answered", "lost"} => Advances(r, q)
           /\ r.st = "writing" /\ q.st = "writing" /\ q.tries = r.tries + 1 => Advances(r, q)
<1>1. NumRetries \in Nat /\ r.tries \in Nat /\ q.tries \in Nat
  BY IncomingAssumption DEF Request
<1>2. q.st \in {"answered", "lost"} => FrameLeft(q) = 0
  BY FrameLeftValues DEF Ended
<1>. QED
  BY <1>1, <1>2, FrameLeftValues DEF Advances

\* The frame that processI2cEvent reads.
LEMMA HandleTo ==
    ASSUME TypeReq, NEW n \in Requests, Handle(n)
    PROVE  \E q \in Request : /\ req' = [req EXCEPT ![n] = q]
                              /\ q.st \in {"ipmid", "writing", "lost"}
<1>1. req[n] \in Request
  BY DEF TypeReq
<1>2. ASSUME NEW r \in Request
      PROVE  /\ [r EXCEPT !.st = "writing", !.cc = "C1"] \in Request
             /\ [r EXCEPT !.st = "writing", !.cc = "C1"].st = "writing"
             /\ [r EXCEPT !.st = "ipmid"] \in Request
             /\ [r EXCEPT !.st = "ipmid"].st = "ipmid"
  BY DEF Request
<1>3. CASE Lose(n)
  BY <1>3, BlankType DEF Lose
<1>4. CASE Answer(n, "C1")
  <2>1. req' = [req EXCEPT ![n] = [req[n] EXCEPT !.st = "writing", !.cc = "C1"]]
    BY <1>4 DEF Answer, TypeReq
  <2>. QED
    BY <1>1, <1>2, <2>1
<1>5. CASE req' = [req EXCEPT ![n].st = "ipmid"]
  <2>1. req' = [req EXCEPT ![n] = [req[n] EXCEPT !.st = "ipmid"]]
    BY <1>5 DEF TypeReq
  <2>. QED
    BY <1>1, <1>2, <2>1
<1>. QED
  BY <1>3, <1>4, <1>5 DEF Handle

\* ipmid's answer.
LEMMA IpmidTo ==
    ASSUME TypeReq, NEW n \in Requests, Ipmid(n)
    PROVE  \E q \in Request : /\ req' = [req EXCEPT ![n] = q]
                              /\ req[n].st = "ipmid" /\ q.st \in {"writing", "lost"}
<1>1. req[n] \in Request
  BY DEF TypeReq
<1>2. CASE ipmidFails(n)
  BY <1>2, BlankType DEF ipmidFails, Lose
<1>3. CASE ipmidAnswers(n)
  <2>1. PICK cc \in {"ok", "CE", "C1"} : req' = [req EXCEPT ![n].st = "writing", ![n].cc = cc]
    BY <1>3 DEF ipmidAnswers, Answer
  <2>2. ASSUME NEW r \in Request
        PROVE  /\ [r EXCEPT !.st = "writing", !.cc = cc] \in Request
               /\ [r EXCEPT !.st = "writing", !.cc = cc].st = "writing"
    BY DEF Request
  <2>3. req' = [req EXCEPT ![n] = [req[n] EXCEPT !.st = "writing", !.cc = cc]]
    BY <2>1 DEF TypeReq
  <2>. QED
    BY <1>1, <1>3, <2>2, <2>3 DEF ipmidAnswers
<1>. QED
  BY <1>2, <1>3 DEF Ipmid

\* A write of an answer: it goes out, or it is tried again, or it is given up.
LEMMA SendTo ==
    ASSUME TypeReq, NEW n \in Requests, ipmbSendI2cFrame(n)
    PROVE  \E q \in Request : /\ req' = [req EXCEPT ![n] = q] /\ req[n].st = "writing"
                              /\ \/ q.st \in {"answered", "lost"}
                                 \/ q.st = "writing" /\ q.tries = req[n].tries + 1
<1>1. req[n] \in Request /\ req[n].st = "writing"
  BY DEF TypeReq, ipmbSendI2cFrame
<1>2. CASE Lose(n)
  BY <1>1, <1>2, BlankType DEF Lose
<1>3. CASE req' = [req EXCEPT ![n].st = "answered", ![n].tries = 0]
  <2>1. ASSUME NEW r \in Request
        PROVE  /\ [r EXCEPT !.st = "answered", !.tries = 0] \in Request
               /\ [r EXCEPT !.st = "answered", !.tries = 0].st = "answered"
    <3>1. 0 \in 0..(NumRetries + 1)
      BY IncomingAssumption
    <3>. QED
      BY <3>1 DEF Request
  <2>2. req' = [req EXCEPT ![n] = [req[n] EXCEPT !.st = "answered", !.tries = 0]]
    BY <1>3 DEF TypeReq
  <2>. QED
    BY <1>1, <2>1, <2>2
<1>4. CASE ~(req[n].tries > NumRetries) /\ req' = [req EXCEPT ![n].tries = @ + 1]
  <2>1. ASSUME NEW r \in Request, NEW t \in 0..(NumRetries + 1)
        PROVE  /\ [r EXCEPT !.tries = t] \in Request
               /\ [r EXCEPT !.tries = t].st = r.st /\ [r EXCEPT !.tries = t].tries = t
    BY DEF Request
  <2>2. req[n].tries + 1 \in 0..(NumRetries + 1)
    BY <1>1, <1>4, IncomingAssumption DEF Request
  <2>. DEFINE q == [req[n] EXCEPT !.tries = req[n].tries + 1]
  <2>3. req' = [req EXCEPT ![n] = q]
    BY <1>4 DEF TypeReq
  <2>4. q \in Request /\ q.st = "writing" /\ q.tries = req[n].tries + 1
    BY <1>1, <2>1, <2>2
  <2>. HIDE DEF q
  <2>. QED
    BY <1>1, <2>3, <2>4
<1>. QED
  BY <1>2, <1>3, <1>4 DEF ipmbSendI2cFrame, NextTry

\* A step that leaves the queues and the waiting frames alone.
LEMMA QueuesKept ==
    ASSUME TypeKernel, QueueExact, UnsentLast, rx' = rx,
           \A n \in Requests :
               \/ req'[n] = req[n]
               \/ req[n].st \notin {"unsent", "rx"} /\ req'[n].st \notin {"unsent", "rx"}
    PROVE  QueueExact' /\ UnsentLast' /\ OrderStep
<1>1. \A n \in Requests :
        /\ req[n].st = "unsent" <=> req'[n].st = "unsent"
        /\ req[n].st = "rx" <=> req'[n].st = "rx"
        /\ req[n].st = "rx" => req'[n] = req[n]
  OBVIOUS
<1>2. Queued'
  <2>. SUFFICES ASSUME NEW c \in Channels, NEW i \in 1..Len(rx[c])
                PROVE  req'[rx[c][i]].st = "rx" /\ req'[rx[c][i]].ch = c
    BY DEF Queued
  <2>1. rx[c][i] \in Requests
    BY DEF TypeKernel
  <2>. QED
    BY <1>1, <2>1 DEF QueueExact, Queued
<1>3. Waiting'
  BY <1>1 DEF QueueExact, Waiting
<1>4. Ordered'
  BY DEF QueueExact, Ordered
<1>5. UnsentLast' /\ OrderStep
  BY <1>1 DEF UnsentLast, OrderStep
<1>. QED
  BY <1>2, <1>3, <1>4, <1>5 DEF QueueExact

\* A frame arrives behind those that wait.
LEMMA BoardQueues ==
    ASSUME QueueInv, NEW c \in Channels, NEW key \in Keys \cup {None}, NEW body \in Bodies,
           BoardSends(c, key, body)
    PROVE  QueueExact' /\ UnsentLast' /\ FrameStep /\ OrderStep
<1>1. TypeKernel /\ TypeReq /\ Queued /\ Waiting /\ Ordered /\ UnsentLast
  BY IInvParts DEF QueueInv, QueueExact
<1>2. PICK n \in Requests :
        /\ req[n].st = "unsent" /\ \A m \in 1..(n - 1) : req[m].st # "unsent"
        /\ req' = [req EXCEPT ![n].st = "rx", ![n].ch = c, ![n].key = key, ![n].body = body]
        /\ rx' = [rx EXCEPT ![c] = Append(@, n)]
  BY DEF BoardSends
<1>3. ASSUME NEW r \in Request
      PROVE  LET q == [r EXCEPT !.st = "rx", !.ch = c, !.key = key, !.body = body]
             IN  q.st = "rx" /\ q.ch = c
  BY DEF Request
<1>. DEFINE q == [req[n] EXCEPT !.st = "rx", !.ch = c, !.key = key, !.body = body]
<1>4. req' = [req EXCEPT ![n] = q] /\ req[n] \in Request
  BY <1>1, <1>2 DEF TypeReq
<1>5. q.st = "rx" /\ q.ch = c
  BY <1>3, <1>4
<1>. HIDE DEF q
<1>6. \A m \in Requests : req'[m] = IF m = n THEN q ELSE req[m]
  BY <1>1, <1>4 DEF TypeReq
<1>7. \A x \in Channels : rx[x] \in Seq(Requests) /\ (x # c => rx'[x] = rx[x])
  BY <1>1, <1>2 DEF TypeKernel
<1>8. /\ Len(rx'[c]) = Len(rx[c]) + 1 /\ rx'[c][Len(rx[c]) + 1] = n
      /\ \A i \in 1..Len(rx[c]) : rx'[c][i] = rx[c][i]
  <2>1. rx'[c] = Append(rx[c], n)
    BY <1>1, <1>2 DEF TypeKernel
  <2>2. rx[c] \in Seq(Requests)
    BY <1>7
  <2>. QED
    BY <2>1, <2>2
<1>9. \A m \in Requests : m > n => req[m].st = "unsent"
  BY <1>1, <1>2 DEF UnsentLast, Requests
<1>10. \A m \in Requests : m < n => req[m].st # "unsent"
  BY <1>2 DEF Requests
<1>11. Queued'
  <2>. SUFFICES ASSUME NEW x \in Channels, NEW i \in 1..Len(rx'[x])
                PROVE  req'[rx'[x][i]].st = "rx" /\ req'[rx'[x][i]].ch = x
    BY DEF Queued
  <2>1. CASE x = c /\ i = Len(rx[c]) + 1
    BY <1>5, <1>6, <1>8, <2>1
  <2>2. CASE ~(x = c /\ i = Len(rx[c]) + 1)
    <3>1. i \in 1..Len(rx[x]) /\ rx'[x][i] = rx[x][i]
      BY <1>7, <1>8, <2>2
    <3>2. rx[x][i] \in Requests
      BY <1>7, <3>1
    <3>3. req[rx[x][i]].st = "rx" /\ req[rx[x][i]].ch = x
      BY <1>1, <3>1 DEF Queued
    <3>. QED
      BY <1>2, <1>6, <3>1, <3>2, <3>3
  <2>. QED
    BY <2>1, <2>2
<1>12. Waiting'
  <2>. SUFFICES ASSUME NEW m \in Requests, req'[m].st = "rx"
                PROVE  \E i \in 1..Len(rx'[req'[m].ch]) : rx'[req'[m].ch][i] = m
    BY DEF Waiting
  <2>1. CASE m = n
    <3>1. req'[m].ch = c /\ Len(rx[c]) + 1 \in 1..Len(rx'[c])
      BY <1>5, <1>6, <1>7, <1>8, <2>1
    <3>. QED
      BY <1>8, <2>1, <3>1
  <2>2. CASE m # n
    <3>1. req'[m] = req[m] /\ req[m] \in Request
      BY <1>1, <1>6, <2>2 DEF TypeReq
    <3>2. PICK x \in Channels : x = req[m].ch
      BY <3>1 DEF Request
    <3>3. PICK i \in 1..Len(rx[x]) : rx[x][i] = m
      BY <1>1, <3>1, <3>2 DEF Waiting
    <3>4. i \in 1..Len(rx'[x]) /\ rx'[x][i] = m
      BY <1>7, <1>8, <3>3
    <3>. QED
      BY <3>1, <3>2, <3>4
  <2>. QED
    BY <2>1, <2>2
<1>13. Ordered'
  <2>. SUFFICES ASSUME NEW x \in Channels, NEW i \in 1..Len(rx'[x]), NEW j \in 1..Len(rx'[x]),
                       i < j
                PROVE  rx'[x][i] < rx'[x][j]
    BY DEF Ordered
  <2>1. CASE x # c
    BY <1>1, <1>7, <2>1 DEF Ordered
  <2>2. CASE x = c /\ j # Len(rx[c]) + 1
    <3>1. i \in 1..Len(rx[c]) /\ j \in 1..Len(rx[c])
      BY <1>7, <1>8, <2>2
    <3>. QED
      BY <1>1, <1>8, <2>2, <3>1 DEF Ordered
  <2>3. CASE x = c /\ j = Len(rx[c]) + 1
    <3>1. i \in 1..Len(rx[c])
      BY <1>7, <1>8, <2>3
    <3>2. rx[c][i] \in Requests /\ req[rx[c][i]].st = "rx"
      BY <1>1, <1>7, <3>1 DEF Queued
    <3>3. rx[c][i] # n /\ ~(rx[c][i] > n)
      BY <1>2, <1>9, <3>2
    <3>. QED
      BY <1>8, <2>3, <3>1, <3>2, <3>3 DEF Requests
  <2>. QED
    BY <2>1, <2>2, <2>3
<1>14. UnsentLast'
  <2>. SUFFICES ASSUME NEW k \in Requests, NEW m \in Requests, k < m, req'[k].st = "unsent"
                PROVE  req'[m].st = "unsent"
    BY DEF UnsentLast
  <2>1. k # n /\ req[k].st = "unsent"
    BY <1>5, <1>6
  <2>2. m # n
    BY <1>10, <2>1
  <2>. QED
    BY <1>1, <1>6, <2>1, <2>2 DEF UnsentLast
<1>15. FrameStep
  BY <1>2, <1>6 DEF FrameStep
<1>16. OrderStep
  BY <1>5, <1>6 DEF OrderStep
<1>. QED
  BY <1>11, <1>12, <1>13, <1>14, <1>15, <1>16 DEF QueueExact

\* processI2cEvent takes the frame that came first.
LEMMA EventQueues ==
    ASSUME QueueInv, NEW c \in Channels, processI2cEvent(c)
    PROVE  QueueExact' /\ UnsentLast' /\ FrameStep /\ OrderStep
<1>1. TypeKernel /\ TypeReq /\ Queued /\ Waiting /\ Ordered /\ UnsentLast /\ QueueExact
  BY IInvParts DEF QueueInv, QueueExact
<1>2. CASE UNCHANGED <<req, rx>>
  BY <1>1, <1>2, QueuesKept DEF FrameStep
<1>3. CASE rx[c] # <<>> /\ Handle(Head(rx[c])) /\ rx' = [rx EXCEPT ![c] = Tail(@)]
  <2>1. \A x \in Channels : rx[x] \in Seq(Requests) /\ (x # c => rx'[x] = rx[x])
    BY <1>1, <1>3 DEF TypeKernel
  <2>2. PICK n : n = Head(rx[c])
    OBVIOUS
  <2>3. n \in Requests /\ n = rx[c][1] /\ Len(rx[c]) \in Nat /\ Len(rx[c]) > 0
    BY <1>3, <2>1, <2>2
  <2>4. /\ \A i \in 1..Len(rx'[c]) :
             \E k \in 1..Len(rx[c]) : k = i + 1 /\ rx'[c][i] = rx[c][k]
        /\ \A k \in 1..Len(rx[c]) :
             k = 1 \/ \E i \in 1..Len(rx'[c]) : k = i + 1 /\ rx'[c][i] = rx[c][k]
    <3>1. rx'[c] = Tail(rx[c]) /\ rx[c] \in Seq(Requests)
      BY <1>1, <1>3, <2>1 DEF TypeKernel
    <3>2. PICK t : t = rx'[c]
      OBVIOUS
    <3>3. /\ Len(t) = Len(rx[c]) - 1
          /\ \A i \in 1..Len(t) : t[i] = rx[c][i + 1]
      BY <1>3, <3>1, <3>2, HeadTailProperties
    <3>4. ASSUME NEW i \in 1..Len(t)
          PROVE  \E k \in 1..Len(rx[c]) : k = i + 1 /\ t[i] = rx[c][k]
      <4>1. i + 1 \in 1..Len(rx[c])
        BY <2>3, <3>3
      <4>. QED
        BY <3>3, <4>1
    <3>5. ASSUME NEW k \in 1..Len(rx[c]), k # 1
          PROVE  \E i \in 1..Len(t) : k = i + 1 /\ t[i] = rx[c][k]
      <4>1. PICK i \in 1..Len(t) : k = i + 1
        <5>1. k - 1 \in 1..Len(t) /\ k = (k - 1) + 1
          BY <2>3, <3>3, <3>5
        <5>. QED
          BY <5>1
      <4>. QED
        BY <3>3, <4>1
    <3>. QED
      BY <3>2, <3>4, <3>5
  <2>5. PICK q \in Request : /\ req' = [req EXCEPT ![n] = q]
                             /\ q.st \in {"ipmid", "writing", "lost"}
    BY <1>1, <1>3, <2>2, <2>3, HandleTo
  <2>6. \A m \in Requests : req'[m] = IF m = n THEN q ELSE req[m]
    BY <1>1, <2>5 DEF TypeReq
  <2>7. req[n] \in Request /\ req[n].st = "rx" /\ req[n].ch = c
    BY <1>1, <2>3 DEF TypeReq, Queued
  <2>8. \A i \in 1..Len(rx[c]) : i > 1 => rx[c][i] > n
    BY <1>1, <2>3 DEF Ordered
  <2>9. Queued'
    <3>. SUFFICES ASSUME NEW x \in Channels, NEW i \in 1..Len(rx'[x])
                  PROVE  req'[rx'[x][i]].st = "rx" /\ req'[rx'[x][i]].ch = x
      BY DEF Queued
    <3>1. CASE x = c
      <4>1. PICK k \in 1..Len(rx[c]) : k = i + 1 /\ rx'[c][i] = rx[c][k]
        BY <2>4, <3>1
      <4>2. rx[c][k] \in Requests /\ rx[c][k] # n
        <5>1. rx[c][k] \in Requests
          BY <2>1
        <5>2. rx[c][k] > n
          BY <2>8, <4>1
        <5>. QED
          BY <2>3, <5>1, <5>2 DEF Requests
      <4>3. req[rx[c][k]].st = "rx" /\ req[rx[c][k]].ch = c
        BY <1>1 DEF Queued
      <4>. QED
        BY <2>6, <3>1, <4>1, <4>2, <4>3
    <3>2. CASE x # c
      <4>1. rx'[x] = rx[x] /\ rx[x][i] \in Requests
        BY <2>1, <3>2
      <4>2. req[rx[x][i]].st = "rx" /\ req[rx[x][i]].ch = x
        BY <1>1, <4>1 DEF Queued
      <4>. QED
        BY <2>6, <2>7, <3>2, <4>1, <4>2
    <3>. QED
      BY <3>1, <3>2
  <2>10. Waiting'
    <3>. SUFFICES ASSUME NEW m \in Requests, req'[m].st = "rx"
                  PROVE  \E i \in 1..Len(rx'[req'[m].ch]) : rx'[req'[m].ch][i] = m
      BY DEF Waiting
    <3>1. m # n /\ req'[m] = req[m] /\ req[m] \in Request
      BY <1>1, <2>5, <2>6 DEF TypeReq
    <3>2. PICK x \in Channels : x = req[m].ch
      BY <3>1 DEF Request
    <3>3. PICK i \in 1..Len(rx[x]) : rx[x][i] = m
      BY <1>1, <3>1, <3>2 DEF Waiting
    <3>4. CASE x = c
      <4>1. i # 1
        BY <2>3, <3>1, <3>3, <3>4
      <4>2. \E j \in 1..Len(rx'[c]) : rx'[c][j] = m
        BY <2>4, <3>3, <3>4, <4>1
      <4>. QED
        BY <3>1, <3>2, <3>4, <4>2
    <3>5. CASE x # c
      BY <2>1, <3>1, <3>2, <3>3, <3>5
    <3>. QED
      BY <3>4, <3>5
  <2>11. Ordered'
    <3>. SUFFICES ASSUME NEW x \in Channels, NEW i \in 1..Len(rx'[x]),
                         NEW j \in 1..Len(rx'[x]), i < j
                  PROVE  rx'[x][i] < rx'[x][j]
      BY DEF Ordered
    <3>1. CASE x = c
      <4>1. PICK k \in 1..Len(rx[c]) : k = i + 1 /\ rx'[c][i] = rx[c][k]
        BY <2>4, <3>1
      <4>2. PICK l \in 1..Len(rx[c]) : l = j + 1 /\ rx'[c][j] = rx[c][l]
        BY <2>4, <3>1
      <4>3. rx[c][k] < rx[c][l]
        BY <1>1, <4>1, <4>2 DEF Ordered
      <4>. QED
        BY <3>1, <4>1, <4>2, <4>3
    <3>2. CASE x # c
      BY <1>1, <2>1, <3>2 DEF Ordered
    <3>. QED
      BY <3>1, <3>2
  <2>12. UnsentLast'
    BY <1>1, <2>5, <2>6, <2>7 DEF UnsentLast
  <2>13. FrameStep
    <3>1. Advances(req[n], q)
      BY <2>5, <2>7, LaterAdvances
    <3>. QED
      BY <2>6, <3>1 DEF FrameStep
  <2>14. OrderStep
    <3>. SUFFICES ASSUME NEW k \in Requests, NEW m \in Requests, k < m,
                         req[k].ch = req[m].ch, req[m].st = "rx", req'[m].st # "rx",
                         req[k].st = "rx"
                  PROVE  FALSE
      BY DEF OrderStep
    <3>1. m = n /\ req[k].ch = c
      BY <2>6, <2>7
    <3>2. PICK i \in 1..Len(rx[c]) : rx[c][i] = k
      BY <1>1, <3>1 DEF Waiting
    <3>3. k = n \/ k > n
      BY <2>3, <2>8, <3>2
    <3>. QED
      BY <3>1, <3>3 DEF Requests
  <2>. QED
    BY <2>9, <2>10, <2>11, <2>12, <2>13, <2>14 DEF QueueExact
<1>. QED
  BY <1>2, <1>3 DEF processI2cEvent

\* An address update drops the frames of its channel together with the device.
LEMMA UpdateQueues ==
    ASSUME QueueInv, NEW c \in Channels, NEW a \in NewAddrs,
           ipmbChannelUpdateSlaveAddress(c, a)
    PROVE  QueueExact' /\ UnsentLast' /\ FrameStep /\ OrderStep
<1>1. TypeKernel /\ TypeReq /\ Queued /\ Waiting /\ Ordered /\ UnsentLast /\ QueueExact
  BY IInvParts DEF QueueInv, QueueExact
<1>2. \/ UNCHANGED <<req, rx>>
      \/ /\ rx' = [rx EXCEPT ![c] = <<>>]
         /\ req' = [n \in Requests |-> IF req[n].ch = c /\ req[n].st = "rx"
                                       THEN Blank ELSE req[n]]
  <2>1. PICK d :
          /\ rx' = [rx EXCEPT ![c] = IF d = None THEN <<>> ELSE @]
          /\ req' = [n \in Requests |-> IF d = None /\ req[n].ch = c /\ req[n].st = "rx"
                                        THEN Blank ELSE req[n]]
    <3>1. PICK done \in {"none", "deleted", "created", "opened"} :
            LET d == IF done = "none" THEN dev[c] ELSE Deleted(dev[c])
            IN  /\ rx' = [rx EXCEPT ![c] = IF d = None THEN <<>> ELSE @]
                /\ req' = [n \in Requests |-> IF d = None /\ req[n].ch = c /\ req[n].st = "rx"
                                              THEN Blank ELSE req[n]]
      BY Zenon DEF ipmbChannelUpdateSlaveAddress
    <3>. DEFINE d == IF done = "none" THEN dev[c] ELSE Deleted(dev[c])
    <3>. WITNESS d
    <3>. QED
      BY <3>1, Zenon
  <2>2. CASE d = None
    BY <2>1, <2>2
  <2>3. CASE d # None
    BY <1>1, <2>1, <2>3 DEF TypeKernel, TypeReq
  <2>. QED
    BY <2>2, <2>3
<1>3. CASE UNCHANGED <<req, rx>>
  BY <1>1, <1>3, QueuesKept DEF FrameStep
<1>4. CASE /\ rx' = [rx EXCEPT ![c] = <<>>]
           /\ req' = [n \in Requests |-> IF req[n].ch = c /\ req[n].st = "rx"
                                         THEN Blank ELSE req[n]]
  <2>1. \A x \in Channels : rx'[x] = IF x = c THEN <<>> ELSE rx[x]
    BY <1>1, <1>4 DEF TypeKernel
  <2>2. \A n \in Requests :
          req'[n] = IF req[n].ch = c /\ req[n].st = "rx" THEN Blank ELSE req[n]
    BY <1>4
  <2>3. Blank.st = "lost" /\ Blank \in Request
    BY BlankType
  <2>4. Queued'
    <3>. SUFFICES ASSUME NEW x \in Channels, NEW i \in 1..Len(rx'[x])
                  PROVE  req'[rx'[x][i]].st = "rx" /\ req'[rx'[x][i]].ch = x
      BY DEF Queued
    <3>1. x # c /\ rx'[x] = rx[x]
      BY <2>1
    <3>2. rx[x][i] \in Requests
      BY <1>1, <3>1 DEF TypeKernel
    <3>3. req[rx[x][i]].st = "rx" /\ req[rx[x][i]].ch = x
      BY <1>1, <3>1 DEF Queued
    <3>. QED
      BY <2>2, <3>1, <3>2, <3>3
  <2>5. Waiting'
    <3>. SUFFICES ASSUME NEW m \in Requests, req'[m].st = "rx"
                  PROVE  \E i \in 1..Len(rx'[req'[m].ch]) : rx'[req'[m].ch][i] = m
      BY DEF Waiting
    <3>1. req'[m] = req[m] /\ req[m].ch # c /\ req[m] \in Request
      BY <1>1, <2>2, <2>3 DEF TypeReq
    <3>2. rx'[req[m].ch] = rx[req[m].ch]
      BY <2>1, <3>1 DEF Request
    <3>. QED
      BY <1>1, <3>1, <3>2 DEF Waiting
  <2>6. Ordered'
    <3>. SUFFICES ASSUME NEW x \in Channels, NEW i \in 1..Len(rx'[x]),
                         NEW j \in 1..Len(rx'[x]), i < j
                  PROVE  rx'[x][i] < rx'[x][j]
      BY DEF Ordered
    <3>1. x # c /\ rx'[x] = rx[x]
      BY <2>1
    <3>. QED
      BY <1>1, <3>1 DEF Ordered
  <2>7. UnsentLast'
    BY <1>1, <2>2, <2>3 DEF UnsentLast
  <2>8. FrameStep
    <3>. SUFFICES ASSUME NEW n \in Requests, req'[n] # req[n]
                  PROVE  Advances(req[n], req'[n])
      BY DEF FrameStep
    <3>1. req[n] \in Request /\ req[n].st = "rx" /\ req'[n] = Blank
      BY <1>1, <2>2 DEF TypeReq
    <3>. QED
      BY <2>3, <3>1, LaterAdvances
  <2>9. OrderStep
    BY <2>2, <2>3 DEF OrderStep
  <2>. QED
    BY <2>4, <2>5, <2>6, <2>7, <2>8, <2>9 DEF QueueExact
<1>. QED
  BY <1>2, <1>3, <1>4

\* A restart gives up what the daemon held; the kernel's queues stay.
LEMMA RestartQueues ==
    ASSUME QueueInv, Restart
    PROVE  QueueExact' /\ UnsentLast' /\ FrameStep /\ OrderStep
<1>1. TypeKernel /\ TypeReq /\ UnsentLast /\ QueueExact
  BY IInvParts DEF QueueInv
<1>2. rx' = rx
  BY DEF Restart
<1>3. \A n \in Requests :
        req'[n] = IF req[n].st \in {"ipmid", "writing"} THEN Blank ELSE req[n]
  BY DEF Restart
<1>4. ASSUME NEW n \in Requests, req'[n] # req[n]
      PROVE  req[n].st \in {"ipmid", "writing"} /\ req'[n] = Blank
  BY <1>3, <1>4, Zenon
<1>5. QueueExact' /\ UnsentLast' /\ OrderStep
  <2>1. ASSUME NEW n \in Requests, req'[n] # req[n]
        PROVE  req[n].st \notin {"unsent", "rx"} /\ req'[n].st \notin {"unsent", "rx"}
    BY <1>4, <2>1, BlankType
  <2>. QED
    BY <1>1, <1>2, <2>1, QueuesKept
<1>6. FrameStep
  <2>. SUFFICES ASSUME NEW n \in Requests, req'[n] # req[n]
                PROVE  Advances(req[n], req'[n])
    BY DEF FrameStep
  <2>1. req[n] \in Request /\ req[n].st \in {"ipmid", "writing"} /\ req'[n] = Blank
    BY <1>1, <1>4 DEF TypeReq
  <2>. QED
    BY <2>1, BlankType, LaterAdvances
<1>. QED
  BY <1>5, <1>6

\* A step that writes one frame which is not in a queue.
LEMMA FrameQueues ==
    ASSUME QueueInv, rx' = rx, NEW n \in Requests, NEW q \in Request,
           req' = [req EXCEPT ![n] = q], req[n].st \in {"ipmid", "writing"},
           Advances(req[n], q)
    PROVE  QueueExact' /\ UnsentLast' /\ FrameStep /\ OrderStep
<1>1. TypeKernel /\ TypeReq /\ UnsentLast /\ QueueExact
  BY IInvParts DEF QueueInv
<1>2. \A m \in Requests : req'[m] = IF m = n THEN q ELSE req[m]
  BY <1>1 DEF TypeReq
<1>3. FrameStep
  BY <1>2 DEF FrameStep
<1>4. \A m \in Requests :
        \/ req'[m] = req[m]
        \/ req[m].st \notin {"unsent", "rx"} /\ req'[m].st \notin {"unsent", "rx"}
  BY <1>2 DEF Advances
<1>. QED
  BY <1>1, <1>3, <1>4, QueuesKept

\* Every step.
LEMMA NextQueues ==
    ASSUME QueueInv, [Next]_vars
    PROVE  QueueInv' /\ FrameStep /\ OrderStep
<1>1. TypeKernel /\ TypeReq /\ UnsentLast /\ QueueExact /\ IInv
  BY IInvParts DEF QueueInv
<1>2. IInv'
  BY <1>1, NextIInv
<1>3. CASE UNCHANGED <<rx, req>>
  <2>1. QueueExact' /\ UnsentLast' /\ OrderStep
    BY <1>1, <1>3, QueuesKept
  <2>. QED
    BY <1>2, <1>3, <2>1 DEF QueueInv, FrameStep
<1>4. ASSUME NEW n \in Requests, Ipmid(n)
      PROVE  QueueExact' /\ UnsentLast' /\ FrameStep /\ OrderStep
  <2>1. PICK q \in Request : /\ req' = [req EXCEPT ![n] = q]
                             /\ req[n].st = "ipmid" /\ q.st \in {"writing", "lost"}
    BY <1>1, <1>4, IpmidTo
  <2>2. rx' = rx /\ req[n] \in Request
    BY <1>1, <1>4 DEF Ipmid, ipmidFails, ipmidAnswers, kernel, TypeReq
  <2>3. Advances(req[n], q)
    BY <2>1, <2>2, LaterAdvances
  <2>. QED
    BY <2>1, <2>2, <2>3, FrameQueues
<1>5. ASSUME NEW n \in Requests, ipmbSendI2cFrame(n)
      PROVE  QueueExact' /\ UnsentLast' /\ FrameStep /\ OrderStep
  <2>1. PICK q \in Request : /\ req' = [req EXCEPT ![n] = q] /\ req[n].st = "writing"
                             /\ \/ q.st \in {"answered", "lost"}
                                \/ q.st = "writing" /\ q.tries = req[n].tries + 1
    BY <1>1, <1>5, SendTo
  <2>2. rx' = rx /\ req[n] \in Request
    BY <1>1, <1>5 DEF ipmbSendI2cFrame, kernel, TypeReq
  <2>3. Advances(req[n], q)
    BY <2>1, <2>2, LaterAdvances
  <2>. QED
    BY <2>1, <2>2, <2>3, FrameQueues
<1>6. CASE UNCHANGED vars \/ writeBroadcast
           \/ \E c \in Channels : WaitCompletes(c) \/ sendBroadcast(c)
  <2>1. UNCHANGED <<rx, req>>
    BY <1>6 DEF vars, kernel, writeBroadcast, WaitCompletes, sendBroadcast
  <2>. QED
    BY <1>3, <2>1
<1>7. Blank.body \in Bodies
  BY BlankType DEF Request
<1>8. CASE Next
  BY <1>2, <1>4, <1>5, <1>6, <1>7, <1>8, BoardQueues, EventQueues, UpdateQueues, RestartQueues
     DEF Next, QueueInv
<1>. QED
  BY <1>6, <1>8

LEMMA InitQueues == Init => QueueInv
<1>. SUFFICES ASSUME Init PROVE QueueInv
  OBVIOUS
<1>1. \A n \in Requests : req[n].st = "unsent"
  <2>1. ASSUME NEW r \in Request PROVE [r EXCEPT !.st = "unsent"].st = "unsent"
    BY DEF Request
  <2>. QED
    BY <2>1, BlankType DEF Init
<1>2. \A c \in Channels : rx[c] = <<>>
  BY DEF Init
<1>. QED
  BY <1>1, <1>2, InitIInv DEF QueueInv, QueueExact, Queued, Waiting, Ordered, UnsentLast

\* A frame that the kernel holds waits once, in the queue of the channel it came
\* on and behind the frames that came before it, and what a queue holds is such a
\* frame: none is read twice, none is forgotten, and none is read on another
\* channel than its own, whatever restarts and address updates there are.
THEOREM IncomingQueueExact == Spec => []QueueExact
<1>1. QueueInv => QueueExact
  BY DEF QueueInv
<1>2. QueueInv /\ [Next]_vars => QueueInv'
  BY NextQueues
<1>. QED
  BY <1>1, <1>2, InitQueues, PTL DEF Spec

\* Frames of a channel leave its queue in the order in which they came:
\* processI2cEvent reads one only when no earlier one waits, and an address
\* update that drops one drops those before it too.
THEOREM IncomingInOrder == Spec => [][OrderStep]_vars
<1>1. QueueInv /\ [Next]_vars => QueueInv'
  BY NextQueues
<1>2. QueueInv /\ [Next]_vars => [OrderStep]_vars
  BY NextQueues
<1>. QED
  BY <1>1, <1>2, InitQueues, PTL DEF Spec

\* A frame is in the daemon's hands for NumRetries + 4 steps at most, and every
\* step that touches it, of whatever part of the daemon, leaves fewer: no frame
\* goes back to a queue, to ipmid or to an earlier attempt of a write.
THEOREM IncomingFramesEnd == Spec => []FramesBounded /\ [][FrameStep]_vars
<1>1. QueueInv => FramesBounded
  <2>. SUFFICES ASSUME QueueInv PROVE FramesBounded
    OBVIOUS
  <2>1. \A n \in Requests : req[n] \in Request
    BY IInvParts DEF QueueInv, TypeReq
  <2>. QED
    BY <2>1, FrameLeftValues DEF FramesBounded
<1>2. QueueInv /\ [Next]_vars => QueueInv'
  BY NextQueues
<1>3. QueueInv /\ [Next]_vars => [FrameStep]_vars
  BY NextQueues
<1>. QED
  BY <1>1, <1>2, <1>3, InitQueues, PTL DEF Spec
=============================================================================
