------------------------- MODULE IpmbBridge_proofs --------------------------
(***************************************************************************)
(* Proofs about IpmbBridge, for any number of channels, calls, sequence    *)
(* numbers and retries.                                                    *)
(***************************************************************************)
EXTENDS IpmbBridge, FiniteSetTheorems, WellFoundedInduction, TLAPS

USE SizeAssumption, AddrAssumption, ValueAssumption

\* A failure without a response is a reply, and so is a matched response.
LEMMA ReplyTypes ==
    /\ \A st \in Failures : StatusReply(st) \in Reply
    /\ \A f \in Frame : MatchedReply(f) \in Reply
BY DEF StatusReply, MatchedReply, Reply, Frame

\* The initial state satisfies the inductive invariant.
LEMMA InitIInv == Init => IInv
<1> SUFFICES ASSUME Init PROVE IInv
  OBVIOUS
<1>1. TypeOK
  BY DEF Init, TypeOK, Seqs, Calls
<1>2. CallsInOrder
  BY DEF Init, CallsInOrder, Calls
<1>3. Live = {}
  BY DEF Init, Live
<1>4. LiveOwnsSlot
  BY <1>3 DEF LiveOwnsSlot
<1>5. SlotsAccounted
  BY DEF Init, SlotsAccounted
<1>6. ResponseFits
  BY DEF Init, ResponseFits
<1> QED
  BY <1>1, <1>2, <1>4, <1>5, <1>6 DEF IInv

\* A call that is made has not been made before: it is in no table.
LEMMA NewCallIsNew ==
    ASSUME IInv, NEW r, NewCall(r)
    PROVE  /\ r \in Calls /\ r = issued + 1 /\ issued' = r
           /\ pc[r] = "idle" /\ req[r] = NoRequest /\ matched[r] = NoFrame
           /\ r \notin Live
           /\ up => \A c \in Channels, s \in Seqs : slot[c][s] # r
<1>1. r \in Calls /\ r = issued + 1 /\ issued' = r
  BY DEF IInv, TypeOK, NewCall, Calls
<1>2. pc[r] = "idle" /\ req[r] = NoRequest /\ matched[r] = NoFrame
  BY <1>1 DEF IInv, TypeOK, CallsInOrder, Calls
<1>3. r \notin Live
  BY <1>2 DEF Live
<1>4. ASSUME up, NEW c \in Channels, NEW s \in Seqs PROVE slot[c][s] # r
  BY <1>1, <1>2, <1>4 DEF IInv, SlotsAccounted
<1> QED
  BY <1>1, <1>2, <1>3, <1>4

\* ipmbHandleRequest preserves the invariant.
LEMMA HandleRequestIInv ==
    ASSUME IInv, NEW r, NEW c \in ChannelArgs, NEW addr \in AddrArgs, NEW k \in Kinds,
           NEW big \in Bigs, ipmbHandleRequest(r, c, addr, k, big)
    PROVE  IInv'
<1>0. /\ r \in Calls /\ r = issued + 1 /\ issued' = r /\ c \in Channels /\ up
      /\ pc[r] = "idle" /\ req[r] = NoRequest /\ matched[r] = NoFrame
      /\ r \notin Live
      /\ \A d \in Channels, s \in Seqs : slot[d][s] # r
  BY NewCallIsNew DEF ipmbHandleRequest
<1>1. rqSA' \in [Channels -> Addrs]
  BY <1>0 DEF ipmbHandleRequest, updateRqSlaveAddress, IInv, TypeOK
<1>2. CASE /\ Return(r, StatusReply("busy"))
           /\ UNCHANGED <<seqNum, slot, req>>
  <2>0. StatusReply("busy") \in Reply /\ StatusReply("busy").status = "busy"
    BY ReplyTypes DEF StatusReply, Failures
  <2>1. TypeOK'
    BY <1>0, <1>1, <1>2, <2>0 DEF ipmbHandleRequest, IInv, TypeOK, Return, Calls
  <2>2. CallsInOrder'
    BY <1>0, <1>2, <2>0 DEF ipmbHandleRequest, IInv, TypeOK, CallsInOrder, Return, Calls
  <2>3. Live' = Live
    BY <1>0, <1>2 DEF IInv, TypeOK, Live, Return
  <2>4. LiveOwnsSlot'
    BY <1>2, <2>3 DEF ipmbHandleRequest, IInv, LiveOwnsSlot
  <2>5. SlotsAccounted'
    BY <1>0, <1>2, <2>3 DEF ipmbHandleRequest, IInv, TypeOK, SlotsAccounted, Return
  <2>6. ResponseFits'
    BY <1>0, <1>2, <2>0 DEF ipmbHandleRequest, IInv, TypeOK, ResponseFits, Return
  <2> QED
    BY <2>1, <2>2, <2>4, <2>5, <2>6 DEF IInv
<1>3. CASE \E s \in Seqs :
             /\ seqNumGet(c, s)
             /\ seqNum' = s
             /\ slot' = [slot EXCEPT ![c][s] = r]
             /\ req' = [req EXCEPT ![r] = [ch |-> c, to |-> rqSA'[c], kind |-> k, seq |-> s]]
             /\ IF big
                THEN Return(r, StatusReply("error"))
                ELSE /\ pc' = [pc EXCEPT ![r] = "write"]
                     /\ UNCHANGED reply
  <2>0. PICK s \in Seqs :
             /\ seqNumGet(c, s)
             /\ seqNum' = s
             /\ slot' = [slot EXCEPT ![c][s] = r]
             /\ req' = [req EXCEPT ![r] = [ch |-> c, to |-> rqSA'[c], kind |-> k, seq |-> s]]
             /\ IF big
                THEN Return(r, StatusReply("error"))
                ELSE /\ pc' = [pc EXCEPT ![r] = "write"]
                     /\ UNCHANGED reply
    BY <1>3
  <2> DEFINE q == [ch |-> c, to |-> rqSA'[c], kind |-> k, seq |-> s]
  <2>1. slot[c][s] = NoCall
    BY <2>0 DEF seqNumGet
  <2>2. q \in Request /\ q.ch = c /\ q.seq = s
    BY <1>0, <1>1 DEF Request
  <2>3. StatusReply("error") \in Reply /\ StatusReply("error").status = "error"
    BY ReplyTypes DEF StatusReply, Failures
  <2>4. /\ pc' = [pc EXCEPT ![r] = IF big THEN "done" ELSE "write"]
        /\ reply' = IF big THEN [reply EXCEPT ![r] = StatusReply("error")] ELSE reply
    BY <2>0 DEF Return
  <2>5. req' = [req EXCEPT ![r] = q]
    BY <2>0
  <2> HIDE DEF q
  <2>6. TypeOK'
    <3>1. slot' \in [Channels -> [Seqs -> Calls \cup {NoCall}]]
      BY <1>0, <2>0 DEF IInv, TypeOK
    <3>2. pc' \in [Calls -> {"idle", "write", "wait", "done"}]
      BY <1>0, <2>4 DEF IInv, TypeOK
    <3>3. req' \in [Calls -> Request \cup {NoRequest}]
      BY <1>0, <2>2, <2>5 DEF IInv, TypeOK
    <3>4. reply' \in [Calls -> Reply \cup {NoReply}]
      BY <1>0, <2>3, <2>4 DEF IInv, TypeOK
    <3> QED
      BY <1>0, <1>1, <2>0, <3>1, <3>2, <3>3, <3>4
      DEF ipmbHandleRequest, IInv, TypeOK, Calls
  <2>7. CallsInOrder'
    <3>. SUFFICES ASSUME NEW x \in Calls
                  PROVE  /\ pc'[x] = "idle" <=> x > issued'
                         /\ pc'[x] = "idle" => req'[x] = NoRequest /\ matched'[x] = NoFrame
                         /\ reply'[x] # NoReply <=> pc'[x] = "done"
      BY DEF CallsInOrder
    <3>1. UNCHANGED matched
      BY DEF ipmbHandleRequest
    <3>2. DOMAIN pc = Calls /\ DOMAIN req = Calls /\ DOMAIN reply = Calls
      BY DEF IInv, TypeOK
    <3>3. /\ pc[x] = "idle" <=> x > issued
          /\ pc[x] = "idle" => req[x] = NoRequest /\ matched[x] = NoFrame
          /\ reply[x] # NoReply <=> pc[x] = "done"
      BY DEF IInv, CallsInOrder
    <3>4. CASE x = r
      <4>1. pc'[x] = (IF big THEN "done" ELSE "write") /\ ~(x > issued')
        BY <1>0, <2>4, <3>2, <3>4 DEF Calls
      <4>2. reply'[x] # NoReply <=> big
        BY <1>0, <2>3, <2>4, <3>2, <3>3, <3>4, ReplyTypes
      <4>. QED
        BY <4>1, <4>2
    <3>5. CASE x # r
      <4>1. pc'[x] = pc[x] /\ req'[x] = req[x] /\ reply'[x] = reply[x]
        BY <2>4, <2>5, <3>2, <3>5
      <4>2. x > issued' <=> x > issued
        BY <1>0, <3>5 DEF Calls, IInv, TypeOK
      <4>. QED
        BY <3>1, <3>3, <4>1, <4>2
    <3>. QED
      BY <3>4, <3>5
  <2>8. Live' = IF big THEN Live ELSE Live \cup {r}
    BY <1>0, <2>4 DEF IInv, TypeOK, Live
  <2>9. LiveOwnsSlot'
    <3> SUFFICES ASSUME NEW p \in Live'
                 PROVE  up' /\ req'[p] \in Request /\ slot'[req'[p].ch][req'[p].seq] = p
      BY DEF LiveOwnsSlot
    <3>1. CASE p = r
      BY <1>0, <2>0, <2>2, <2>5, <3>1 DEF ipmbHandleRequest, IInv, TypeOK
    <3>2. CASE p # r
      <4>1. p \in Live /\ p \in Calls /\ p # NoCall
        BY <2>8, <3>2 DEF Live
      <4>2. req[p] \in Request /\ slot[req[p].ch][req[p].seq] = p
        BY <4>1 DEF IInv, LiveOwnsSlot
      <4>3. req'[p] = req[p]
        BY <2>5, <3>2, <4>1 DEF IInv, TypeOK
      <4>4. req[p].ch \in Channels /\ req[p].seq \in Seqs
        BY <4>2 DEF Request
      <4>5. ~(req[p].ch = c /\ req[p].seq = s)
        BY <2>1, <4>1, <4>2
      <4>6. slot'[req[p].ch][req[p].seq] = p
        BY <1>0, <2>0, <4>2, <4>4, <4>5 DEF IInv, TypeOK
      <4> QED
        BY <1>0, <4>2, <4>3, <4>6 DEF ipmbHandleRequest
    <3> QED
      BY <3>1, <3>2
  <2>10. SlotsAccounted'
    <3> SUFFICES ASSUME NEW d \in Channels, NEW t \in Seqs, slot'[d][t] # NoCall
                 PROVE  /\ req'[slot'[d][t]] \in Request
                        /\ req'[slot'[d][t]].ch = d /\ req'[slot'[d][t]].seq = t
                        /\ \/ slot'[d][t] \in Live'
                           \/ pc'[slot'[d][t]] = "done" /\ reply'[slot'[d][t]].status = "error"
      BY DEF SlotsAccounted
    <3>1. CASE d = c /\ t = s
      <4>1. slot'[d][t] = r
        BY <1>0, <2>0, <3>1 DEF IInv, TypeOK
      <4>2. req'[r] = q
        BY <1>0, <2>5 DEF IInv, TypeOK
      <4>3. r \in Live' \/ (pc'[r] = "done" /\ reply'[r].status = "error")
        BY <1>0, <2>3, <2>4, <2>8 DEF IInv, TypeOK
      <4> QED
        BY <2>2, <3>1, <4>1, <4>2, <4>3
    <3>2. CASE ~(d = c /\ t = s)
      <4>1. slot'[d][t] = slot[d][t]
        BY <1>0, <2>0, <3>2 DEF IInv, TypeOK
      <4>2. slot[d][t] \in Calls /\ slot[d][t] # r
        BY <1>0, <4>1 DEF IInv, TypeOK
      <4>3. /\ req'[slot[d][t]] = req[slot[d][t]]
            /\ pc'[slot[d][t]] = pc[slot[d][t]]
            /\ reply'[slot[d][t]] = reply[slot[d][t]]
        BY <2>4, <2>5, <4>2 DEF IInv, TypeOK
      <4> QED
        BY <1>0, <2>8, <4>1, <4>2, <4>3 DEF IInv, SlotsAccounted
    <3> QED
      BY <3>1, <3>2
  <2>11. ResponseFits'
    BY <1>0, <2>3, <2>4, <2>5 DEF ipmbHandleRequest, IInv, TypeOK, CallsInOrder, ResponseFits
  <2> QED
    BY <2>6, <2>7, <2>9, <2>10, <2>11 DEF IInv
<1> QED
  BY <1>2, <1>3 DEF ipmbHandleRequest

\* The death of the daemon, its restart and calls in between preserve the
\* invariant.
LEMMA CrashIInv ==
    ASSUME IInv, NEW r, \/ \E c \in ChannelArgs : UnknownChannel(r, c)
                        \/ CallWhileDown(r)
                        \/ Restart
    PROVE  IInv'
<1>0. StatusReply(DBusError) \in Reply /\ StatusReply(DBusError).status = "dbus_error"
  BY ReplyTypes DEF StatusReply, Failures, DBusError
<1>1. ASSUME NEW c \in ChannelArgs, UnknownChannel(r, c) PROVE IInv'
  <2>1. r \in Calls /\ r = issued + 1 /\ issued' = r /\ pc[r] = "idle"
    BY <1>1, NewCallIsNew DEF UnknownChannel
  <2>2. TypeOK'
    <3>1. pc' \in [Calls -> {"idle", "write", "wait", "done"}]
      BY <1>1 DEF UnknownChannel, IInv, TypeOK
    <3>2. reply' \in [Calls -> Reply \cup {NoReply}]
      BY <1>0, <1>1 DEF UnknownChannel, IInv, TypeOK
    <3>3. issued' \in 0..MaxCalls
      BY <2>1 DEF Calls
    <3> QED
      BY <1>1, <3>1, <3>2, <3>3 DEF UnknownChannel, IInv, TypeOK
  <2>3. CallsInOrder'
    BY <1>0, <1>1, <2>1 DEF UnknownChannel, IInv, TypeOK, CallsInOrder, Live, Calls
  <2>4. Live' = {}
    BY <1>1 DEF UnknownChannel, Live
  <2>5. LiveOwnsSlot' /\ SlotsAccounted'
    BY <1>1, <2>4 DEF UnknownChannel, LiveOwnsSlot, SlotsAccounted
  <2>6. ResponseFits'
    BY <1>0, <1>1, <2>1 DEF UnknownChannel, IInv, TypeOK, ResponseFits
  <2> QED
    BY <2>2, <2>3, <2>5, <2>6 DEF IInv
<1>2. ASSUME CallWhileDown(r) PROVE IInv'
  <2>1. r \in Calls /\ r = issued + 1 /\ issued' = r /\ pc[r] = "idle"
    BY <1>2, NewCallIsNew DEF CallWhileDown
  <2>2. TypeOK'
    BY <1>0, <1>2, <2>1 DEF CallWhileDown, Return, IInv, TypeOK, Calls
  <2>3. CallsInOrder'
    BY <1>0, <1>2, <2>1 DEF CallWhileDown, Return, IInv, TypeOK, CallsInOrder, Calls
  <2>4. Live' = Live /\ Live = {}
    BY <1>2, <2>1 DEF CallWhileDown, Return, IInv, TypeOK, LiveOwnsSlot, Live
  <2>5. LiveOwnsSlot' /\ SlotsAccounted'
    BY <1>2, <2>4 DEF CallWhileDown, LiveOwnsSlot, SlotsAccounted
  <2>6. ResponseFits'
    BY <1>0, <1>2, <2>1 DEF CallWhileDown, Return, IInv, TypeOK, ResponseFits
  <2> QED
    BY <2>2, <2>3, <2>5, <2>6 DEF IInv
<1>3. ASSUME Restart PROVE IInv'
  <2>1. TypeOK'
    BY <1>3 DEF Restart, IInv, TypeOK, Seqs
  <2>2. CallsInOrder' /\ ResponseFits'
    BY <1>3 DEF Restart, IInv, CallsInOrder, ResponseFits
  <2>3. Live' = Live /\ Live = {}
    BY <1>3 DEF Restart, IInv, LiveOwnsSlot, Live
  <2>4. LiveOwnsSlot' /\ SlotsAccounted'
    BY <1>3, <2>3 DEF Restart, LiveOwnsSlot, SlotsAccounted
  <2> QED
    BY <2>1, <2>2, <2>4 DEF IInv
<1> QED
  BY <1>1, <1>2, <1>3

\* Sending a request, or failing to, preserves the invariant.
LEMMA WriteIInv ==
    ASSUME IInv, NEW r \in Calls, WriteDone(r) \/ WriteFailed(r)
    PROVE  IInv'
<1>0. pc[r] = "write" /\ up /\ r \in Live
  BY DEF WriteDone, WriteFailed, Live
<1>1. req[r] \in Request
  BY <1>0 DEF IInv, LiveOwnsSlot
<1>2. bus' \subseteq Frame
  <2>1. CASE WriteDone(r)
    <3>1. tries[r] \in 0..NumTries
      BY DEF IInv, TypeOK
    <3>2. \A cc \in CCs :
            [ch |-> req[r].ch, seq |-> req[r].seq, kind |-> req[r].kind,
             rsSA |-> req[r].to, cc |-> cc, of |-> r, try |-> tries[r]] \in Frame
      BY <1>1, <3>1 DEF Request, Frame
    <3> QED
      BY <2>1, <3>2 DEF WriteDone, IInv, TypeOK
  <2>2. CASE WriteFailed(r)
    BY <2>2 DEF WriteFailed, IInv, TypeOK
  <2> QED
    BY <2>1, <2>2
<1>3. i2cTries' \in [Calls -> 0..(NumI2cTries - 1)]
  BY DEF WriteDone, WriteFailed, IInv, TypeOK
<1>4. pc' \in [Calls -> {"idle", "write", "wait", "done"}]
  BY DEF WriteDone, WriteFailed, IInv, TypeOK
<1>5. UNCHANGED <<up, issued, seqNum, rqSA, slot, req, tries, matched, reply>>
  BY DEF WriteDone, WriteFailed
<1>6. TypeOK'
  BY <1>2, <1>3, <1>4, <1>5 DEF IInv, TypeOK
<1>7. Live' = Live
  BY <1>0 DEF WriteDone, WriteFailed, IInv, TypeOK, Live
<1>8. \A q \in Calls : /\ (pc'[q] = "idle") <=> (pc[q] = "idle")
                       /\ (pc'[q] = "done") <=> (pc[q] = "done")
  BY <1>0 DEF WriteDone, WriteFailed, IInv, TypeOK
<1>9. CallsInOrder'
  BY <1>5, <1>8 DEF IInv, CallsInOrder
<1>10. LiveOwnsSlot' /\ ResponseFits'
  BY <1>5, <1>7 DEF IInv, LiveOwnsSlot, ResponseFits
<1>11. SlotsAccounted'
  BY <1>5, <1>7, <1>8 DEF IInv, TypeOK, SlotsAccounted
<1> QED
  BY <1>6, <1>9, <1>10, <1>11 DEF IInv

\* A call that ends with a reply and clears its entry preserves the invariant.
LEMMA ReleaseIInv ==
    ASSUME IInv, NEW r \in Calls, NEW rep \in Reply,
           up, pc[r] = "wait", makeRequestInvalid(r), Return(r, rep),
           rep.status = "success" => rep.frame = matched[r] /\ matched[r] # NoFrame,
           UNCHANGED <<up, issued, seqNum, rqSA, req, tries, i2cTries, matched, bus>>
    PROVE  IInv'
<1>0. r \in Live /\ req[r] \in Request /\ slot[req[r].ch][req[r].seq] = r
  BY DEF Live, IInv, LiveOwnsSlot
<1>1. req[r].ch \in Channels /\ req[r].seq \in Seqs
  BY <1>0 DEF Request
<1>2. TypeOK'
  <2>1. slot' \in [Channels -> [Seqs -> Calls \cup {NoCall}]]
    BY <1>1 DEF makeRequestInvalid, IInv, TypeOK
  <2>2. pc' \in [Calls -> {"idle", "write", "wait", "done"}]
    BY DEF Return, IInv, TypeOK
  <2>3. reply' \in [Calls -> Reply \cup {NoReply}]
    BY DEF Return, IInv, TypeOK
  <2> QED
    BY <2>1, <2>2, <2>3 DEF IInv, TypeOK
<1>3. CallsInOrder'
  BY DEF Return, IInv, TypeOK, CallsInOrder
<1>4. Live' = Live \ {r}
  BY DEF Return, IInv, TypeOK, Live
<1>5. LiveOwnsSlot'
  <2> SUFFICES ASSUME NEW p \in Live'
               PROVE  req[p] \in Request /\ slot'[req[p].ch][req[p].seq] = p
    BY DEF LiveOwnsSlot
  <2>1. p \in Live /\ p # r
    BY <1>4
  <2>2. req[p] \in Request /\ slot[req[p].ch][req[p].seq] = p
    BY <2>1 DEF IInv, LiveOwnsSlot
  <2>3. req[p].ch \in Channels /\ req[p].seq \in Seqs
    BY <2>2 DEF Request
  <2>4. ~(req[p].ch = req[r].ch /\ req[p].seq = req[r].seq)
    BY <1>0, <2>1, <2>2
  <2> QED
    BY <1>1, <2>2, <2>3, <2>4 DEF makeRequestInvalid, IInv, TypeOK
<1>6. SlotsAccounted'
  <2> SUFFICES ASSUME NEW d \in Channels, NEW t \in Seqs, slot'[d][t] # NoCall
               PROVE  /\ req[slot'[d][t]] \in Request
                      /\ req[slot'[d][t]].ch = d /\ req[slot'[d][t]].seq = t
                      /\ \/ slot'[d][t] \in Live'
                         \/ pc'[slot'[d][t]] = "done" /\ reply'[slot'[d][t]].status = "error"
    BY DEF SlotsAccounted
  <2>1. ~(d = req[r].ch /\ t = req[r].seq) /\ slot'[d][t] = slot[d][t]
    BY <1>1 DEF makeRequestInvalid, IInv, TypeOK
  <2>2. slot[d][t] \in Calls
    BY <2>1 DEF IInv, TypeOK
  <2>3. /\ req[slot[d][t]] \in Request
        /\ req[slot[d][t]].ch = d /\ req[slot[d][t]].seq = t
        /\ \/ slot[d][t] \in Live
           \/ pc[slot[d][t]] = "done" /\ reply[slot[d][t]].status = "error"
    BY <2>1 DEF IInv, SlotsAccounted
  <2>4. slot[d][t] # r
    BY <2>1, <2>3
  <2>5. pc'[slot[d][t]] = pc[slot[d][t]] /\ reply'[slot[d][t]] = reply[slot[d][t]]
    BY <2>2, <2>4 DEF Return, IInv, TypeOK
  <2> QED
    BY <1>4, <2>1, <2>3, <2>4, <2>5
<1>7. ResponseFits'
  BY <1>0 DEF Return, IInv, TypeOK, ResponseFits
<1> QED
  BY <1>2, <1>3, <1>5, <1>6, <1>7 DEF IInv

\* The end of a wait, by the timer, by a response or by an error, preserves the
\* invariant.
LEMMA TimerIInv ==
    ASSUME IInv, NEW r \in Calls, TimerDone(r) \/ TimerError(r)
    PROVE  IInv'
<1>0. up /\ pc[r] = "wait"
  BY DEF TimerDone, TimerError
<1>1. /\ StatusReply("timeout") \in Reply /\ StatusReply("timeout").status # "success"
      /\ StatusReply("error") \in Reply /\ StatusReply("error").status # "success"
  BY ReplyTypes DEF StatusReply, Failures
<1>2. CASE TimerError(r)
  BY <1>0, <1>1, <1>2, ReleaseIInv DEF TimerError
<1>3. CASE TimerDone(r) /\ matched[r] # NoFrame
  <2>1. matched[r] \in Frame
    BY <1>3 DEF IInv, TypeOK
  <2>2. /\ MatchedReply(matched[r]) \in Reply
        /\ MatchedReply(matched[r]).frame = matched[r]
    BY <2>1, ReplyTypes DEF MatchedReply
  <2> QED
    BY <1>0, <1>3, <2>2, ReleaseIInv DEF TimerDone
<1>4. CASE TimerDone(r) /\ matched[r] = NoFrame /\ tries[r] + 1 < NumTries
  <2>1. /\ tries' = [tries EXCEPT ![r] = @ + 1]
        /\ pc' = [pc EXCEPT ![r] = "write"]
        /\ UNCHANGED <<slot, reply, up, issued, seqNum, rqSA, req, i2cTries, matched, bus>>
    BY <1>4 DEF TimerDone
  <2>2. tries' \in [Calls -> 0..(NumTries - 1)]
    BY <1>4, <2>1 DEF IInv, TypeOK
  <2>3. TypeOK'
    BY <2>1, <2>2 DEF IInv, TypeOK
  <2>4. Live' = Live
    BY <1>0, <2>1 DEF IInv, TypeOK, Live
  <2>5. CallsInOrder'
    BY <1>0, <2>1 DEF IInv, TypeOK, CallsInOrder
  <2>6. LiveOwnsSlot' /\ ResponseFits'
    BY <2>1, <2>4 DEF IInv, LiveOwnsSlot, ResponseFits
  <2>7. SlotsAccounted'
    BY <1>0, <2>1, <2>4 DEF IInv, TypeOK, SlotsAccounted
  <2> QED
    BY <2>3, <2>5, <2>6, <2>7 DEF IInv
<1>5. CASE TimerDone(r) /\ matched[r] = NoFrame /\ tries[r] + 1 = NumTries
  BY <1>0, <1>1, <1>5, ReleaseIInv DEF TimerDone
<1> QED
  BY <1>2, <1>3, <1>4, <1>5 DEF TimerDone

\* A response from the bus preserves the invariant: it is stored in the request
\* of its own number, if the request's (netFn, LUN, cmd) agrees.
LEMMA ResponseIInv ==
    ASSUME IInv, NEW f \in bus, ResponseReceived(f)
    PROVE  IInv'
<1> DEFINE r == slot[f.ch][f.seq]
<1>1. f \in Frame /\ f.ch \in Channels /\ f.seq \in Seqs /\ f # NoFrame /\ up
  BY DEF IInv, TypeOK, Frame, ResponseReceived
<1>2. r \in Calls \cup {NoCall}
  BY <1>1 DEF IInv, TypeOK
<1>3. UNCHANGED <<up, issued, seqNum, rqSA, slot, pc, req, tries, i2cTries, reply>>
  BY DEF ResponseReceived
<1>4. bus' \subseteq Frame
  BY DEF ResponseReceived, IInv, TypeOK
<1>5. CASE r # NoCall /\ Matches(r, f)
  <2>1. matched' = [matched EXCEPT ![r] = f]
    BY <1>5 DEF ResponseReceived, responseMatch
  <2>2. r \in Calls /\ req[r] \in Request /\ Fits(f, req[r]) /\ pc[r] # "idle"
    BY <1>1, <1>2, <1>5 DEF IInv, SlotsAccounted, Matches, Fits, Live
  <2> HIDE DEF r
  <2>3. TypeOK'
    BY <1>1, <1>3, <1>4, <2>1, <2>2 DEF IInv, TypeOK
  <2>4. CallsInOrder'
    BY <1>3, <2>1, <2>2 DEF IInv, TypeOK, CallsInOrder
  <2>5. Live' = Live
    BY <1>3 DEF Live
  <2>6. LiveOwnsSlot' /\ SlotsAccounted'
    BY <1>3, <2>5 DEF IInv, LiveOwnsSlot, SlotsAccounted
  <2>7. ResponseFits'
    BY <1>3, <2>1, <2>2 DEF IInv, TypeOK, ResponseFits
  <2> QED
    BY <2>3, <2>4, <2>6, <2>7 DEF IInv
<1>6. CASE ~(r # NoCall /\ Matches(r, f))
  <2>1. matched' = matched
    BY <1>6 DEF ResponseReceived, responseMatch
  <2>2. Live' = Live
    BY <1>3 DEF Live
  <2> QED
    BY <1>3, <1>4, <2>1, <2>2
    DEF IInv, TypeOK, CallsInOrder, LiveOwnsSlot, SlotsAccounted, ResponseFits
<1> QED
  BY <1>5, <1>6

\* IInv is inductive.
LEMMA StepIInv == IInv /\ [Next]_vars => IInv'
<1> SUFFICES ASSUME IInv, [Next]_vars PROVE IInv'
  OBVIOUS
<1>1. CASE UNCHANGED vars
  BY <1>1 DEF vars, IInv, TypeOK, CallsInOrder, LiveOwnsSlot, SlotsAccounted,
              ResponseFits, Live
<1>2. ASSUME NEW r \in Calls, Call(r) PROVE IInv'
  BY <1>2, HandleRequestIInv, CrashIInv DEF Call
<1>3. ASSUME NEW r \in Calls, Step(r) PROVE IInv'
  BY <1>3, WriteIInv, TimerIInv DEF Step
<1>4. ASSUME NEW r \in Calls, TimerError(r) PROVE IInv'
  BY <1>4, TimerIInv
<1>5. CASE Restart
  BY <1>5, CrashIInv
<1>6. ASSUME NEW f \in bus, ResponseReceived(f) PROVE IInv'
  BY <1>6, ResponseIInv
<1> QED
  BY <1>1, <1>2, <1>3, <1>4, <1>5, <1>6 DEF Next

\* Every reachable state of the bridge satisfies the inductive invariant,
\* however many calls are interleaved, retried, lost or answered late.
THEOREM BridgeInvariant == Spec => []IInv
<1>1. Init => IInv
  BY InitIInv
<1>2. IInv /\ [Next]_vars => IInv'
  BY StepIInv
<1> QED
  BY <1>1, <1>2, PTL DEF Spec

\* Type correctness of the bridge: the retry counters of requestAdd stay within
\* their limits and seqNum within the table.
THEOREM BridgeTypeOK == Spec => []TypeOK
<1>1. IInv => TypeOK
  BY DEF IInv
<1> QED
  BY <1>1, BridgeInvariant, PTL

\* A call in progress is the entry of its own number in outstandingRequests: no
\* other call clears it (makeRequestInvalid) or is given its number (seqNumGet).
THEOREM BridgeLiveOwnsSlot == Spec => []LiveOwnsSlot
<1>1. IInv => LiveOwnsSlot
  BY DEF IInv
<1> QED
  BY <1>1, BridgeInvariant, PTL

\* Every entry of outstandingRequests is a call in progress or the request of a
\* call that was refused because its payload fits no frame.
THEOREM BridgeSlotsAccounted == Spec => []SlotsAccounted
<1>1. IInv => SlotsAccounted
  BY DEF IInv
<1> QED
  BY <1>1, BridgeInvariant, PTL

\* responseMatch: a response returned to a caller has the channel, the number and
\* the (netFn, LUN, cmd) of the caller's request.
THEOREM BridgeResponseFits == Spec => []ResponseFits
<1>1. IInv => ResponseFits
  BY DEF IInv
<1> QED
  BY <1>1, BridgeInvariant, PTL

\* A set of natural numbers that is not empty has a least element.
LEMMA LeastNat ==
    ASSUME NEW S \in SUBSET Nat, S # {}
    PROVE  \E i \in S : \A j \in S : i <= j
<1>1. PICK i \in S : \A j \in S : ~(<<j, i>> \in OpToRel(<, Nat))
  BY NatLessThanWellFounded, WFMin, Zenon
<1>2. \A x, y \in Nat : x < y => <<x, y>> \in OpToRel(<, Nat)
  BY DEF OpToRel
<1>3. \A j \in S : ~(j < i)
  BY <1>1, <1>2
<1>4. \A j \in S : i <= j
  BY <1>3
<1> QED
  BY <1>4

\* The numbers seqNumGet visits are the whole table, wherever it starts.
LEMMA VisitsAll ==
    ASSUME NEW a \in Seqs, NEW s \in Seqs
    PROVE  \E i \in 1..NumSeq : (a + i) % NumSeq = s
<1>0. a \in 0..(NumSeq - 1) /\ s \in 0..(NumSeq - 1) /\ NumSeq \in Nat \ {0}
  BY SizeAssumption DEF Seqs
<1>1. CASE s > a
  <2>1. s - a \in 1..NumSeq /\ a + (s - a) = s
    BY <1>0, <1>1
  <2>2. s % NumSeq = s
    BY <1>0
  <2> QED
    BY <2>1, <2>2
<1>2. CASE s <= a
  <2>1. (s + NumSeq) % NumSeq = s
    BY <1>0
  <2>2. PICK i \in 1..NumSeq : a + i = s + NumSeq
    BY <1>0, <1>2
  <2> QED
    BY <2>1, <2>2
<1> QED
  BY <1>0, <1>1, <1>2

\* seqNumGet fails only when the channel has no free number.
LEMMA SeqNumGetComplete ==
    ASSUME TypeOK, NEW c \in Channels, \A s \in Seqs : ~ seqNumGet(c, s)
    PROVE  \A s \in Seqs : slot[c][s] # NoCall
<1> SUFFICES ASSUME NEW s \in Seqs, slot[c][s] = NoCall PROVE FALSE
  OBVIOUS
<1> DEFINE F == {i \in 1..NumSeq : slot[c][(seqNum + i) % NumSeq] = NoCall}
<1>1. F # {}
  BY VisitsAll DEF TypeOK
<1>2. PICK i \in F : \A j \in F : i <= j
  <2>1. F \in SUBSET Nat
    OBVIOUS
  <2> HIDE DEF F
  <2> QED
    BY <1>1, <2>1, LeastNat
<1>3. (seqNum + i) % NumSeq \in Seqs
  BY <1>2 DEF TypeOK, Seqs
<1>4. \A j \in 1..(i - 1) : j \in 1..NumSeq /\ ~(i <= j)
  BY <1>2
<1>5. seqNumGet(c, (seqNum + i) % NumSeq)
  BY <1>2, <1>4 DEF seqNumGet
<1> QED
  BY <1>3, <1>5

\* Only the refusal of seqNumGet answers "busy".
LEMMA BusyIsFull == IInv /\ [Next]_vars => [BusyStep]_vars
<1> SUFFICES ASSUME IInv, NEW r \in Calls, NEW c \in Channels, NEW addr \in AddrArgs,
                    NEW k \in Kinds, NEW big \in Bigs,
                    ipmbHandleRequest(r, c, addr, k, big), reply'[r] = StatusReply("busy")
             PROVE  \A s \in Seqs : slot[c][s] # NoCall
  BY DEF BusyStep
<1>1. CASE ~ \E s \in Seqs : seqNumGet(c, s)
  BY <1>1, SeqNumGetComplete DEF IInv
<1>2. CASE \E s \in Seqs : seqNumGet(c, s)
  <2>1. StatusReply("error") # StatusReply("busy")
    BY DEF StatusReply
  <2>2. reply[r] = NoReply
    BY DEF IInv, CallsInOrder, ipmbHandleRequest, NewCall, TypeOK
  <2>3. StatusReply("busy") # NoReply
    BY ReplyTypes DEF Failures
  <2>4. reply'[r] \in {reply[r], StatusReply("error")}
    BY <1>2 DEF ipmbHandleRequest, Return, IInv, TypeOK
  <2> QED
    BY <2>1, <2>2, <2>3, <2>4
<1> QED
  BY <1>1, <1>2

\* sendRequest answers "busy" only when the table of the caller's channel is full,
\* however many numbers there are and wherever the shared counter stands.
THEOREM BridgeBusyOnlyWhenFull == Spec => BusyOnlyWhenFull
<1>1. IInv /\ [Next]_vars => [BusyStep]_vars
  BY BusyIsFull
<1> QED
  BY <1>1, BridgeInvariant, PTL DEF Spec, BusyOnlyWhenFull

\* What a step that leaves these variables alone leaves of the abstract state.
LEMMA SameAbstract ==
    /\ UNCHANGED <<up, slot>> => Lease' = Lease
    /\ UNCHANGED reply => Answers' = Answers
BY DEF Lease, Answers, AnswerOf

\* The abstract answers of the replies without a response.
LEMMA StatusAnswer ==
    ASSUME NEW st \in Failures
    PROVE  AnswerOf(StatusReply(st)) = <<st>>
<1>1. StatusReply(st) # NoReply
  BY ReplyTypes
<1>2. StatusReply(st).status = st /\ st # "success"
  BY DEF StatusReply, Failures, DBusError
<1> QED
  BY <1>1, <1>2 DEF AnswerOf

\* A reply to one call is an abstract answer to that call.
LEMMA ReturnAnswers ==
    ASSUME IInv, NEW r \in Calls, NEW rep, Return(r, rep)
    PROVE  /\ Phase' = [Phase EXCEPT ![r] = "done"]
           /\ Answers' = [Answers EXCEPT ![r] = AnswerOf(rep)]
<1>1. pc' = [pc EXCEPT ![r] = "done"] /\ reply' = [reply EXCEPT ![r] = rep]
  BY DEF Return
<1>2. Phase' = [Phase EXCEPT ![r] = "done"]
  BY <1>1 DEF IInv, TypeOK, Phase
<1>3. Answers' = [q \in Calls |-> AnswerOf(reply'[q])]
  BY DEF Answers, AnswerOf
<1>4. \A q \in Calls : reply'[q] = IF q = r THEN rep ELSE reply[q]
  BY <1>1 DEF IInv, TypeOK
<1>5. Answers' = [Answers EXCEPT ![r] = AnswerOf(rep)]
  BY <1>3, <1>4 DEF Answers
<1> QED
  BY <1>2, <1>5

\* Setting an entry of a running daemon's table is taking or giving back a number.
LEMMA LeaseSet ==
    ASSUME IInv, up, up', NEW c \in Channels, NEW s \in Seqs, NEW v,
           slot' = [slot EXCEPT ![c][s] = v]
    PROVE  Lease' = [Lease EXCEPT ![c][s] = v]
<1>1. \A d \in Channels, t \in Seqs :
        slot'[d][t] = IF d = c /\ t = s THEN v ELSE slot[d][t]
  BY DEF IInv, TypeOK
<1>2. Lease' = [d \in Channels |-> [t \in Seqs |-> slot'[d][t]]]
  BY DEF Lease
<1>3. Lease = [d \in Channels |-> [t \in Seqs |-> slot[d][t]]]
  BY DEF Lease
<1>4. [t \in Seqs |-> slot'[c][t]] = [[t \in Seqs |-> slot[c][t]] EXCEPT ![s] = v]
  BY <1>1
<1>5. \A d \in Channels :
        d # c => [t \in Seqs |-> slot'[d][t]] = [t \in Seqs |-> slot[d][t]]
  BY <1>1
<1>6. \A d \in Channels :
        Lease'[d] = IF d = c THEN [Lease[c] EXCEPT ![s] = v] ELSE Lease[d]
  BY <1>2, <1>3, <1>4, <1>5
<1>7. Lease' = [d \in Channels |-> Lease'[d]]
  BY <1>2
<1>8. [Lease EXCEPT ![c][s] = v] =
        [d \in Channels |-> IF d = c THEN [Lease[c] EXCEPT ![s] = v] ELSE Lease[d]]
  BY <1>3
<1> QED
  BY <1>6, <1>7, <1>8

\* ipmbHandleRequest is Accept, Refuse or Spoil.
LEMMA HandleRequestRefines ==
    ASSUME IInv, NEW r, NEW c \in ChannelArgs, NEW addr \in AddrArgs, NEW k \in Kinds,
           NEW big \in Bigs, ipmbHandleRequest(r, c, addr, k, big)
    PROVE  Rpc!Next
<1>0. r \in Calls /\ c \in Channels /\ pc[r] = "idle" /\ up /\ up'
  BY NewCallIsNew DEF ipmbHandleRequest
<1>1. Phase[r] = "idle"
  BY <1>0 DEF Phase
<1>2. CASE ~ \E s \in Seqs : seqNumGet(c, s)
  <2>1. Return(r, StatusReply("busy")) /\ UNCHANGED <<up, slot>>
    BY <1>2 DEF ipmbHandleRequest
  <2>2. \A s \in Seqs : slot[c][s] # NoCall
    BY <1>0, <1>2, SeqNumGetComplete DEF IInv
  <2>3. \A s \in Seqs : Lease[c][s] # NoCall
    BY <1>0, <2>2 DEF Lease
  <2>4. Rpc!Answer(r, "idle", <<"busy">>)
    BY <1>0, <1>1, <2>1, ReturnAnswers, StatusAnswer DEF Rpc!Answer, Failures
  <2>5. Rpc!Refuse(r)
    BY <1>0, <2>1, <2>3, <2>4, SameAbstract DEF Rpc!Refuse
  <2> QED
    BY <1>0, <2>5 DEF Rpc!Next
<1>3. CASE \E s \in Seqs : seqNumGet(c, s)
  <2>1. PICK s \in Seqs :
             /\ slot[c][s] = NoCall
             /\ slot' = [slot EXCEPT ![c][s] = r]
             /\ IF big
                THEN Return(r, StatusReply("error"))
                ELSE /\ pc' = [pc EXCEPT ![r] = "write"]
                     /\ UNCHANGED reply
    BY <1>3 DEF ipmbHandleRequest, seqNumGet
  <2>2. Lease[c][s] = NoCall
    BY <1>0, <2>1 DEF Lease
  <2>3. Lease' = [Lease EXCEPT ![c][s] = r]
    BY <1>0, <2>1, LeaseSet
  <2>4. Rpc!Take(r, c, s)
    BY <2>2, <2>3 DEF Rpc!Take
  <2>5. CASE big
    <3>1. Rpc!Answer(r, "idle", <<"error">>)
      BY <1>0, <1>1, <2>1, <2>5, ReturnAnswers, StatusAnswer DEF Rpc!Answer, Failures
    <3>2. Rpc!Spoil(r)
      BY <1>0, <2>4, <3>1 DEF Rpc!Spoil
    <3> QED
      BY <1>0, <3>2 DEF Rpc!Next
  <2>6. CASE ~big
    <3>1. Phase' = [Phase EXCEPT ![r] = "pending"]
      BY <1>0, <2>1, <2>6 DEF IInv, TypeOK, Phase
    <3>2. Rpc!Accept(r)
      BY <1>0, <1>1, <2>1, <2>4, <2>6, <3>1, SameAbstract DEF Rpc!Accept
    <3> QED
      BY <1>0, <3>2 DEF Rpc!Next
  <2> QED
    BY <2>5, <2>6
<1> QED
  BY <1>2, <1>3

\* The death of the daemon is Die, a call without it Fail, and its restart a
\* stuttering step.
LEMMA CrashRefines ==
    ASSUME IInv, NEW r, \/ \E c \in ChannelArgs : UnknownChannel(r, c)
                        \/ CallWhileDown(r)
                        \/ Restart
    PROVE  [Rpc!Next]_Rpc!vars
<1>0. AnswerOf(StatusReply(DBusError)) = <<"dbus_error">>
  BY StatusAnswer DEF Failures, DBusError
<1>1. ASSUME NEW c \in ChannelArgs, UnknownChannel(r, c) PROVE Rpc!Next
  <2> DEFINE Failed == {r} \cup {q \in Calls : Phase[q] = "pending"}
  <2>1. r \in Calls /\ pc[r] = "idle"
    BY <1>1, NewCallIsNew DEF UnknownChannel
  <2>2. \A q \in Calls : (q = r \/ q \in Live) <=> q \in Failed
    BY DEF Live, Phase, IInv, TypeOK
  <2>3. Phase[r] = "idle"
    BY <2>1 DEF Phase
  <2>4. \A q \in Calls : pc'[q] = IF q \in Failed THEN "done" ELSE pc[q]
    BY <1>1, <2>2 DEF UnknownChannel
  <2>5. Phase' = [q \in Calls |-> IF q \in Failed THEN "done" ELSE Phase[q]]
    BY <2>4 DEF Phase
  <2>6. \A q \in Calls : reply'[q] = IF q \in Failed THEN StatusReply(DBusError) ELSE reply[q]
    BY <1>1, <2>2 DEF UnknownChannel
  <2>7. Answers' = [q \in Calls |-> AnswerOf(reply'[q])]
    BY DEF Answers, AnswerOf
  <2>8. Answers' = [q \in Calls |-> IF q \in Failed THEN <<"dbus_error">> ELSE Answers[q]]
    BY <1>0, <2>6, <2>7 DEF Answers
  <2>9. Lease' = [d \in Channels |-> [s \in Seqs |-> NoCall]]
    BY <1>1 DEF UnknownChannel, Lease
  <2>10. Rpc!Die(r)
    BY <2>3, <2>5, <2>8, <2>9 DEF Rpc!Die
  <2> QED
    BY <2>1, <2>10 DEF Rpc!Next
<1>2. ASSUME CallWhileDown(r) PROVE Rpc!Next
  <2>1. r \in Calls /\ pc[r] = "idle"
    BY <1>2, NewCallIsNew DEF CallWhileDown
  <2>2. Phase[r] = "idle"
    BY <2>1 DEF Phase
  <2>3. Rpc!Answer(r, "idle", <<"dbus_error">>)
    BY <1>0, <1>2, <2>1, <2>2, ReturnAnswers DEF CallWhileDown, Rpc!Answer
  <2>4. Rpc!Fail(r)
    BY <1>2, <2>3, SameAbstract DEF CallWhileDown, Rpc!Fail
  <2> QED
    BY <2>1, <2>4 DEF Rpc!Next
<1>3. ASSUME Restart PROVE UNCHANGED Rpc!vars
  <2>1. Lease' = [c \in Channels |-> [s \in Seqs |-> NoCall]]
    BY <1>3 DEF Restart, Lease
  <2>2. Lease = [c \in Channels |-> [s \in Seqs |-> NoCall]]
    BY <1>3 DEF Restart, Lease
  <2>3. Phase' = Phase
    BY <1>3 DEF Restart, Phase
  <2> QED
    BY <1>3, <2>1, <2>2, <2>3, SameAbstract DEF Restart, Rpc!vars
<1> QED
  BY <1>1, <1>2, <1>3

\* A call that ends and clears its entry is Finish.
LEMMA ReleaseRefines ==
    ASSUME IInv, NEW r \in Calls, NEW rep \in Reply,
           up, pc[r] = "wait", makeRequestInvalid(r), Return(r, rep), up' = up,
           \/ rep = MatchedReply(matched[r]) /\ matched[r] # NoFrame
           \/ rep = StatusReply("timeout")
           \/ rep = StatusReply("error")
    PROVE  Rpc!Next
<1> DEFINE c == req[r].ch
           s == req[r].seq
<1>1. r \in Live /\ req[r] \in Request /\ slot[c][s] = r
  BY DEF Live, IInv, LiveOwnsSlot
<1>2. c \in Channels /\ s \in Seqs
  BY <1>1 DEF Request
<1>3. slot' = [slot EXCEPT ![c][s] = NoCall]
  BY DEF makeRequestInvalid
<1>4. AnswerOf(rep) \in {<<"success", c, s>>, <<"timeout">>, <<"error">>}
  <2>1. CASE rep = MatchedReply(matched[r]) /\ matched[r] # NoFrame
    <3>1. matched[r] \in Frame /\ matched[r].ch = c /\ matched[r].seq = s
      BY <2>1 DEF IInv, TypeOK, ResponseFits, Fits
    <3>2. rep # NoReply /\ rep.status = "success" /\ rep.frame = matched[r]
      BY <2>1 DEF MatchedReply
    <3> QED
      BY <3>1, <3>2 DEF AnswerOf
  <2>2. CASE rep = StatusReply("timeout") \/ rep = StatusReply("error")
    BY <2>2, StatusAnswer DEF Failures
  <2> QED
    BY <2>1, <2>2
<1> HIDE DEF c, s
<1>5. Lease' = [Lease EXCEPT ![c][s] = NoCall]
  BY <1>2, <1>3, LeaseSet
<1>6. Lease[c][s] = r
  BY <1>1, <1>2 DEF Lease
<1>7. Phase[r] = "pending"
  BY DEF Phase
<1>8. Rpc!Answer(r, "pending", AnswerOf(rep))
  BY <1>7, ReturnAnswers DEF Rpc!Answer
<1>9. Rpc!Finish(r)
  BY <1>2, <1>4, <1>5, <1>6, <1>8 DEF Rpc!Finish
<1> QED
  BY <1>9 DEF Rpc!Next

\* Every step of the bridge is a step of IpmbRpc or leaves it unchanged.
LEMMA StepRefines == IInv /\ [Next]_vars => [Rpc!Next]_Rpc!vars
<1> SUFFICES ASSUME IInv, [Next]_vars PROVE [Rpc!Next]_Rpc!vars
  OBVIOUS
<1>0. ASSUME UNCHANGED <<up, slot, reply>>, Phase' = Phase PROVE UNCHANGED Rpc!vars
  BY <1>0, SameAbstract DEF Rpc!vars
<1>1. CASE UNCHANGED vars
  BY <1>0, <1>1 DEF vars, Phase
<1>2. ASSUME NEW r \in Calls, Call(r) PROVE [Rpc!Next]_Rpc!vars
  BY <1>2, HandleRequestRefines, CrashRefines DEF Call
<1>3. ASSUME NEW r \in Calls, WriteDone(r) \/ WriteFailed(r) PROVE UNCHANGED Rpc!vars
  <2>1. Phase' = Phase
    BY <1>3 DEF WriteDone, WriteFailed, Phase, IInv, TypeOK
  <2> QED
    BY <1>0, <1>3, <2>1 DEF WriteDone, WriteFailed
<1>4. ASSUME NEW r \in Calls, TimerDone(r) \/ TimerError(r) PROVE [Rpc!Next]_Rpc!vars
  <2>0. StatusReply("timeout") \in Reply /\ StatusReply("error") \in Reply
    BY ReplyTypes DEF Failures
  <2>1. CASE TimerError(r)
    BY <2>0, <2>1, ReleaseRefines DEF TimerError
  <2>2. CASE TimerDone(r) /\ matched[r] # NoFrame
    <3>1. MatchedReply(matched[r]) \in Reply
      BY <2>2, ReplyTypes DEF IInv, TypeOK
    <3> QED
      BY <2>2, <3>1, ReleaseRefines DEF TimerDone
  <2>3. CASE TimerDone(r) /\ matched[r] = NoFrame /\ tries[r] + 1 < NumTries
    <3>1. Phase' = Phase
      BY <2>3 DEF TimerDone, Phase, IInv, TypeOK
    <3> QED
      BY <1>0, <2>3, <3>1 DEF TimerDone
  <2>4. CASE TimerDone(r) /\ matched[r] = NoFrame /\ tries[r] + 1 = NumTries
    BY <2>0, <2>4, ReleaseRefines DEF TimerDone
  <2> QED
    BY <1>4, <2>1, <2>2, <2>3, <2>4 DEF TimerDone
<1>5. CASE Restart
  BY <1>5, CrashRefines
<1>6. ASSUME NEW f \in bus, ResponseReceived(f) PROVE UNCHANGED Rpc!vars
  <2>1. Phase' = Phase
    BY <1>6 DEF ResponseReceived, Phase
  <2> QED
    BY <1>0, <1>6, <2>1 DEF ResponseReceived
<1> QED
  BY <1>1, <1>2, <1>3, <1>4, <1>5, <1>6 DEF Next, Step

\* The bridge implements IpmbRpc: sequence numbers are leased exclusively, given
\* back by their holder alone, and each call is answered at most once.
THEOREM BridgeImplementsRpc == Spec => RpcSpec
<1>1. Init => Rpc!Init
  BY DEF Init, Rpc!Init, Phase, Lease, Answers, AnswerOf
<1>2. IInv /\ [Next]_vars => [Rpc!Next]_Rpc!vars
  BY StepRefines
<1> QED
  BY <1>1, <1>2, BridgeInvariant, PTL DEF Spec, RpcSpec, Rpc!Spec

-----------------------------------------------------------------------------
(***************************************************************************)
(* AnswersOwnCall.  A number is drawn again only after the counter has     *)
(* gone all the way round the table, and one call moves it by at most one  *)
(* step for itself and one for every other call in progress.               *)
(***************************************************************************)
\* What is asked of the callers and the bus: payloads fit (an oversize one keeps
\* its entry for ever), no call ends the daemon (a new one counts from 0 while
\* old frames wait in the kernel), and an answer is not so late that the calls
\* made meanwhile can go round the table.  With the code's 64 numbers and one
\* client, ipmid, an answer may be late by 63 further calls.
AnswersInTime ==
    /\ Bigs \subseteq {FALSE}
    /\ ChannelArgs \subseteq Channels
    /\ MaxClients \in Nat /\ MaxLag \in Nat
    /\ (MaxLag - 1) * MaxClients < NumSeq

\* How far the counter has gone from t to s, within one round, and from t to where
\* it stands.
Gap(s, t) == IF t <= s THEN s - t ELSE s - t + NumSeq
Behind(t) == Gap(seqNum, t)

\* A call with a number whose answer may still be received.
Recent(q) == q <= issued /\ issued - q < MaxLag /\ req[q] \in Request

\* The counter has moved by at most MaxClients for every call since.
Spread == \A q \in Calls : Recent(q) => Behind(req[q].seq) <= (issued - q) * MaxClients

\* Nobody else has a recent call's number.
Unshared == \A q \in Calls : Recent(q) => slot[req[q].ch][req[q].seq] \in {q, NoCall}

\* Every entry of a table is a call in progress.
TableLive == \A c \in Channels, s \in Seqs : slot[c][s] # NoCall => slot[c][s] \in Live

\* A frame on the bus, and a response stored in a request, answer the call they say.
Answering(f, q) ==
    /\ q <= issued /\ req[q] \in Request
    /\ f.ch = req[q].ch /\ f.seq = req[q].seq /\ f.rsSA = req[q].to
FramesTrue == \A f \in bus : Answering(f, f.of)
MatchedOwn ==
    \A r \in Calls : matched[r] # NoFrame => matched[r].of = r /\ matched[r].rsSA = req[r].to

\* The invariant that AnswersOwnCall rests on, together with IInv.
ReuseInv ==
    /\ up /\ TableLive /\ Spread /\ Unshared /\ FramesTrue /\ MatchedOwn /\ AnswersOwnCall

\* The number seqNumGet looks at in its j-th turn.
LEMMA Turn ==
    ASSUME NEW a \in Seqs, NEW j \in 1..NumSeq
    PROVE  /\ (a + j) % NumSeq = IF a + j < NumSeq THEN a + j ELSE a + j - NumSeq
           /\ (a + j) % NumSeq \in Seqs
<1>1. CASE a + j < NumSeq
  BY <1>1 DEF Seqs
<1>2. CASE a + j >= NumSeq
  <2>1. PICK b \in 0..(NumSeq - 1) : a + j = b + NumSeq
    BY <1>2 DEF Seqs
  <2>2. (b + NumSeq) % NumSeq = b
    OBVIOUS
  <2> QED
    BY <1>2, <2>1, <2>2 DEF Seqs
<1> QED
  BY <1>1, <1>2 DEF Seqs

\* seqNumGet passes over at most as many numbers as there are calls in progress.
LEMMA ShortSkip ==
    ASSUME IInv, TableLive, up, NEW c \in Channels, NEW i \in 1..NumSeq,
           MaxClients \in Nat, Cardinality(Live) < MaxClients,
           \A j \in 1..(i - 1) : slot[c][(seqNum + j) % NumSeq] # NoCall
    PROVE  i <= MaxClients
<1> DEFINE J == 1..(i - 1)
           g == [j \in J |-> slot[c][(seqNum + j) % NumSeq]]
<1>1. \A j \in J : j \in 1..NumSeq /\ (seqNum + j) % NumSeq \in Seqs
  BY Turn DEF IInv, TypeOK
<1>2. g \in [J -> Live]
  BY <1>1 DEF TableLive
<1>3. \A j \in J : req[g[j]].seq = (seqNum + j) % NumSeq
  BY <1>1 DEF IInv, SlotsAccounted
<1>4. \A x, y \in J : g[x] = g[y] => x = y
  <2> SUFFICES ASSUME NEW x \in J, NEW y \in J, g[x] = g[y] PROVE x = y
    OBVIOUS
  <2>1. (seqNum + x) % NumSeq = (seqNum + y) % NumSeq
    BY <1>3
  <2>2. seqNum \in Seqs /\ x \in 1..NumSeq /\ y \in 1..NumSeq
    BY DEF IInv, TypeOK
  <2>3. /\ (seqNum + x) % NumSeq =
             IF seqNum + x < NumSeq THEN seqNum + x ELSE seqNum + x - NumSeq
        /\ (seqNum + y) % NumSeq =
             IF seqNum + y < NumSeq THEN seqNum + y ELSE seqNum + y - NumSeq
    BY <2>2, Turn
  <2> QED
    BY <2>1, <2>2, <2>3 DEF Seqs
<1>5. IsFiniteSet(J) /\ Cardinality(J) = i - 1
  <2>1. i - 1 \in Nat
    OBVIOUS
  <2> QED
    BY <2>1, FS_Interval
<1>6. IsFiniteSet(Live) /\ Cardinality(Live) \in Nat
  <2>1. IsFiniteSet(Calls)
    BY FS_Interval DEF Calls
  <2>2. Live \subseteq Calls
    BY DEF Live
  <2> QED
    BY <2>1, <2>2, FS_Subset, FS_CardinalityType
<1> HIDE DEF g, J
<1>7. ~(Cardinality(Live) < Cardinality(J))
  BY <1>2, <1>4, <1>5, <1>6, FS_PigeonHole
<1> QED
  BY <1>5, <1>6, <1>7

\* Products of naturals.
LEMMA Products ==
    ASSUME NEW m \in Nat, NEW n \in Nat, NEW k \in Nat
    PROVE  /\ (m + 1) * k = m * k + k
           /\ m * k \in Nat
           /\ m <= n => m * k <= n * k
<1>1. (m + 1) * k = m * k + k /\ m * k \in Nat
  OBVIOUS
<1>2. ASSUME m <= n PROVE m * k <= n * k
  <2>1. PICK e \in Nat : n = m + e
    BY <1>2
  <2>2. (m + e) * k = m * k + e * k /\ m * k \in Nat /\ e * k \in Nat
    OBVIOUS
  <2> QED
    BY <2>1, <2>2
<1> QED
  BY <1>1, <1>2

\* A draw moves the counter on, by no full round since a recent call's draw.
LEMMA DrawMoves ==
    ASSUME NEW a \in Seqs, NEW t \in Seqs, NEW s \in Seqs, NEW i \in 1..NumSeq,
           s = (a + i) % NumSeq, Gap(a, t) + i < NumSeq
    PROVE  Gap(s, t) = Gap(a, t) + i /\ s # t
<1>1. s = IF a + i < NumSeq THEN a + i ELSE a + i - NumSeq
  BY Turn
<1> QED
  BY <1>1 DEF Seqs, Gap

\* A number that is drawn is the number of no recent call.
LEMMA DrawSpread ==
    ASSUME AnswersInTime, IInv, ReuseInv, NEW c \in Channels, NEW s \in Seqs,
           seqNumGet(c, s), Cardinality(Live) < MaxClients,
           NEW q \in Calls, Recent(q), issued + 1 - q < MaxLag
    PROVE  Gap(s, req[q].seq) <= (issued + 1 - q) * MaxClients /\ s # req[q].seq
<1>1. PICK i \in 1..NumSeq :
        /\ s = (seqNum + i) % NumSeq
        /\ \A j \in 1..(i - 1) : slot[c][(seqNum + j) % NumSeq] # NoCall
  BY DEF seqNumGet
<1>2. i <= MaxClients
  BY <1>1, ShortSkip DEF AnswersInTime, ReuseInv
<1>3. PICK m : m = issued - q
  OBVIOUS
<1>4. m \in Nat /\ m + 1 \in Nat /\ MaxLag - 1 \in Nat /\ m + 1 <= MaxLag - 1
      /\ MaxClients \in Nat /\ NumSeq \in Nat /\ issued + 1 - q = m + 1
  BY <1>3 DEF Recent, IInv, TypeOK, Calls, AnswersInTime
<1>5. PICK t : t = req[q].seq
  OBVIOUS
<1>6. t \in Seqs /\ seqNum \in Seqs
  BY <1>5 DEF Recent, Request, IInv, TypeOK
<1>7. PICK d : d = Gap(seqNum, t)
  OBVIOUS
<1>8. d \in Nat
  BY <1>6, <1>7 DEF Seqs, Gap
<1>9. d <= m * MaxClients
  BY <1>3, <1>5, <1>7 DEF ReuseInv, Spread, Behind
<1>10. PICK p : p = m * MaxClients
  OBVIOUS
<1>11. PICK w : w = (MaxLag - 1) * MaxClients
  OBVIOUS
<1>12. p \in Nat /\ (m + 1) * MaxClients = p + MaxClients
  BY <1>4, <1>10, Products
<1>13. (m + 1) * MaxClients <= w
  BY <1>4, <1>11, Products
<1>14. w < NumSeq
  BY <1>11 DEF AnswersInTime
<1>15. d + i <= p + MaxClients /\ p + MaxClients < NumSeq
  <2>1. d <= p /\ p + MaxClients <= w
    BY <1>9, <1>10, <1>12, <1>13
  <2>2. w \in Int
    BY <1>4, <1>11
  <2> QED
    BY <1>2, <1>4, <1>8, <1>12, <1>14, <2>1, <2>2
<1>16. Gap(s, t) = d + i /\ s # t
  <2>1. d + i < NumSeq
    BY <1>4, <1>8, <1>12, <1>15
  <2> QED
    BY <1>1, <1>6, <1>7, <2>1, DrawMoves
<1> QED
  BY <1>4, <1>5, <1>12, <1>15, <1>16

\* ipmbHandleRequest keeps the invariant.
LEMMA HandleRequestReuse ==
    ASSUME AnswersInTime, IInv, ReuseInv, NEW r, NEW c \in ChannelArgs, NEW addr \in AddrArgs,
           NEW k \in Kinds, NEW big \in Bigs, ipmbHandleRequest(r, c, addr, k, big)
    PROVE  ReuseInv'
<1>0. /\ r \in Calls /\ r = issued + 1 /\ issued' = r /\ c \in Channels /\ up /\ up' = up
      /\ pc[r] = "idle" /\ req[r] = NoRequest /\ matched[r] = NoFrame
      /\ r \notin Live /\ issued \in Nat /\ issued' \in Nat
      /\ Cardinality(Live) < MaxClients
      /\ UNCHANGED <<matched, bus>>
  BY NewCallIsNew DEF ipmbHandleRequest, NewCall, IInv, TypeOK
<1>1. \A q \in Calls : q \in Int
  BY DEF Calls
<1>2. MaxClients \in Nat /\ MaxLag \in Nat
  BY DEF AnswersInTime
<1>3. CASE /\ Return(r, StatusReply("busy"))
           /\ UNCHANGED <<seqNum, slot, req>>
  <2>1. StatusReply("busy").status # "success"
    BY DEF StatusReply
  <2>2. \A q \in Calls : Recent(q)' => Recent(q)
    BY <1>0, <1>1, <1>2, <1>3 DEF Recent
  <2>3. Live' = Live
    BY <1>0, <1>3 DEF IInv, TypeOK, Live, Return
  <2>4. Unshared' /\ TableLive'
    BY <1>3, <2>2, <2>3 DEF ReuseInv, Unshared, TableLive
  <2>5. ASSUME NEW q \in Calls, Recent(q)'
        PROVE  Behind(req[q].seq)' <= (issued' - q) * MaxClients
    <3>1. Behind(req[q].seq)' = Behind(req[q].seq)
      BY <1>3 DEF Behind
    <3>2. Behind(req[q].seq) <= (issued - q) * MaxClients /\ Recent(q)
      BY <2>2, <2>5 DEF ReuseInv, Spread
    <3>3. Behind(req[q].seq) \in Int
      BY <3>2 DEF Behind, Gap, Recent, Request, Seqs, IInv, TypeOK
    <3>4. (issued - q) * MaxClients \in Nat
          /\ (issued' - q) * MaxClients = (issued - q) * MaxClients + MaxClients
      <4>1. issued - q \in Nat /\ issued' - q = (issued - q) + 1
        BY <1>0, <1>1, <3>2 DEF Recent
      <4> QED
        BY <1>2, <4>1, Products
    <3> QED
      BY <1>2, <3>1, <3>2, <3>3, <3>4
  <2>6. Spread'
    BY <1>3, <2>5 DEF Spread
  <2>7. FramesTrue' /\ MatchedOwn'
    BY <1>0, <1>3 DEF ReuseInv, FramesTrue, MatchedOwn, Answering, IInv, TypeOK, Frame, Calls
  <2>8. AnswersOwnCall'
    BY <1>0, <1>3, <2>1 DEF ReuseInv, AnswersOwnCall, Return, IInv, TypeOK
  <2> QED
    BY <1>0, <2>4, <2>6, <2>7, <2>8 DEF ReuseInv
<1>4. CASE \E s \in Seqs :
             /\ seqNumGet(c, s)
             /\ seqNum' = s
             /\ slot' = [slot EXCEPT ![c][s] = r]
             /\ req' = [req EXCEPT ![r] = [ch |-> c, to |-> rqSA'[c], kind |-> k, seq |-> s]]
             /\ pc' = [pc EXCEPT ![r] = "write"]
             /\ UNCHANGED reply
  <2>0. PICK s \in Seqs :
             /\ seqNumGet(c, s)
             /\ seqNum' = s
             /\ slot' = [slot EXCEPT ![c][s] = r]
             /\ req' = [req EXCEPT ![r] = [ch |-> c, to |-> rqSA'[c], kind |-> k, seq |-> s]]
             /\ pc' = [pc EXCEPT ![r] = "write"]
             /\ UNCHANGED reply
    BY <1>4
  <2> DEFINE b == [ch |-> c, to |-> rqSA'[c], kind |-> k, seq |-> s]
  <2>1. b.ch = c /\ b.seq = s /\ req' = [req EXCEPT ![r] = b]
    BY <2>0
  <2> HIDE DEF b
  <2>2. /\ req'[r] = b /\ \A q \in Calls : q # r => req'[q] = req[q]
        /\ slot'[c][s] = r
        /\ \A d \in Channels, t \in Seqs : <<d, t>> # <<c, s>> => slot'[d][t] = slot[d][t]
    BY <1>0, <2>0, <2>1 DEF IInv, TypeOK
  <2>3. \A q \in Calls : Recent(q)' /\ q # r => Recent(q) /\ issued + 1 - q < MaxLag
    <3> SUFFICES ASSUME NEW q \in Calls, Recent(q)', q # r
                 PROVE  Recent(q) /\ issued + 1 - q < MaxLag
      OBVIOUS
    <3>1. q <= issued' /\ issued' - q < MaxLag /\ req[q] \in Request
      BY <2>2 DEF Recent
    <3>2. issued' = issued + 1 /\ r = issued + 1 /\ issued \in Nat /\ q \in Int
      BY <1>0, <1>1
    <3> QED
      BY <1>2, <3>1, <3>2 DEF Recent
  <2>4. Live' = Live \cup {r}
    BY <1>0, <2>0 DEF IInv, TypeOK, Live
  <2>5. TableLive'
    BY <2>2, <2>4 DEF ReuseInv, TableLive
  <2>6. ASSUME NEW q \in Calls, Recent(q)', q # r
        PROVE  /\ Behind(req[q].seq)' <= (issued' - q) * MaxClients
               /\ slot'[req'[q].ch][req'[q].seq] \in {q, NoCall}
    <3>1. Gap(s, req[q].seq) <= (issued + 1 - q) * MaxClients /\ s # req[q].seq
      BY <1>0, <2>0, <2>3, <2>6, DrawSpread
    <3>2. req'[q] = req[q] /\ req[q].ch \in Channels /\ req[q].seq \in Seqs
      BY <2>2, <2>3, <2>6 DEF Recent, Request
    <3>3. Behind(req[q].seq)' = Gap(s, req[q].seq)
      BY <2>0, <3>2 DEF Behind
    <3>4. slot'[req'[q].ch][req'[q].seq] = slot[req[q].ch][req[q].seq]
      BY <2>2, <3>1, <3>2
    <3>5. slot[req[q].ch][req[q].seq] \in {q, NoCall}
      BY <2>3, <2>6 DEF ReuseInv, Unshared
    <3>6. issued' - q = issued + 1 - q
      BY <1>0
    <3>7. Behind(req[q].seq)' <= (issued' - q) * MaxClients
      BY <3>1, <3>3, <3>6, Zenon
    <3> QED
      BY <3>4, <3>5, <3>7, Zenon
  <2>7. Behind(req[r].seq)' = 0 /\ (issued' - r) * MaxClients = 0
        /\ slot'[req'[r].ch][req'[r].seq] = r
    <3>1. s - s = 0 /\ s <= s
      BY DEF Seqs
    <3>2. issued' - r = 0 /\ 0 * MaxClients = 0
      BY <1>0, <1>2
    <3> QED
      BY <2>0, <2>1, <2>2, <3>1, <3>2 DEF Behind, Gap
  <2>8. Spread' /\ Unshared'
    BY <2>6, <2>7 DEF Spread, Unshared
  <2>9. FramesTrue' /\ MatchedOwn'
    <3>1. ASSUME NEW f \in bus PROVE Answering(f, f.of)'
      <4>1. f.of \in Calls /\ Answering(f, f.of)
        BY DEF ReuseInv, FramesTrue, IInv, TypeOK, Frame
      <4>2. f.of # r /\ f.of <= issued'
        <5>1. issued' = issued + 1 /\ r = issued + 1 /\ issued \in Nat
          BY <1>0, <1>1
        <5>2. f.of <= issued /\ f.of \in Int
          BY <4>1 DEF Answering, Calls
        <5> QED
          BY <5>1, <5>2
      <4>3. req'[f.of] = req[f.of]
        BY <2>2, <4>1, <4>2
      <4> QED
        BY <4>1, <4>2, <4>3 DEF Answering
    <3>2. FramesTrue'
      BY <1>0, <3>1 DEF FramesTrue
    <3>3. MatchedOwn'
      BY <1>0, <2>2 DEF ReuseInv, MatchedOwn
    <3> QED
      BY <3>2, <3>3
  <2>10. AnswersOwnCall'
    <3>1. reply[r] = NoReply
      BY <1>0 DEF IInv, CallsInOrder
    <3> QED
      BY <2>0, <2>2, <3>1 DEF ReuseInv, AnswersOwnCall
  <2> QED
    BY <1>0, <2>5, <2>8, <2>9, <2>10 DEF ReuseInv
<1> QED
  BY <1>3, <1>4 DEF ipmbHandleRequest, AnswersInTime

\* A step that makes no call: entries are cleared, never set.
LEMMA KeptReuse ==
    ASSUME IInv, ReuseInv, UNCHANGED <<up, issued, seqNum, req>>,
           \A c \in Channels, s \in Seqs : slot'[c][s] \in {slot[c][s], NoCall}
    PROVE  Spread' /\ Unshared'
<1>1. \A q \in Calls : Recent(q)' <=> Recent(q)
  BY DEF Recent
<1>2. Spread'
  BY <1>1 DEF ReuseInv, Spread, Behind
<1>3. \A q \in Calls : Recent(q) => req[q].ch \in Channels /\ req[q].seq \in Seqs
  BY DEF Recent, Request
<1>4. Unshared'
  BY <1>1, <1>3 DEF ReuseInv, Unshared
<1> QED
  BY <1>2, <1>4

\* Sending a request: the frame that answers it is this call's.
LEMMA WriteReuse ==
    ASSUME IInv, ReuseInv, NEW r \in Calls, WriteDone(r) \/ WriteFailed(r)
    PROVE  ReuseInv'
<1>0. r \in Live /\ req[r] \in Request /\ r <= issued
  BY DEF WriteDone, WriteFailed, Live, IInv, LiveOwnsSlot, CallsInOrder, Calls, TypeOK
<1>1. UNCHANGED <<up, issued, seqNum, rqSA, slot, req, tries, matched, reply>>
  BY DEF WriteDone, WriteFailed
<1>2. Live' = Live
  BY <1>0 DEF WriteDone, WriteFailed, IInv, TypeOK, Live
<1>3. Spread' /\ Unshared'
  BY <1>1, KeptReuse
<1>4. TableLive' /\ MatchedOwn' /\ AnswersOwnCall'
  BY <1>1, <1>2 DEF ReuseInv, TableLive, MatchedOwn, AnswersOwnCall
<1>5. FramesTrue'
  <2>1. ASSUME NEW f \in bus' PROVE Answering(f, f.of)
    <3>1. CASE f \in bus
      BY <3>1 DEF ReuseInv, FramesTrue
    <3>2. CASE f \notin bus
      <4>1. \E cc \in CCs : f = [ch |-> req[r].ch, seq |-> req[r].seq, kind |-> req[r].kind,
                                 rsSA |-> req[r].to, cc |-> cc, of |-> r, try |-> tries[r]]
        BY <2>1, <3>2 DEF WriteDone, WriteFailed
      <4> QED
        BY <1>0, <4>1 DEF Answering
    <3> QED
      BY <3>1, <3>2
  <2> QED
    BY <1>1, <2>1 DEF FramesTrue, Answering
<1> QED
  BY <1>1, <1>3, <1>4, <1>5 DEF ReuseInv

\* The end of a call, or of one transmission.
LEMMA ReleaseReuse ==
    ASSUME IInv, ReuseInv, NEW r \in Calls, NEW rep \in Reply,
           pc[r] = "wait", makeRequestInvalid(r), Return(r, rep),
           rep.status = "success" => rep.frame = matched[r] /\ matched[r] # NoFrame,
           UNCHANGED <<up, issued, seqNum, rqSA, req, tries, i2cTries, matched, bus>>
    PROVE  ReuseInv'
<1>0. /\ r \in Live /\ req[r] \in Request /\ slot[req[r].ch][req[r].seq] = r
      /\ req[r].ch \in Channels /\ req[r].seq \in Seqs
  BY DEF Live, IInv, LiveOwnsSlot, Request
<1>1. /\ slot'[req[r].ch][req[r].seq] = NoCall
      /\ \A c \in Channels, s \in Seqs :
           <<c, s>> # <<req[r].ch, req[r].seq>> => slot'[c][s] = slot[c][s]
  BY <1>0 DEF makeRequestInvalid, IInv, TypeOK
<1>2. Live' = Live \ {r}
  BY DEF Live, Return, IInv, TypeOK
<1>3. \A c \in Channels, s \in Seqs : slot'[c][s] \in {slot[c][s], NoCall}
  BY <1>1
<1>4. Spread' /\ Unshared'
  BY <1>3, KeptReuse
<1>5. TableLive'
  <2> SUFFICES ASSUME NEW c \in Channels, NEW s \in Seqs, slot'[c][s] # NoCall
               PROVE  slot'[c][s] \in Live'
    BY DEF TableLive
  <2>1. slot'[c][s] = slot[c][s] /\ <<c, s>> # <<req[r].ch, req[r].seq>>
    BY <1>1
  <2>2. slot[c][s] \in Live /\ req[slot[c][s]].ch = c /\ req[slot[c][s]].seq = s
    BY <2>1 DEF ReuseInv, TableLive, IInv, SlotsAccounted
  <2> QED
    BY <1>2, <2>1, <2>2
<1>6. FramesTrue' /\ MatchedOwn'
  BY DEF ReuseInv, FramesTrue, MatchedOwn, Answering
<1>7. AnswersOwnCall'
  <2>1. reply' = [reply EXCEPT ![r] = rep]
    BY DEF Return
  <2>2. rep.status = "success" => rep.frame.of = r /\ rep.frame.rsSA = req[r].to
    BY DEF ReuseInv, MatchedOwn
  <2> QED
    BY <2>1, <2>2 DEF ReuseInv, AnswersOwnCall, IInv, TypeOK
<1> QED
  BY <1>4, <1>5, <1>6, <1>7 DEF ReuseInv

\* The timer: the call returns its response, is written again or gives up.
LEMMA TimerReuse ==
    ASSUME IInv, ReuseInv, NEW r \in Calls, TimerDone(r) \/ TimerError(r)
    PROVE  ReuseInv'
<1>0. pc[r] = "wait"
  BY DEF TimerDone, TimerError
<1>1. /\ StatusReply("timeout") \in Reply /\ StatusReply("timeout").status # "success"
      /\ StatusReply("error") \in Reply /\ StatusReply("error").status # "success"
  BY ReplyTypes DEF StatusReply, Failures
<1>2. CASE TimerError(r)
  BY <1>0, <1>1, <1>2, ReleaseReuse DEF TimerError
<1>3. CASE TimerDone(r) /\ matched[r] # NoFrame
  <2>1. matched[r] \in Frame
    BY <1>3 DEF IInv, TypeOK
  <2>2. /\ MatchedReply(matched[r]) \in Reply
        /\ MatchedReply(matched[r]).frame = matched[r]
    BY <2>1, ReplyTypes DEF MatchedReply
  <2> QED
    BY <1>0, <1>3, <2>2, ReleaseReuse DEF TimerDone
<1>4. CASE TimerDone(r) /\ matched[r] = NoFrame /\ tries[r] + 1 < NumTries
  <2>1. /\ pc' = [pc EXCEPT ![r] = "write"]
        /\ UNCHANGED <<slot, reply, up, issued, seqNum, rqSA, req, i2cTries, matched, bus>>
    BY <1>4 DEF TimerDone
  <2>2. Live' = Live
    BY <1>0, <2>1 DEF IInv, TypeOK, Live
  <2>3. Spread' /\ Unshared'
    BY <2>1, KeptReuse
  <2> QED
    BY <2>1, <2>2, <2>3
    DEF ReuseInv, TableLive, FramesTrue, Answering, MatchedOwn, AnswersOwnCall
<1>5. CASE TimerDone(r) /\ matched[r] = NoFrame /\ tries[r] + 1 = NumTries
  BY <1>0, <1>1, <1>5, ReleaseReuse DEF TimerDone
<1> QED
  BY <1>2, <1>3, <1>4, <1>5 DEF TimerDone

\* A response that is received finds its own call under its number, or nobody.
LEMMA ResponseReuse ==
    ASSUME IInv, ReuseInv, NEW f \in bus, ResponseReceived(f)
    PROVE  ReuseInv'
<1>1. UNCHANGED <<up, issued, seqNum, rqSA, slot, pc, req, tries, i2cTries, reply>>
      /\ bus' \subseteq bus
  BY DEF ResponseReceived
<1>2. f.of \in Calls /\ Answering(f, f.of)
  BY DEF ReuseInv, FramesTrue, IInv, TypeOK, Frame
<1>3. Recent(f.of)
  BY <1>2 DEF Recent, Answering, ResponseReceived
<1>4. slot[f.ch][f.seq] \in {f.of, NoCall}
  BY <1>2, <1>3 DEF ReuseInv, Unshared, Answering
<1>5. matched' = matched \/ matched' = [matched EXCEPT ![f.of] = f]
  BY <1>4 DEF ResponseReceived, responseMatch
<1>6. MatchedOwn'
  BY <1>1, <1>2, <1>5 DEF ReuseInv, MatchedOwn, Answering, IInv, TypeOK
<1>7. Live' = Live
  BY <1>1 DEF Live
<1>8. Spread' /\ Unshared'
  BY <1>1, KeptReuse
<1>9. TableLive' /\ FramesTrue' /\ AnswersOwnCall'
  BY <1>1, <1>7 DEF ReuseInv, TableLive, FramesTrue, Answering, AnswersOwnCall
<1> QED
  BY <1>1, <1>6, <1>8, <1>9 DEF ReuseInv

\* Every step keeps the invariant.
LEMMA StepReuse ==
    ASSUME AnswersInTime
    PROVE  IInv /\ ReuseInv /\ [Next]_vars => ReuseInv'
<1> SUFFICES ASSUME IInv, ReuseInv, [Next]_vars PROVE ReuseInv'
  OBVIOUS
<1>1. CASE UNCHANGED vars
  BY <1>1 DEF vars, ReuseInv, TableLive, Live, Spread, Behind, Gap, Recent, Unshared, FramesTrue,
              Answering, MatchedOwn, AnswersOwnCall
<1>2. ASSUME NEW r \in Calls, Call(r) PROVE ReuseInv'
  <2>1. ASSUME NEW c \in ChannelArgs, UnknownChannel(r, c) PROVE FALSE
    BY <2>1 DEF UnknownChannel, AnswersInTime
  <2>2. ~CallWhileDown(r)
    BY DEF CallWhileDown, ReuseInv
  <2> QED
    BY <1>2, <2>1, <2>2, HandleRequestReuse DEF Call
<1>3. ASSUME NEW r \in Calls, Step(r) PROVE ReuseInv'
  BY <1>3, WriteReuse, TimerReuse DEF Step
<1>4. ASSUME NEW r \in Calls, TimerError(r) PROVE ReuseInv'
  BY <1>4, TimerReuse
<1>5. ~Restart
  BY DEF Restart, ReuseInv
<1>6. ASSUME NEW f \in bus, ResponseReceived(f) PROVE ReuseInv'
  BY <1>6, ResponseReuse
<1> QED
  BY <1>1, <1>2, <1>3, <1>4, <1>5, <1>6 DEF Next

\* It holds initially.
LEMMA InitReuse == Init => ReuseInv
<1> SUFFICES ASSUME Init PROVE ReuseInv
  OBVIOUS
<1>1. NoRequest \notin Request
  OBVIOUS
<1>2. \A q \in Calls : ~Recent(q)
  BY <1>1 DEF Init, Recent
<1> QED
  BY <1>2 DEF Init, ReuseInv, TableLive, Spread, Unshared, FramesTrue, MatchedOwn,
              AnswersOwnCall

\* A successful call got the answer to its own request, from the board it was sent
\* to, however the calls of several clients and channels interleave, are retried
\* and time out, if answers are late by fewer calls than AnswersInTime says.
THEOREM BridgeAnswersOwnCall ==
    ASSUME AnswersInTime
    PROVE  Spec => []AnswersOwnCall
<1>1. Init => IInv /\ ReuseInv
  BY InitIInv, InitReuse
<1>2. IInv /\ ReuseInv /\ [Next]_vars => IInv' /\ ReuseInv'
  BY StepIInv, StepReuse
<1>3. ReuseInv => AnswersOwnCall
  BY DEF ReuseInv
<1> QED
  BY <1>1, <1>2, <1>3, PTL DEF Spec

-----------------------------------------------------------------------------
(***************************************************************************)
(* The retries of requestAdd end.  What EveryCallReturns needs besides     *)
(* fairness: a measure of what a call has still to do that its own steps   *)
(* decrease and that no other step increases.                              *)
(***************************************************************************)
\* Steps that a call may still take: every transmission left, the present one
\* included, has NumI2cTries writes and a wait.
StepsLeft(r) ==
    LET all == (NumTries - tries[r]) * (NumI2cTries + 1)
    IN  IF pc[r] = "write" THEN all - i2cTries[r]
        ELSE IF pc[r] = "wait" THEN all - NumI2cTries
        ELSE 0

\* A step of call r brings it nearer to its end, and no step takes it away from it.
Nearer(r) ==
    /\ pc[r] # "idle" => StepsLeft(r)' <= StepsLeft(r)
    /\ Step(r) => StepsLeft(r)' < StepsLeft(r)
RetryStep == \A r \in Calls : Nearer(r)

\* The transmissions left, as a number.
LEMMA SendsLeft ==
    ASSUME TypeOK, NEW r \in Calls
    PROVE  /\ NumTries - tries[r] \in Nat /\ NumTries - tries[r] >= 1
           /\ NumTries - tries[r] <= NumTries
           /\ NumI2cTries \in Nat /\ i2cTries[r] \in Nat /\ i2cTries[r] < NumI2cTries
  BY DEF TypeOK

\* A call in progress has a step left, and at most as many as all transmissions
\* have; any other has none.
LEMMA StepsLeftBounds ==
    ASSUME TypeOK, NEW r \in Calls
    PROVE  /\ r \in Live => StepsLeft(r) \in 1..(NumTries * (NumI2cTries + 1))
           /\ r \notin Live => StepsLeft(r) = 0
<1>1. PICK m \in Nat : NumTries - tries[r] = m + 1
  BY SendsLeft
<1>2. PICK k \in Nat : k = NumI2cTries + 1
  BY SendsLeft
<1>3. m + 1 <= NumTries /\ NumTries \in Nat
  BY <1>1, SendsLeft
<1>4. /\ (NumTries - tries[r]) * (NumI2cTries + 1) = (m + 1) * k
      /\ NumTries * (NumI2cTries + 1) = NumTries * k
  BY <1>1, <1>2
<1>5. PICK a, b : a = (m + 1) * k /\ b = NumTries * k
  OBVIOUS
<1>6. PICK c : c = m * k
  OBVIOUS
<1>7. a = c + k /\ c \in Nat /\ a <= b /\ b \in Int /\ a \in Int
  BY <1>3, <1>5, <1>6, Products, m + 1 \in Nat
<1>8. /\ pc[r] = "write" => StepsLeft(r) = a - i2cTries[r]
      /\ pc[r] = "wait" => StepsLeft(r) = a - NumI2cTries
      /\ pc[r] \notin {"write", "wait"} => StepsLeft(r) = 0
  BY <1>4, <1>5 DEF StepsLeft
<1>9. NumI2cTries \in Nat /\ i2cTries[r] \in Nat /\ i2cTries[r] < NumI2cTries
  BY SendsLeft
<1>10. a - i2cTries[r] \in 1..b /\ a - NumI2cTries \in 1..b
  BY <1>2, <1>7, <1>9
<1> QED
  BY <1>4, <1>5, <1>8, <1>10 DEF Live

\* Every step of a call takes one of the steps left to it.
LEMMA StepDecreases ==
    ASSUME TypeOK, TypeOK', NEW r \in Calls, Step(r)
    PROVE  StepsLeft(r)' < StepsLeft(r)
<1>1. PICK m \in Nat : NumTries - tries[r] = m + 1
  BY SendsLeft
<1>2. PICK k \in Nat : k = NumI2cTries + 1
  BY SendsLeft
<1>3. PICK c \in Nat : c = m * k
  BY Products
<1>4. PICK a \in Nat : a = c + k /\ (NumTries - tries[r]) * (NumI2cTries + 1) = a
  BY <1>1, <1>2, <1>3, Products
<1>5. NumI2cTries \in Nat /\ i2cTries[r] \in Nat /\ i2cTries[r] < NumI2cTries
  BY SendsLeft
<1>6. /\ pc[r] = "write" => StepsLeft(r) = a - i2cTries[r]
      /\ pc[r] = "wait" => StepsLeft(r) = a - NumI2cTries
  BY <1>4 DEF StepsLeft
<1>7. CASE UNCHANGED tries
  <2>1. /\ pc'[r] = "write" => StepsLeft(r)' = a - i2cTries'[r]
        /\ pc'[r] = "wait" => StepsLeft(r)' = a - NumI2cTries
        /\ pc'[r] = "done" => StepsLeft(r)' = 0
    BY <1>4, <1>7 DEF StepsLeft
  <2>2. CASE WriteDone(r)
    <3>1. pc[r] = "write" /\ pc'[r] = "wait"
      BY <2>2 DEF WriteDone, TypeOK
    <3> QED
      BY <1>2, <1>4, <1>5, <1>6, <2>1, <3>1
  <2>3. CASE WriteFailed(r)
    <3>1. /\ pc[r] = "write"
          /\ \/ pc'[r] = "write" /\ i2cTries'[r] = i2cTries[r] + 1
             \/ pc'[r] = "wait"
      BY <2>3 DEF WriteFailed, TypeOK
    <3> QED
      BY <1>2, <1>4, <1>5, <1>6, <2>1, <3>1
  <2>4. CASE TimerDone(r)
    <3>1. pc[r] = "wait" /\ pc'[r] = "done"
      <4>1. tries[r] + 1 # tries[r]
        BY DEF TypeOK
      <4> QED
        BY <1>7, <2>4, <4>1 DEF TimerDone, Return, TypeOK
    <3> QED
      BY <1>2, <1>4, <1>5, <1>6, <2>1, <3>1
  <2> QED
    BY <2>2, <2>3, <2>4 DEF Step
<1>8. CASE tries' # tries
  <2>1. pc[r] = "wait" /\ pc'[r] = "write" /\ tries'[r] = tries[r] + 1 /\ UNCHANGED i2cTries
    BY <1>8 DEF Step, WriteDone, WriteFailed, TimerDone, TypeOK
  <2>2. NumTries - tries'[r] = m
    BY <1>1, <2>1 DEF TypeOK
  <2>3. StepsLeft(r)' = c - i2cTries[r]
    BY <1>2, <1>3, <2>1, <2>2 DEF StepsLeft
  <2> QED
    BY <1>2, <1>4, <1>5, <1>6, <2>1, <2>3
<1> QED
  BY <1>7, <1>8

\* The steps of other calls, of callers, of the bus and of systemd.
LEMMA OthersKeep ==
    ASSUME IInv, TypeOK', NEW r \in Calls, pc[r] # "idle", [Next]_vars
    PROVE  StepsLeft(r)' <= StepsLeft(r)
<1>0. TypeOK
  BY DEF IInv
<1>1. StepsLeft(r) \in Int /\ StepsLeft(r) >= 0
  <2>1. PICK b : b = NumTries * (NumI2cTries + 1)
    OBVIOUS
  <2>2. StepsLeft(r) \in 1..b \/ StepsLeft(r) = 0
    BY <1>0, <2>1, StepsLeftBounds
  <2> QED
    BY <2>2
<1>2. CASE UNCHANGED <<pc[r], tries[r], i2cTries[r]>>
  <2>1. StepsLeft(r)' = StepsLeft(r)
    BY <1>2 DEF StepsLeft
  <2> QED
    BY <1>1, <2>1
<1>3. CASE pc'[r] = "done"
  <2>1. StepsLeft(r)' = 0
    BY <1>3 DEF StepsLeft
  <2> QED
    BY <1>1, <2>1
<1>4. CASE Step(r)
  <2>1. StepsLeft(r)' < StepsLeft(r) /\ StepsLeft(r)' \in Int
    <3>1. StepsLeft(r)' < StepsLeft(r)
      BY <1>0, <1>4, StepDecreases
    <3>2. /\ NumTries - tries'[r] \in Int /\ NumI2cTries + 1 \in Int
          /\ i2cTries'[r] \in Int /\ NumI2cTries \in Int
      BY DEF TypeOK
    <3>3. PICK a \in Int : a = (NumTries - tries'[r]) * (NumI2cTries + 1)
      BY <3>2
    <3>4. StepsLeft(r)' \in Int
      BY <3>2, <3>3 DEF StepsLeft
    <3> QED
      BY <3>1, <3>4
  <2> QED
    BY <1>1, <2>1
<1>5. ASSUME NEW q \in Calls, q # r, Step(q) \/ TimerError(q)
      PROVE  UNCHANGED <<pc[r], tries[r], i2cTries[r]>>
  BY <1>0, <1>5 DEF Step, WriteDone, WriteFailed, TimerDone, TimerError, Return, TypeOK
<1>6. CASE TimerError(r)
  BY <1>0, <1>3, <1>6 DEF TimerError, Return, TypeOK
<1>7. ASSUME NEW q \in Calls, Call(q)
      PROVE  UNCHANGED <<pc[r], tries[r], i2cTries[r]>> \/ pc'[r] = "done"
  <2>1. UNCHANGED <<tries, i2cTries>>
    BY <1>7 DEF Call, ipmbHandleRequest, UnknownChannel, CallWhileDown
  <2>2. q # r
    <3>1. NewCall(q)
      BY <1>7 DEF Call, ipmbHandleRequest, UnknownChannel, CallWhileDown
    <3>2. pc[q] = "idle"
      BY <3>1 DEF NewCall, IInv, CallsInOrder, TypeOK, Calls
    <3> QED
      BY <3>2
  <2>3. pc'[r] = pc[r] \/ pc'[r] = "done"
    BY <1>0, <1>7, <2>2
       DEF Call, ipmbHandleRequest, UnknownChannel, CallWhileDown, Return, TypeOK
  <2> QED
    BY <2>1, <2>3
<1>8. CASE Restart \/ (\E f \in bus : ResponseReceived(f)) \/ UNCHANGED vars
  BY <1>2, <1>8 DEF Restart, ResponseReceived, vars
<1> QED
  BY <1>2, <1>3, <1>4, <1>5, <1>6, <1>7, <1>8 DEF Next

\* Every call ends after at most NumTries * (NumI2cTries + 1) steps of its own, 18
\* with the code's 6 transmissions of 2 writes each, whatever the boards, the bus,
\* other calls and a restart do meanwhile: its steps count down to its answer.
THEOREM BridgeRetriesEnd ==
    Spec => /\ []( \A r \in Calls :
                     /\ r \in Live => StepsLeft(r) \in 1..(NumTries * (NumI2cTries + 1))
                     /\ r \notin Live => StepsLeft(r) = 0 )
            /\ [][RetryStep]_vars
<1>1. IInv => \A r \in Calls :
                 /\ r \in Live => StepsLeft(r) \in 1..(NumTries * (NumI2cTries + 1))
                 /\ r \notin Live => StepsLeft(r) = 0
  BY StepsLeftBounds DEF IInv
<1>2. IInv /\ IInv' /\ [Next]_vars => [RetryStep]_vars
  BY StepDecreases, OthersKeep DEF IInv, RetryStep, Nearer
<1> QED
  BY <1>1, <1>2, BridgeInvariant, PTL DEF Spec
=============================================================================
