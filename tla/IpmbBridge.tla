----------------------------- MODULE IpmbBridge -----------------------------
(***************************************************************************)
(* The outgoing half of the IPMB bridge daemon (ipmbbridged): the D-Bus    *)
(* method sendRequest, the table of outstanding requests of every channel, *)
(* the retries of a request and the matching of the responses that come    *)
(* back from the I2C bus.                                                  *)
(*                                                                         *)
(* The daemon is one thread running boost::asio coroutines: a call runs    *)
(* without interruption from one suspension point (an asynchronous write   *)
(* or the wait for the retry timer) to the next, and the steps of several  *)
(* calls and of the I2C receiver interleave at those points.  Hence one    *)
(* action per run of a coroutine between two suspension points.            *)
(*                                                                         *)
(* Data is abstracted: Kinds stands for the triple (netFn, LUN, cmd) that  *)
(* responseMatch compares, "big" for a payload that does not fit a frame,  *)
(* and a response carries only its completion code.                        *)
(***************************************************************************)
EXTENDS Integers, FiniteSets

CONSTANTS
    Channels,     \* the configured channels (indices 0 and 4)
    ChannelArgs,  \* the channel numbers callers pass
    Addrs,        \* IPMB addresses of the boards
    BmcAddr,      \* 0x40, the manager's own address
    RemoteAddr,   \* "remote-addr" of the configuration file
    AddrArgs,     \* the addresses callers pass
    Kinds,        \* (netFn, LUN, cmd) triples
    KindArgs,     \* the kinds a caller may choose for the r-th call
    CCs,          \* completion codes: "ok" (0) and others
    Bigs,         \* subset of BOOLEAN: may a payload exceed the frame?
    NumSeq,       \* ipmbMaxOutstandingRequestsCount, 64 in the code
    NumTries,     \* ipmbNumberOfTries, 6 in the code
    NumI2cTries,  \* ipmbI2cNumberOfRetries, 2 in the code
    MaxCalls,     \* bound: calls made in a behaviour
    MaxClients,   \* bound: calls in progress at once
    MaxLag,       \* bound: calls made after a request while its answer is late
    NoCall, NoRequest, NoFrame, NoReply

Calls == 1..MaxCalls
Seqs  == 0..(NumSeq - 1)

\* ipmbResponseStatus other than success; what a caller sees when the daemon
\* dies is an error of D-Bus.
DBusError == "dbus_error"
Failures == {"error", "invalid_param", "busy", "timeout", DBusError}

Request == [ch : Channels, to : Addrs, kind : Kinds, seq : Seqs]

\* A response frame.  of and try are not on the wire: they say which call,
\* and which transmission of its request, the frame answers.
Frame == [ch : Channels, seq : Seqs, kind : Kinds, rsSA : Addrs, cc : CCs,
          of : Calls, try : 0..NumTries]

\* What sendRequest returns; a status without a response has completion
\* code 0 and no data (returnStatus).
Reply == [status : {"success"}, cc : CCs, frame : Frame]
         \cup [status : Failures, cc : {"ok"}, frame : {NoFrame}]

ASSUME SizeAssumption ==
    /\ NumSeq \in Nat \ {0}
    /\ NumTries \in Nat \ {0}
    /\ NumI2cTries \in Nat \ {0}
    /\ MaxCalls \in Nat
ASSUME AddrAssumption ==
    /\ RemoteAddr \in Addrs
    /\ AddrArgs \subseteq Addrs \cup {BmcAddr}
ASSUME ValueAssumption ==
    /\ Bigs \subseteq BOOLEAN
    /\ KindArgs \in [Calls -> SUBSET Kinds]
    /\ "ok" \in CCs
    /\ NoCall \notin Calls
    /\ NoRequest \notin Request
    /\ NoFrame \notin Frame
    /\ NoReply \notin Reply

VARIABLES
    up,        \* the daemon is running
    issued,    \* calls made so far: call r is the r-th
    seqNum,    \* the static counter of seqNumGet, one for all channels
    rqSA,      \* ipmbRqSlaveAddress of every channel
    slot,      \* outstandingRequests of every channel
    pc,        \* where a call is suspended
    req,       \* the IpmbRequest object of a call
    tries,     \* the loop counter of requestAdd
    i2cTries,  \* i2cRetryCnt of requestAdd
    matched,   \* matchedResponse; the state is "matched" iff it is a frame
    reply,     \* what the caller got
    bus        \* responses on their way to the daemon

vars == <<up, issued, seqNum, rqSA, slot, pc, req, tries, i2cTries, matched,
          reply, bus>>

\* The calls that are suspended inside requestAdd.
Live == {r \in Calls : pc[r] \in {"write", "wait"}}

Init ==
    /\ up = TRUE
    /\ issued = 0
    /\ seqNum = 0
    /\ rqSA = [c \in Channels |-> RemoteAddr]
    /\ slot = [c \in Channels |-> [s \in Seqs |-> NoCall]]
    /\ pc = [r \in Calls |-> "idle"]
    /\ req = [r \in Calls |-> NoRequest]
    /\ tries = [r \in Calls |-> 0]
    /\ i2cTries = [r \in Calls |-> 0]
    /\ matched = [r \in Calls |-> NoFrame]
    /\ reply = [r \in Calls |-> NoReply]
    /\ bus = {}
-----------------------------------------------------------------------------
(***************************************************************************)
(* Helpers of the channel.                                                 *)
(***************************************************************************)
\* Mutants of seqNumGet: the next number whether free or not; a loop that
\* leaves out the last number; the lowest free number.
seqNumGetTaken(c, s) == c \in Channels /\ s = (seqNum + 1) % NumSeq
seqNumGetShort(c, s) ==
    \E i \in 1..(NumSeq - 1) :
        /\ s = (seqNum + i) % NumSeq
        /\ slot[c][s] = NoCall
        /\ \A j \in 1..(i - 1) : slot[c][(seqNum + j) % NumSeq] # NoCall
seqNumGetLowest(c, s) ==
    slot[c][s] = NoCall /\ \A t \in 0..(s - 1) : slot[c][t] # NoCall

\* seqNumGet yields s: the first free entry after the last number drawn.
seqNumGet(c, s) ==
    \E i \in 1..NumSeq :
        /\ s = (seqNum + i) % NumSeq
        /\ slot[c][s] = NoCall
        /\ \A j \in 1..(i - 1) : slot[c][(seqNum + j) % NumSeq] # NoCall

\* Mutant of makeRequestInvalid: the entry stays.
makeRequestInvalidKept(r) == r \in Calls /\ slot' = slot

\* makeRequestInvalid: the entry of the request's number is cleared.
makeRequestInvalid(r) ==
    slot' = [slot EXCEPT ![req[r].ch][req[r].seq] = NoCall]

\* returnStatus and returnMatchedResponse.
StatusReply(st) == [status |-> st, cc |-> "ok", frame |-> NoFrame]
MatchedReply(f) == [status |-> "success", cc |-> f.cc, frame |-> f]

Return(r, rep) ==
    /\ pc' = [pc EXCEPT ![r] = "done"]
    /\ reply' = [reply EXCEPT ![r] = rep]

\* Mutant of Matches: the sequence number alone decides.
MatchesAny(r, f) == r \in Calls /\ f \in Frame

\* Does the response belong to the outstanding request?
Matches(r, f) == req[r].kind = f.kind
-----------------------------------------------------------------------------
(***************************************************************************)
(* A caller's next call: its number, and room for one more caller.         *)
(***************************************************************************)
NewCall(r) ==
    /\ issued < MaxCalls
    /\ r = issued + 1
    /\ Cardinality(Live) < MaxClients
    /\ issued' = r

\* The address a caller names becomes the channel's address unless it is the
\* manager's own: a call to 0x40 goes wherever the previous call went.
updateRqSlaveAddress(c, addr) ==
    rqSA' = IF addr # BmcAddr THEN [rqSA EXCEPT ![c] = addr] ELSE rqSA

\* ipmbHandleRequest for a channel that exists, up to the first suspension.
\* The entry of a payload too long for a frame is set and never cleared.
ipmbHandleRequest(r, c, addr, k, big) ==
    /\ up
    /\ NewCall(r)
    /\ c \in Channels
    /\ updateRqSlaveAddress(c, addr)
    /\ \/ /\ ~ \E s \in Seqs : seqNumGet(c, s)
          /\ Return(r, StatusReply("busy"))
          /\ UNCHANGED <<seqNum, slot, req>>
       \/ \E s \in Seqs :
          /\ seqNumGet(c, s)
          /\ seqNum' = s
          /\ slot' = [slot EXCEPT ![c][s] = r]
          /\ req' = [req EXCEPT ![r] = [ch |-> c, to |-> rqSA'[c], kind |-> k, seq |-> s]]
          /\ IF big
             THEN Return(r, StatusReply("error"))
             ELSE /\ pc' = [pc EXCEPT ![r] = "write"]
                  /\ UNCHANGED reply
    /\ UNCHANGED <<up, tries, i2cTries, matched, bus>>

\* ipmbHandleRequest for a channel that does not exist: the null channel is
\* used before it is checked, so the daemon dies with every call in progress.
UnknownChannel(r, c) ==
    /\ up
    /\ NewCall(r)
    /\ c \notin Channels
    /\ up' = FALSE
    /\ pc' = [q \in Calls |-> IF q = r \/ q \in Live THEN "done" ELSE pc[q]]
    /\ reply' = [q \in Calls |-> IF q = r \/ q \in Live
                                 THEN StatusReply(DBusError) ELSE reply[q]]
    /\ UNCHANGED <<seqNum, rqSA, slot, req, tries, i2cTries, matched, bus>>

\* systemd restarts the daemon (Restart=always), unless it gives it up after too
\* many starts: nothing says that it must.  initializeChannels builds the channels
\* anew.  Frames wait in the kernel's queue.
Restart ==
    /\ ~up
    /\ up' = TRUE
    /\ seqNum' = 0
    /\ rqSA' = [c \in Channels |-> RemoteAddr]
    /\ slot' = [c \in Channels |-> [s \in Seqs |-> NoCall]]
    /\ UNCHANGED <<issued, pc, req, tries, i2cTries, matched, reply, bus>>

\* A call while the daemon is down fails on D-Bus.
CallWhileDown(r) ==
    /\ ~up
    /\ NewCall(r)
    /\ Return(r, StatusReply(DBusError))
    /\ UNCHANGED <<up, seqNum, rqSA, slot, req, tries, i2cTries, matched, bus>>
-----------------------------------------------------------------------------
(***************************************************************************)
(* requestAdd after its first suspension.                                  *)
(***************************************************************************)
\* async_write succeeds; the addressed board answers, or it does not.
WriteDone(r) ==
    /\ up
    /\ pc[r] = "write"
    /\ \/ UNCHANGED bus
       \/ \E cc \in CCs :
            bus' = bus \cup {[ch |-> req[r].ch, seq |-> req[r].seq, kind |-> req[r].kind,
                              rsSA |-> req[r].to, cc |-> cc, of |-> r, try |-> tries[r]]}
    /\ pc' = [pc EXCEPT ![r] = "wait"]
    /\ i2cTries' = [i2cTries EXCEPT ![r] = 0]
    /\ UNCHANGED <<up, issued, seqNum, rqSA, slot, req, tries, matched, reply>>

\* async_write fails: it is retried; after the last attempt the call waits
\* for the timer all the same.
WriteFailed(r) ==
    /\ up
    /\ pc[r] = "write"
    /\ IF i2cTries[r] + 1 < NumI2cTries
       THEN /\ i2cTries' = [i2cTries EXCEPT ![r] = @ + 1]
            /\ UNCHANGED pc
       ELSE /\ i2cTries' = [i2cTries EXCEPT ![r] = 0]
            /\ pc' = [pc EXCEPT ![r] = "wait"]
    /\ UNCHANGED <<up, issued, seqNum, rqSA, slot, req, tries, matched, reply, bus>>

\* Mutants of TimerDone: one transmission too many; transmissions that are not
\* counted.
TimerDoneLate(r) ==
    /\ up
    /\ pc[r] = "wait"
    /\ \/ /\ matched[r] # NoFrame
          /\ makeRequestInvalid(r)
          /\ Return(r, MatchedReply(matched[r]))
          /\ UNCHANGED tries
       \/ /\ matched[r] = NoFrame
          /\ tries[r] < NumTries
          /\ tries' = [tries EXCEPT ![r] = @ + 1]
          /\ pc' = [pc EXCEPT ![r] = "write"]
          /\ UNCHANGED <<slot, reply>>
       \/ /\ matched[r] = NoFrame
          /\ tries[r] = NumTries
          /\ makeRequestInvalid(r)
          /\ Return(r, StatusReply("timeout"))
          /\ UNCHANGED tries
    /\ UNCHANGED <<up, issued, seqNum, rqSA, req, i2cTries, matched, bus>>

TimerDoneUncounted(r) ==
    /\ up
    /\ pc[r] = "wait"
    /\ \/ /\ matched[r] # NoFrame
          /\ makeRequestInvalid(r)
          /\ Return(r, MatchedReply(matched[r]))
       \/ /\ matched[r] = NoFrame
          /\ pc' = [pc EXCEPT ![r] = "write"]
          /\ UNCHANGED <<slot, reply>>
    /\ UNCHANGED <<up, issued, seqNum, rqSA, req, tries, i2cTries, matched, bus>>

\* The retry timer expires, or responseMatch cancelled it: return the matched
\* response, send the request again, or give up.
TimerDone(r) ==
    /\ up
    /\ pc[r] = "wait"
    /\ \/ /\ matched[r] # NoFrame
          /\ makeRequestInvalid(r)
          /\ Return(r, MatchedReply(matched[r]))
          /\ UNCHANGED tries
       \/ /\ matched[r] = NoFrame
          /\ tries[r] + 1 < NumTries
          /\ tries' = [tries EXCEPT ![r] = @ + 1]
          /\ pc' = [pc EXCEPT ![r] = "write"]
          /\ UNCHANGED <<slot, reply>>
       \/ /\ matched[r] = NoFrame
          /\ tries[r] + 1 = NumTries
          /\ makeRequestInvalid(r)
          /\ Return(r, StatusReply("timeout"))
          /\ UNCHANGED tries
    /\ UNCHANGED <<up, issued, seqNum, rqSA, req, i2cTries, matched, bus>>

\* async_wait fails with anything but operation_aborted.
TimerError(r) ==
    /\ up
    /\ pc[r] = "wait"
    /\ makeRequestInvalid(r)
    /\ Return(r, StatusReply("error"))
    /\ UNCHANGED <<up, issued, seqNum, rqSA, req, tries, i2cTries, matched, bus>>
-----------------------------------------------------------------------------
(***************************************************************************)
(* processI2cEvent for a response, with responseMatch: the table entry of  *)
(* the response's number decides, whatever board the response comes from.  *)
(* A frame that is lost, or that isFrameValid rejects, is never received.  *)
(***************************************************************************)
responseMatch(f) ==
    LET r == slot[f.ch][f.seq] IN
    matched' = IF r # NoCall /\ Matches(r, f)
               THEN [matched EXCEPT ![r] = f]
               ELSE matched

ResponseReceived(f) ==
    /\ up
    /\ f \in bus
    /\ issued - f.of < MaxLag
    /\ bus' = bus \ {f}
    /\ responseMatch(f)
    /\ UNCHANGED <<up, issued, seqNum, rqSA, slot, pc, req, tries, i2cTries, reply>>
-----------------------------------------------------------------------------
\* A caller's step; the daemon's steps for one call.
Call(r) ==
    \/ \E c \in ChannelArgs, addr \in AddrArgs, k \in KindArgs[r], big \in Bigs :
         ipmbHandleRequest(r, c, addr, k, big)
    \/ \E c \in ChannelArgs : UnknownChannel(r, c)
    \/ CallWhileDown(r)

Step(r) == WriteDone(r) \/ WriteFailed(r) \/ TimerDone(r)

Next ==
    \/ \E r \in Calls : Call(r) \/ Step(r) \/ TimerError(r)
    \/ Restart
    \/ \E f \in bus : ResponseReceived(f)

Spec == Init /\ [][Next]_vars

\* The kernel completes every write, with or without an error, and every timer
\* expires: the event loop runs the handler.  Nothing is assumed of callers,
\* boards, the bus and systemd.
Fairness == \A r \in Calls : WF_vars(Step(r))

FairSpec == Spec /\ Fairness
-----------------------------------------------------------------------------
(***************************************************************************)
(* Properties.                                                             *)
(***************************************************************************)
\* Type invariant: every variable keeps its range; the retry counters never
\* reach the limits of the loops of requestAdd.
TypeOK ==
    /\ up \in BOOLEAN
    /\ issued \in 0..MaxCalls
    /\ seqNum \in Seqs
    /\ rqSA \in [Channels -> Addrs]
    /\ slot \in [Channels -> [Seqs -> Calls \cup {NoCall}]]
    /\ pc \in [Calls -> {"idle", "write", "wait", "done"}]
    /\ req \in [Calls -> Request \cup {NoRequest}]
    /\ tries \in [Calls -> 0..(NumTries - 1)]
    /\ i2cTries \in [Calls -> 0..(NumI2cTries - 1)]
    /\ matched \in [Calls -> Frame \cup {NoFrame}]
    /\ reply \in [Calls -> Reply \cup {NoReply}]
    /\ bus \subseteq Frame

\* A call that is suspended in requestAdd is the entry of its own number in
\* its own channel's table, so makeRequestInvalid clears no other call's entry,
\* two calls of a channel never share a number, and its answer can reach it.
LiveOwnsSlot ==
    \A r \in Live : up /\ req[r] \in Request /\ slot[req[r].ch][req[r].seq] = r

\* Every entry of a table of the running daemon is the request of a call in
\* progress, under its own number, or of a call that failed at once with
\* "error" (ipmbToi2cConstruct refused it after makeRequestValid).
SlotsAccounted ==
    up => \A c \in Channels, s \in Seqs :
            LET r == slot[c][s] IN
            r # NoCall =>
                /\ req[r] \in Request /\ req[r].ch = c /\ req[r].seq = s
                /\ r \in Live \/ (pc[r] = "done" /\ reply[r].status = "error")

\* A response that is stored in a request, or returned to its caller, came
\* in on the request's channel with its number and its (netFn, LUN, cmd).
Fits(f, q) == f.ch = q.ch /\ f.seq = q.seq /\ f.kind = q.kind
ResponseFits ==
    \A r \in Calls :
        /\ matched[r] # NoFrame => req[r] \in Request /\ Fits(matched[r], req[r])
        /\ reply[r] # NoReply /\ reply[r].status = "success" =>
                req[r] \in Request /\ Fits(reply[r].frame, req[r])

\* Calls are numbered in the order they are made; a call has its answer exactly
\* when it has returned, and nothing before it is made.
CallsInOrder ==
    \A r \in Calls :
        /\ pc[r] = "idle" <=> r > issued
        /\ pc[r] = "idle" => req[r] = NoRequest /\ matched[r] = NoFrame
        /\ reply[r] # NoReply <=> pc[r] = "done"

\* The inductive invariant behind the proofs.
IInv == TypeOK /\ CallsInOrder /\ LiveOwnsSlot /\ SlotsAccounted /\ ResponseFits

\* A successful call got the answer of the board it was sent to, to this very
\* request: a late answer to an earlier request, left over from a retry or a
\* timeout, is never taken for it.  Holds while an answer is late by fewer
\* calls (MaxLag) than the free numbers seqNumGet goes round.
AnswersOwnCall ==
    \A r \in Calls :
        reply[r] # NoReply /\ reply[r].status = "success" =>
            reply[r].frame.of = r /\ reply[r].frame.rsSA = req[r].to

\* sendRequest answers "busy" only when every number of the caller's own channel
\* is taken: seqNumGet visits the channel's whole table wherever the counter, which
\* the calls of all channels move, stands.
BusyStep ==
    \A r \in Calls, c \in Channels, addr \in AddrArgs, k \in Kinds, big \in Bigs :
        ipmbHandleRequest(r, c, addr, k, big) /\ reply'[r] = StatusReply("busy") =>
            \A s \in Seqs : slot[c][s] # NoCall
BusyOnlyWhenFull == [][BusyStep]_vars

\* Every call is answered: the retries of requestAdd end, whatever the bus,
\* the boards and the other calls do.
EveryCallReturns == \A r \in Calls : (issued >= r) ~> (pc[r] = "done")

\* The bridge implements IpmbRpc: a dead daemon holds no numbers.
Phase == [r \in Calls |-> IF pc[r] \in {"write", "wait"} THEN "pending" ELSE pc[r]]
Lease == [c \in Channels |-> [s \in Seqs |-> IF up THEN slot[c][s] ELSE NoCall]]
AnswerOf(rep) ==
    IF rep = NoReply THEN <<>>
    ELSE IF rep.status = "success"
         THEN <<"success", rep.frame.ch, rep.frame.seq>>
         ELSE <<rep.status>>
Answers == [r \in Calls |-> AnswerOf(reply[r])]
Rpc == INSTANCE IpmbRpc WITH phase <- Phase, lease <- Lease, answer <- Answers
RpcSpec == Rpc!Spec
=============================================================================
