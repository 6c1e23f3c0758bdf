---------------------------- MODULE IpmbIncoming ----------------------------
(***************************************************************************)
(* What the IPMB bridge daemon does besides outgoing requests: it reads    *)
(* frames from a slave device per channel, gives requests to ipmid, sends  *)
(* ipmid's answers back, refuses commands that ipmid once refused, changes *)
(* the slave address of a channel and sends broadcasts.                    *)
(*                                                                         *)
(* The daemon has one thread.  An armed wait completes when a frame is     *)
(* there; its handler is then queued, and closing the descriptor aborts    *)
(* armed waits but not queued handlers.  Responses to the daemon's own     *)
(* requests arrive here too; module IpmbBridge models what becomes of them.*)
(***************************************************************************)
EXTENDS Integers, Sequences, FiniteSets

CONSTANTS
    Channels,     \* the configured channels
    Keys,         \* (netFn, cmd) pairs, which is what the filter looks at
    Bodies,       \* defining bodies of group commands, which it does not look at
    Supported,    \* the (key, body) pairs ipmid has a handler for
    BmcAddr,      \* "bmc-addr" of the configuration file
    Base,         \* 0x1010, the device the code creates and deletes
    DeviceAddrs,  \* addresses of the slave device before the daemon starts; None if none
    NewAddrs,     \* addresses of updateBmcSlaveAddr
    NumRetries,   \* ipmbI2cNumberOfRetries, 2 in the code
    MaxRequests,  \* bound: frames from boards
    MaxUpdates,   \* bound: address updates
    MaxDeaths,    \* bound: restarts of the daemon
    None

Requests == 1..MaxRequests
Addrs == NewAddrs \cup {BmcAddr, Base}

ASSUME IncomingAssumption ==
    /\ Channels # {} /\ Bodies # {} /\ None \notin Keys
    /\ Supported \subseteq Keys \X Bodies
    /\ DeviceAddrs \subseteq Addrs \cup {None} /\ None \notin Addrs
    /\ NumRetries \in Nat /\ MaxRequests \in Nat /\ MaxUpdates \in Nat /\ MaxDeaths \in Nat

\* A frame from a board and what became of it.  A frame that is not valid, or is
\* a response, has key None.  cc and tries are those of the answer.
Request ==
    [st : {"unsent", "rx", "ipmid", "writing", "answered", "lost"},
     ch : Channels, key : Keys \cup {None}, body : Bodies,
     cc : {"none", "ok", "C1", "CE"}, tries : 0..(NumRetries + 1)]

VARIABLES
    dev,      \* per channel: address of the kernel's slave device, or None
    rx,       \* per channel: frames the device holds
    fd,       \* per channel: is the descriptor open?
    waits,    \* per channel: armed waits
    ready,    \* per channel: queued handlers of completed waits
    bmcAddr,  \* per channel: ipmbBmcSlaveAddress
    filter,   \* unhandledCommands, shared by the channels
    req,      \* the boards' frames
    bcast,    \* the channel and failed writes of a broadcast, or None
    asked,    \* history, per channel: address of the last update, None after a start
    refused,  \* history: keys that ipmid refused since the daemon's start
    updates, deaths

kernel == <<dev, rx>>
channel == <<fd, waits, ready, bmcAddr>>
history == <<asked, updates, deaths>>
vars == <<kernel, channel, filter, req, bcast, refused, history>>

\* A frame the daemon has given up.
Blank ==
    [st |-> "lost", ch |-> CHOOSE c \in Channels : TRUE, key |-> None,
     body |-> CHOOSE b \in Bodies : TRUE, cc |-> "none", tries |-> 0]

\* ipmbChannelInit creates the device if there is none.
Device(d) == IF d = None THEN Base ELSE d

Init ==
    /\ \E d \in DeviceAddrs : dev = [c \in Channels |-> Device(d)]
    /\ rx = [c \in Channels |-> <<>>]
    /\ fd = [c \in Channels |-> TRUE]
    /\ waits = [c \in Channels |-> 1]
    /\ ready = [c \in Channels |-> 0]
    /\ bmcAddr = [c \in Channels |-> BmcAddr]
    /\ filter = {}
    /\ req = [n \in Requests |-> [Blank EXCEPT !.st = "unsent"]]
    /\ bcast = None
    /\ asked = [c \in Channels |-> None]
    /\ refused = {}
    /\ updates = 0 /\ deaths = 0
-----------------------------------------------------------------------------
(***************************************************************************)
(* Boards and the kernel.                                                  *)
(***************************************************************************)
\* A board sends a frame to the address of the device; request n is the next.
BoardSends(c, key, body) ==
    /\ dev[c] # None
    /\ \E n \in Requests :
         /\ req[n].st = "unsent" /\ \A m \in 1..(n - 1) : req[m].st # "unsent"
         /\ req' = [req EXCEPT ![n].st = "rx", ![n].ch = c, ![n].key = key, ![n].body = body]
         /\ rx' = [rx EXCEPT ![c] = Append(@, n)]
    /\ UNCHANGED <<dev, channel, filter, bcast, refused, history>>

\* A frame is there: every armed wait of the descriptor completes.
WaitCompletes(c) ==
    /\ fd[c] /\ waits[c] > 0 /\ rx[c] # <<>>
    /\ ready' = [ready EXCEPT ![c] = @ + waits[c]]
    /\ waits' = [waits EXCEPT ![c] = 0]
    /\ UNCHANGED <<kernel, fd, bmcAddr, filter, req, bcast, refused, history>>
-----------------------------------------------------------------------------
(***************************************************************************)
(* Reading frames and answering.                                           *)
(***************************************************************************)
\* The answer to request n, which ipmbSendI2cFrame is to write.
Answer(n, cc) ==
    req' = [req EXCEPT ![n].st = "writing", ![n].cc = cc]

Lose(n) == req' = [req EXCEPT ![n] = Blank]

isBlocked(key) == key \in filter

\* What is done with a valid frame, an invalid one or a response.
Handle(n) ==
    \/ req[n].key = None /\ Lose(n)
    \/ req[n].key # None /\ isBlocked(req[n].key) /\ Answer(n, "C1")
    \/ /\ req[n].key # None /\ ~isBlocked(req[n].key)
       /\ req' = [req EXCEPT ![n].st = "ipmid"]

\* Mutant of Rearm: a handler that finds no frame does not wait again.
RearmIfRead(c) ==
    waits' = [waits EXCEPT ![c] = IF fd[c] /\ rx[c] # <<>> /\ req[Head(rx[c])].key # None
                                  THEN @ + 1 ELSE @]

\* The end of processI2cEvent; waiting on a closed descriptor fails at once.
Rearm(c) == waits' = [waits EXCEPT ![c] = IF fd[c] THEN @ + 1 ELSE @]

\* A handler whose frame another handler has read, or whose descriptor has been
\* closed, finds nothing.
processI2cEvent(c) ==
    /\ ready[c] > 0
    /\ ready' = [ready EXCEPT ![c] = @ - 1]
    /\ \/ /\ fd[c] /\ rx[c] # <<>>
          /\ Handle(Head(rx[c]))
          /\ rx' = [rx EXCEPT ![c] = Tail(@)]
       \/ /\ ~(fd[c] /\ rx[c] # <<>>)
          /\ UNCHANGED <<req, rx>>
    /\ Rearm(c)
    /\ UNCHANGED <<dev, fd, bmcAddr, filter, bcast, refused, history>>

\* Mutant of addFilter: every answer without data is taken for a refusal.
addFilterAny(key, cc) == filter' = IF cc = "ok" THEN filter ELSE filter \cup {key}

addFilter(key, cc) == filter' = IF cc = "C1" THEN filter \cup {key} ELSE filter

\* ipmid's answer to the execute call: an error of D-Bus or a message that is not
\* a response, a payload that fits no frame, a refusal, or an answer.
ipmidFails(n) ==
    /\ req[n].st = "ipmid"
    /\ Lose(n)
    /\ UNCHANGED <<kernel, channel, filter, bcast, refused, history>>

ipmidAnswers(n) ==
    /\ req[n].st = "ipmid"
    /\ \E cc \in IF <<req[n].key, req[n].body>> \in Supported THEN {"ok", "CE"} ELSE {"C1"} :
         /\ addFilter(req[n].key, cc)
         /\ Answer(n, cc)
         /\ refused' = IF cc = "C1" THEN refused \cup {req[n].key} ELSE refused
    /\ UNCHANGED <<kernel, channel, bcast, history>>

\* Mutant of NextTry: after the last attempt the count starts again.
NextTryAgain(n) ==
    req' = [req EXCEPT ![n].tries = IF @ > NumRetries THEN 0 ELSE @ + 1]

\* Mutant of NextTry: the bound on the attempts is not looked at.
NextTryUnbounded(n) == req' = [req EXCEPT ![n].tries = @ + 1]

\* A failed write of ipmbSendI2cFrame: it is tried NumRetries + 2 times in all.
NextTry(n) ==
    IF req[n].tries > NumRetries THEN Lose(n)
    ELSE req' = [req EXCEPT ![n].tries = @ + 1]

\* async_write on the channel's descriptor, whichever is open by then.
ipmbSendI2cFrame(n) ==
    /\ req[n].st = "writing"
    /\ \/ fd[req[n].ch] /\ req' = [req EXCEPT ![n].st = "answered", ![n].tries = 0]
       \/ NextTry(n)
    /\ UNCHANGED <<kernel, channel, filter, bcast, refused, history>>
-----------------------------------------------------------------------------
(***************************************************************************)
(* Broadcasts, address updates and restarts.                               *)
(***************************************************************************)
\* Bound: one broadcast at a time.
sendBroadcast(c) ==
    /\ bcast = None
    /\ bcast' = [ch |-> c, tries |-> 0]
    /\ UNCHANGED <<kernel, channel, filter, req, refused, history>>

writeBroadcast ==
    /\ bcast # None
    /\ \/ fd[bcast.ch] /\ bcast' = None
       \/ bcast' = IF bcast.tries > NumRetries THEN None ELSE [bcast EXCEPT !.tries = @ + 1]
    /\ UNCHANGED <<kernel, channel, filter, req, refused, history>>

\* delete_device with 0x1010 removes the device only if it has that address; the
\* error of a write for another one is not looked at.
Deleted(d) == IF d = Base THEN None ELSE d

\* new_device fails, unnoticed, while /dev/ipmb-N exists.
Created(d, a) == IF d = None THEN a ELSE d

\* Mutant of Accept: the address is noted although the update fails.
AcceptEarly(c, a, done) == bmcAddr' = [bmcAddr EXCEPT ![c] = a]

\* The new address is noted at the end of an update only.
Accept(c, a, done) == bmcAddr' = [bmcAddr EXCEPT ![c] = IF done THEN a ELSE @]

\* ipmbChannelUpdateSlaveAddress: the descriptor is closed first; each of the
\* steps may fail, which ends the update with the descriptor closed.
ipmbChannelUpdateSlaveAddress(c, a) ==
    /\ updates < MaxUpdates
    /\ a # bmcAddr[c]
    /\ \E done \in {"none", "deleted", "created", "opened"} :
         LET d == IF done = "none" THEN dev[c] ELSE Deleted(dev[c])
             e == IF done \in {"created", "opened"} THEN Created(d, a) ELSE d
             open == done = "opened" /\ e # None
         IN  /\ dev' = [dev EXCEPT ![c] = e]
             /\ rx' = [rx EXCEPT ![c] = IF d = None THEN <<>> ELSE @]
             /\ req' = [n \in Requests |->
                          IF d = None /\ req[n].ch = c /\ req[n].st = "rx"
                          THEN Blank ELSE req[n]]
             /\ fd' = [fd EXCEPT ![c] = open]
             /\ waits' = [waits EXCEPT ![c] = IF open THEN 1 ELSE 0]
             /\ Accept(c, a, open)
    /\ asked' = [asked EXCEPT ![c] = a]
    /\ updates' = updates + 1
    /\ UNCHANGED <<ready, filter, bcast, refused, deaths>>

\* The daemon ends and systemd starts it: what it held is gone, the kernel's
\* devices and their frames stay, and the configured address is used again.
Restart ==
    /\ deaths < MaxDeaths
    /\ deaths' = deaths + 1
    /\ dev' = [c \in Channels |-> Device(dev[c])]
    /\ fd' = [c \in Channels |-> TRUE]
    /\ waits' = [c \in Channels |-> 1]
    /\ ready' = [c \in Channels |-> 0]
    /\ bmcAddr' = [c \in Channels |-> BmcAddr]
    /\ filter' = {}
    /\ refused' = {}
    /\ bcast' = None
    /\ asked' = [c \in Channels |-> None]
    /\ req' = [n \in Requests |->
                 IF req[n].st \in {"ipmid", "writing"} THEN Blank ELSE req[n]]
    /\ UNCHANGED <<rx, updates>>
-----------------------------------------------------------------------------
Ipmid(n) == ipmidFails(n) \/ ipmidAnswers(n)

Next ==
    \/ \E c \in Channels :
         \/ WaitCompletes(c) \/ processI2cEvent(c)
         \/ sendBroadcast(c)
         \/ \E key \in Keys, body \in Bodies : BoardSends(c, key, body)
         \/ BoardSends(c, None, Blank.body)
         \/ \E a \in NewAddrs : ipmbChannelUpdateSlaveAddress(c, a)
    \/ \E n \in Requests : Ipmid(n) \/ ipmbSendI2cFrame(n)
    \/ writeBroadcast
    \/ Restart

Spec == Init /\ [][Next]_vars

\* The event loop runs every completed wait and write; a D-Bus call without an
\* answer fails by its timeout.
FairSpec ==
    /\ Spec
    /\ \A c \in Channels : WF_vars(WaitCompletes(c)) /\ WF_vars(processI2cEvent(c))
    /\ \A n \in Requests : WF_vars(Ipmid(n)) /\ WF_vars(ipmbSendI2cFrame(n))
-----------------------------------------------------------------------------
(***************************************************************************)
(* Properties.                                                             *)
(***************************************************************************)
TypeOK ==
    /\ dev \in [Channels -> Addrs \cup {None}]
    /\ rx \in [Channels -> Seq(Requests)]
    /\ fd \in [Channels -> BOOLEAN]
    /\ waits \in [Channels -> Nat] /\ ready \in [Channels -> Nat]
    /\ bmcAddr \in [Channels -> Addrs]
    /\ filter \subseteq Keys /\ refused \subseteq Keys
    /\ req \in [Requests -> Request]
    /\ bcast \in [ch : Channels, tries : 0..(NumRetries + 1)] \cup {None}
    /\ asked \in [Channels -> NewAddrs \cup {None}]
    /\ updates \in 0..MaxUpdates /\ deaths \in 0..MaxDeaths

\* An open descriptor is waited on: a wait is armed or a handler is queued that
\* will arm one, whatever frames, errors and address updates came before.
NeverDeaf == \A c \in Channels : fd[c] => waits[c] + ready[c] > 0

\* A channel that an update left without a descriptor takes the same update
\* again: it does not have the address that was asked for.
FailedUpdateRepeats == \A c \in Channels : ~fd[c] => asked[c] # bmcAddr[c]

\* A command that ipmid supports is refused, by the filter, only after ipmid has
\* refused another body's command of the same netFn and number since the daemon
\* started: an answer too long for a frame, or one from before a restart, is no
\* reason.
WrongRefusalHasCause ==
    \A n \in Requests :
        /\ req[n].st = "writing" /\ req[n].cc = "C1"
        /\ <<req[n].key, req[n].body>> \in Supported
        => req[n].key \in refused

\* A frame of a channel that is open is read, given to ipmid and answered, or
\* lost for a reason the code names, unless the channel is closed meanwhile.
RequestsEnd ==
    \A n \in Requests :
        (req[n].st \in {"rx", "ipmid", "writing"}) ~>
            (req[n].st \in {"answered", "lost"} \/ ~fd[req[n].ch])
=============================================================================
