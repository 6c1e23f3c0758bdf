------------------------------ MODULE IpmbRpc -------------------------------
(***************************************************************************)
(* What the IPMB bridge promises its callers, without its protocol: every  *)
(* call is answered at most once; a call in progress holds one sequence    *)
(* number of one channel, which nobody else can hold or release; a call is *)
(* refused only when a channel has no number left (that it is the caller's *)
(* own is the bridge's BusyOnlyWhenFull); a successful answer carries the  *)
(* number the call holds.  A number goes back to the pool with the answer, *)
(* except the number of a call whose payload does not fit a frame.  When   *)
(* the daemon dies every call in progress fails and every number is free.  *)
(***************************************************************************)
CONSTANTS Calls, Channels, Seqs, NoCall

VARIABLES
    phase,   \* "idle", "pending" or "done", for every call
    lease,   \* the call that holds a number of a channel
    answer   \* <<status>>, <<"success", channel, number>>, or <<>>: none yet

vars == <<phase, lease, answer>>

Init ==
    /\ phase = [r \in Calls |-> "idle"]
    /\ lease = [c \in Channels |-> [s \in Seqs |-> NoCall]]
    /\ answer = [r \in Calls |-> <<>>]

Answer(r, from, ans) ==
    /\ phase[r] = from
    /\ phase' = [phase EXCEPT ![r] = "done"]
    /\ answer' = [answer EXCEPT ![r] = ans]

Take(r, c, s) ==
    /\ lease[c][s] = NoCall
    /\ lease' = [lease EXCEPT ![c][s] = r]

\* A call is accepted and takes a free number.
Accept(r) ==
    /\ phase[r] = "idle"
    /\ \E c \in Channels, s \in Seqs : Take(r, c, s)
    /\ phase' = [phase EXCEPT ![r] = "pending"]
    /\ UNCHANGED answer

\* A call is refused: some channel has no free number.
Refuse(r) ==
    /\ \E c \in Channels : \A s \in Seqs : lease[c][s] # NoCall
    /\ Answer(r, "idle", <<"busy">>)
    /\ UNCHANGED lease

\* A call takes a number and fails at once; the number is not given back.
Spoil(r) ==
    /\ \E c \in Channels, s \in Seqs : Take(r, c, s)
    /\ Answer(r, "idle", <<"error">>)

\* A call in progress ends and its number, and no other, is free again.
Finish(r) ==
    \E c \in Channels, s \in Seqs :
        /\ lease[c][s] = r
        /\ \E ans \in {<<"success", c, s>>, <<"timeout">>, <<"error">>} :
             Answer(r, "pending", ans)
        /\ lease' = [lease EXCEPT ![c][s] = NoCall]

\* The daemon dies on a call it was just given.
Die(q) ==
    LET Failed == {q} \cup {r \in Calls : phase[r] = "pending"} IN
    /\ phase[q] = "idle"
    /\ phase' = [r \in Calls |-> IF r \in Failed THEN "done" ELSE phase[r]]
    /\ answer' = [r \in Calls |-> IF r \in Failed THEN <<"dbus_error">> ELSE answer[r]]
    /\ lease' = [c \in Channels |-> [s \in Seqs |-> NoCall]]

\* A call made while there is no daemon.
Fail(r) ==
    /\ Answer(r, "idle", <<"dbus_error">>)
    /\ UNCHANGED lease

Next ==
    \E r \in Calls : Accept(r) \/ Refuse(r) \/ Spoil(r) \/ Finish(r) \/ Die(r) \/ Fail(r)

Spec == Init /\ [][Next]_vars
=============================================================================
