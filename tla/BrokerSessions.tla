--------------------------- MODULE BrokerSessions ---------------------------
(***************************************************************************)
(* The children of one committed lease of the Session Broker               *)
(* (host-runtime/src/broker.rs): Ready References, Protocol Sessions and   *)
(* their tombstones, with prepare, open, exchange, close_session,          *)
(* close_lease, expire_session, maintain, prune and the sealing and        *)
(* reaping of the lease under them.  Requests run on their own threads,    *)
(* maintenance on one more; each reads the clock, takes Core's mutex, does *)
(* raw I/O with no lock held, and takes the mutex again.                   *)
(*                                                                         *)
(* A token redeems one session slot at most, so the slot carries the       *)
(* token's name.  Here the loss of the lease by heartbeats is an event.    *)
(***************************************************************************)
EXTENDS Naturals

CONSTANTS
    Clients,        \* request threads
    Tokens,         \* Ready Reference tokens
    Ids,            \* Target-issued session ids
    NoId,           \* session_id: None
    SessionIdle,    \* SESSION_IDLE_MS, also the life of a session tombstone
    ReferenceTTL,   \* READY_REFERENCE_TTL_MS
    LeaseIdle,      \* LEASE_IDLE_MS
    LeaseAbsolute,  \* LEASE_ABSOLUTE_MS
    MaxTime         \* bound: the clock stops here

ASSUME TimeAssumption ==
    /\ {SessionIdle, ReferenceTTL, LeaseIdle, LeaseAbsolute, MaxTime} \subseteq Nat \ {0}
    /\ SessionIdle <= LeaseIdle /\ LeaseIdle <= LeaseAbsolute
    /\ NoId \notin Ids

VARIABLES
    now,        \* the clock
    lease,      \* the Lease, without its children
    refs,       \* Lease.references
    sess,       \* Lease.sessions
    stale,      \* Core.stale_tokens: the expiry, 0 when the token is not there
    client,     \* the request threads
    keeper,     \* the maintenance thread
    ended       \* when the session of a token became a tombstone

vars == <<now, lease, refs, sess, stale, client, keeper, ended>>

Time == 0..MaxTime
Later == 0..(MaxTime + (IF SessionIdle < ReferenceTTL THEN ReferenceTTL ELSE SessionIdle))

\* "Condemned" is LeaseState::Closing before begin_close: no request is
\* admitted any more, but nobody has sealed the ledger or owns the close.
Leases == [state : {"Ready", "Condemned", "Closing", "None"}, activity : Time, lost : BOOLEAN]

References == [
    state   : {"unminted", "Minted", "Redeeming", "Consumed", "Stale", "pruned"},
    expires : Later,
    id      : Ids \union {NoId}]

Sessions == [
    live   : BOOLEAN,       \* in Lease.sessions
    id     : Ids \union {NoId},
    crypto : BOOLEAN,       \* Session.crypto is Some
    reader : BOOLEAN,       \* Session.reader is Some
    last   : Time]

Requests == [
    step    : {"idle", "match", "open", "exchange", "close", "release",
               "opening", "exchanging", "closing", "sealing", "releasing"},
    token   : Tokens,
    id      : Ids \union {NoId},
    current : Time,         \* the clock the request read before the mutex
    reply   : {"none", "ok", "stale", "selection", "error", "closed"},
    told    : BOOLEAN]      \* FALSE: the request went out, the reply says NotHandedOff

Keepers == [
    step  : {"idle", "working", "expiring", "sealing"},
    due   : SUBSET Tokens,          \* sessions collected as expired
    token : Tokens,                 \* the session being expired ...
    id    : Ids \union {NoId}]      \* ... and its id when that began

TypeOK ==
    /\ now \in Time
    /\ lease \in Leases
    /\ refs \in [Tokens -> References]
    /\ sess \in [Tokens -> Sessions]
    /\ stale \in [Tokens -> Later]
    /\ client \in [Clients -> Requests]
    /\ keeper \in Keepers
    /\ ended \in [Tokens -> Time \union {MaxTime + 1}]

NoSession == [live |-> FALSE, id |-> NoId, crypto |-> FALSE, reader |-> FALSE, last |-> 0]

\* The state commit leaves: a Ready lease created at time 0.
Init ==
    /\ now = 0
    /\ lease = [state |-> "Ready", activity |-> 0, lost |-> FALSE]
    /\ refs = [t \in Tokens |-> [state |-> "unminted", expires |-> 0, id |-> NoId]]
    /\ sess = [t \in Tokens |-> NoSession]
    /\ stale = [t \in Tokens |-> 0]
    /\ \E t \in Tokens :
          /\ client = [c \in Clients |->
                         [step |-> "idle", token |-> t, id |-> NoId, current |-> 0,
                          reply |-> "none", told |-> TRUE]]
          /\ keeper = [step |-> "idle", due |-> {}, token |-> t, id |-> NoId]
    /\ ended = [t \in Tokens |-> MaxTime + 1]

-----------------------------------------------------------------------------
\* lease.references.contains_key(token), in a slot that is still there
Known(t) ==
    lease.state # "None" /\ refs[t].state \in {"Minted", "Redeeming", "Consumed", "Stale"}

\* lease_terminal_reason(current, ...) is Some
TerminalAt(current) ==
    \/ current >= LeaseAbsolute
    \/ lease.lost
    \/ current >= lease.activity + LeaseIdle

\* The threads inside the lease's ledger, which a reap waits for.
Busy ==
    \/ \E c \in Clients : client[c].step \in {"opening", "exchanging", "closing"}
    \/ keeper.step = "expiring"

Goto(c, step) == client' = [client EXCEPT ![c].step = step]

\* The request is answered.
Answer(c, reply, told) ==
    client' = [client EXCEPT ![c] = [@ EXCEPT !.step = "idle", !.id = NoId, !.current = 0,
                                              !.reply = reply, !.told = told]]
Reply(c, reply) == Answer(c, reply, TRUE)

\* token_failure
Unknown(c, t) == Reply(c, IF stale[t] # 0 THEN "stale" ELSE "selection")

(***************************************************************************)
(* prune, with which every request and every maintenance pass begins       *)
(***************************************************************************)

\* Not a Consumed reference whose session is live.
Overdue(t) ==
    /\ Known(t)
    /\ ~(refs[t].state = "Consumed" /\ sess[t].live)
    /\ now >= refs[t].expires

Pruned == [t \in Tokens |-> IF Overdue(t) THEN [refs[t] EXCEPT !.state = "pruned"] ELSE refs[t]]
PrunedStale == [t \in Tokens |-> IF now < stale[t] THEN stale[t] ELSE 0]
Prune == refs' = Pruned /\ stale' = PrunedStale

(***************************************************************************)
(* matched_session_slot: the answer it gives, or "slot"                    *)
(***************************************************************************)
Matched(t, id, allowUnbound) ==
    IF refs[t].state # "Consumed" THEN "selection"
    ELSE IF refs[t].id \notin {NoId, id} THEN "selection"
    ELSE IF ~sess[t].live THEN IF refs[t].id = id THEN "stale" ELSE "selection"
    ELSE IF sess[t].id \notin {NoId, id} THEN "selection"
    ELSE IF ~allowUnbound /\ refs[t].id = NoId THEN "selection"
    ELSE "slot"

(***************************************************************************)
(* Mutated steps, used only to show that the properties can fail.          *)
(***************************************************************************)
\* exchange does not look at the lease again after its I/O.
FinishUnchecked(c, t) == TRUE

\* close_session leaves the crypto state for others to use meanwhile.
BeginCloseSharing(c) ==
    LET t == client[c].token IN
    /\ client[c].step = "close"
    /\ Known(t) /\ lease.state = "Ready"
    /\ Matched(t, client[c].id, TRUE) = "slot"
    /\ Goto(c, "closing")
    /\ UNCHANGED <<now, lease, refs, sess, stale, keeper, ended>>

\* maintain only looks at sessions.
CollectSessionsOnly ==
    /\ keeper.step = "idle"
    /\ lease.state = "Ready"
    /\ Prune
    /\ keeper' = [keeper EXCEPT !.step = "working",
                    !.due = {t \in Tokens : sess[t].live /\ sess[t].crypto
                                            /\ now >= sess[t].last + SessionIdle}]
    /\ UNCHANGED <<now, lease, sess, client, ended>>

-----------------------------------------------------------------------------
(***************************************************************************)
(* A request arrives: handle reads the clock and prunes.                   *)
(***************************************************************************)
Arrive(c, step, t, id) ==
    /\ client[c].step = "idle"
    /\ client' = [client EXCEPT ![c] =
                    [step |-> step, token |-> t, id |-> id, current |-> now,
                     reply |-> "none", told |-> TRUE]]
    /\ Prune
    /\ UNCHANGED <<now, lease, sess, keeper, ended>>

(***************************************************************************)
(* prepare for the selection of this lease                                 *)
(***************************************************************************)
\* The lease is past its life: prepare closes it and makes its references
\* stale under the lock it decided with, but gives them no tombstone; that
\* is left to the terminalize_lease it calls next.  (A clock read before the
\* lock condemns no lease that the clock under it would not.)
Condemn(c) ==
    /\ client[c].step = "idle"
    /\ lease.state = "Ready" /\ TerminalAt(now)
    /\ lease' = [lease EXCEPT !.state = "Condemned"]
    /\ refs' = [t \in Tokens |->
                  IF Known(t) /\ ~Overdue(t) THEN [refs[t] EXCEPT !.state = "Stale"] ELSE Pruned[t]]
    /\ stale' = PrunedStale
    /\ client' = [client EXCEPT ![c].step = "sealing", ![c].reply = "none", ![c].told = TRUE]
    /\ UNCHANGED <<now, sess, keeper, ended>>

\* prepare, reusing this lease: mint a reference (the probe is elsewhere).
Mint(t) ==
    /\ lease.state = "Ready" /\ ~TerminalAt(now)
    /\ refs[t].state = "unminted"
    /\ refs' = [Pruned EXCEPT ![t].state = "Minted", ![t].expires = now + ReferenceTTL]
    /\ stale' = PrunedStale
    /\ UNCHANGED <<now, lease, sess, client, keeper, ended>>

\* The checks every request makes first under the mutex, with the clock it
\* read before: an unknown token, a terminal lease, a lease not Ready.
Blocked(c) ==
    LET t == client[c].token IN
    /\ client[c].step \in {"match", "open", "exchange", "close"}
    /\ \/ ~Known(t) /\ Unknown(c, t)
       \/ Known(t) /\ TerminalAt(client[c].current) /\ Goto(c, "sealing")
       \/ /\ Known(t) /\ ~TerminalAt(client[c].current)
          /\ lease.state # "Ready" /\ Reply(c, "stale")
    /\ UNCHANGED <<now, lease, refs, sess, stale, keeper, ended>>

Admitted(c) ==
    /\ Known(client[c].token)
    /\ ~TerminalAt(client[c].current)
    /\ lease.state = "Ready"

(***************************************************************************)
(* open                                                                    *)
(***************************************************************************)
\* With a session id it only matches: the cached response is returned.
OpenMatch(c) ==
    LET t == client[c].token
        m == Matched(t, client[c].id, FALSE)
    IN
    /\ client[c].step = "match"
    /\ Admitted(c)
    /\ \/ /\ m = "slot" /\ sess[t].crypto /\ sess[t].id = client[c].id
          /\ lease' = [lease EXCEPT !.activity = now]
          /\ Reply(c, "ok")
       \/ /\ m = "slot" /\ ~(sess[t].crypto /\ sess[t].id = client[c].id)
          /\ Reply(c, "stale")
          /\ UNCHANGED lease
       \/ /\ m # "slot"
          /\ Reply(c, m)
          /\ UNCHANGED lease
    /\ UNCHANGED <<now, refs, sess, stale, keeper, ended>>

\* Without one it redeems the reference, once.
OpenBegin(c) ==
    LET t == client[c].token IN
    /\ client[c].step = "open"
    /\ Admitted(c)
    /\ IF refs[t].state = "Minted" /\ client[c].current < refs[t].expires
       THEN /\ refs' = [refs EXCEPT ![t].state = "Redeeming"]
            /\ Goto(c, "opening")
       ELSE /\ Reply(c, "stale")
            /\ UNCHANGED refs
    /\ UNCHANGED <<now, lease, sess, stale, keeper, ended>>

\* After the I/O: the lease became terminal meanwhile.
FinishTerminal(c) ==
    /\ client[c].step \in {"opening", "exchanging", "closing"}
    /\ lease.state # "None" /\ TerminalAt(now)
    /\ \E told \in IF client[c].step = "closing" THEN {TRUE} ELSE BOOLEAN :
          client' = [client EXCEPT ![c].step = "sealing", ![c].told = told]
    /\ UNCHANGED <<now, lease, refs, sess, stale, keeper, ended>>

\* open_session succeeded: the session is entered, unless the lease or its
\* reference went away.
OpenFinish(c) ==
    LET t == client[c].token IN
    /\ client[c].step = "opening"
    /\ ~TerminalAt(now)
    /\ \/ /\ lease.state = "Ready" /\ refs[t].state = "Redeeming"
          /\ refs' = [refs EXCEPT ![t].state = "Consumed"]
          /\ sess' = [sess EXCEPT ![t] = [live |-> TRUE, id |-> NoId, crypto |-> TRUE,
                                          reader |-> TRUE, last |-> now]]
          /\ lease' = [lease EXCEPT !.activity = now]
          /\ Reply(c, "ok")
       \/ /\ lease.state = "Ready" /\ refs[t].state # "Redeeming"
          /\ Answer(c, "stale", FALSE)
          /\ UNCHANGED <<lease, refs, sess>>
       \/ /\ lease.state # "Ready"
          /\ refs' = [refs EXCEPT ![t].state = IF Known(t) THEN "Stale" ELSE @]
          /\ Answer(c, "stale", FALSE)
          /\ UNCHANGED <<lease, sess>>
    /\ UNCHANGED <<now, stale, keeper, ended>>

\* open_session failed, and its failure says how far the request got.
OpenError(c) ==
    LET t == client[c].token IN
    /\ client[c].step = "opening"
    /\ ~TerminalAt(now)
    /\ Reply(c, "error")
    /\ refs' = [refs EXCEPT ![t].state = IF Known(t) THEN "Stale" ELSE @]
    /\ UNCHANGED <<now, lease, sess, stale, keeper, ended>>

(***************************************************************************)
(* exchange and close_session                                              *)
(***************************************************************************)
\* The first use of an opened session binds its id, in session and reference.
Bind(t, id) == refs' = [refs EXCEPT ![t].id = IF sess[t].id = NoId THEN id ELSE @]

\* A session that is gone leaves its reference as a tombstone.
Tombstone(t, id) ==
    refs' = [refs EXCEPT ![t].id = id, ![t].expires = now + SessionIdle]

ExchangeBegin(c) ==
    LET t == client[c].token
        m == Matched(t, client[c].id, TRUE)
    IN
    /\ client[c].step = "exchange"
    /\ Admitted(c)
    /\ \/ /\ m # "slot"
          /\ Reply(c, m)
          /\ UNCHANGED <<refs, sess>>
       \/ /\ m = "slot"
          /\ Bind(t, client[c].id)
          \* the reader is taken even when the crypto state then is missing
          /\ sess' = [sess EXCEPT ![t].id = client[c].id, ![t].reader = FALSE,
                                  ![t].crypto = @ /\ ~sess[t].reader]
          /\ IF sess[t].reader /\ sess[t].crypto
             THEN Goto(c, "exchanging")
             ELSE Reply(c, "stale")
    /\ UNCHANGED <<now, lease, stale, keeper, ended>>

\* The lease was sealed, or replaced, while the exchange was on the wire.
StillUsable(c, t) == lease.state = "Ready" /\ sess[t].live

ExchangeFinish(c) ==
    LET t == client[c].token IN
    /\ client[c].step = "exchanging"
    /\ ~TerminalAt(now)
    /\ \/ /\ ~StillUsable(c, t)
          /\ \E told \in BOOLEAN : Answer(c, "stale", told)
          /\ UNCHANGED <<lease, refs, sess, ended>>
       \/ /\ StillUsable(c, t)
          /\ sess' = [sess EXCEPT ![t].crypto = TRUE, ![t].reader = TRUE, ![t].last = now]
          /\ lease' = [lease EXCEPT !.activity = now]
          /\ Reply(c, "ok")
          /\ UNCHANGED <<refs, ended>>
       \/ /\ StillUsable(c, t)
          /\ Tombstone(t, client[c].id)
          /\ sess' = [sess EXCEPT ![t] = NoSession]
          /\ ended' = [ended EXCEPT ![t] = now]
          /\ Reply(c, "error")     \* transport_fail says how far the request got
          /\ UNCHANGED lease
    /\ UNCHANGED <<now, stale, keeper>>

CloseBegin(c) ==
    LET t == client[c].token
        m == Matched(t, client[c].id, TRUE)
    IN
    /\ client[c].step = "close"
    /\ Admitted(c)
    /\ \/ /\ m # "slot"
          /\ Reply(c, m)
          /\ UNCHANGED <<refs, sess>>
       \/ /\ m = "slot"
          /\ Bind(t, client[c].id)
          /\ sess' = [sess EXCEPT ![t].id = client[c].id, ![t].crypto = FALSE]
          /\ IF sess[t].crypto THEN Goto(c, "closing") ELSE Reply(c, "stale")
    /\ UNCHANGED <<now, lease, stale, keeper, ended>>

\* The session is removed whether or not the close record got through.
CloseFinish(c) ==
    LET t == client[c].token IN
    /\ client[c].step = "closing"
    /\ ~TerminalAt(now)
    /\ \/ /\ lease.state # "Ready" \/ ~Known(t)
          /\ Reply(c, "stale")
          /\ UNCHANGED <<refs, sess, ended>>
       \/ /\ lease.state = "Ready" /\ Known(t)
          /\ Tombstone(t, client[c].id)
          /\ sess' = [sess EXCEPT ![t] = NoSession]
          /\ ended' = [ended EXCEPT ![t] = now]
          /\ \E reply \in {"ok", "error"} : Reply(c, reply)
    /\ UNCHANGED <<now, lease, stale, keeper>>

(***************************************************************************)
(* Sealing and reaping the lease                                           *)
(***************************************************************************)
\* The ledger still accepts, so begin_close succeeds.
Unsealed == lease.state \in {"Ready", "Condemned"}

\* begin_close and what terminalize_lease does under Core's mutex.
SealLease ==
    /\ lease' = [lease EXCEPT !.state = "Closing"]
    /\ refs' = [t \in Tokens |->
                  IF Known(t)
                  THEN [refs[t] EXCEPT !.state = "Stale",
                           !.expires = IF refs[t].id # NoId THEN now + SessionIdle ELSE @]
                  ELSE refs[t]]
    /\ ended' = [t \in Tokens |-> IF sess[t].live /\ Known(t) THEN now ELSE ended[t]]

\* terminalize_lease for a request that found the lease terminal, or that
\* asked for it; a second caller only follows.
Terminalize(c) ==
    /\ client[c].step \in {"sealing", "releasing"}
    /\ IF Unsealed THEN SealLease ELSE UNCHANGED <<lease, refs, ended>>
    /\ Answer(c, IF client[c].step = "sealing" THEN "stale" ELSE "closed", client[c].told)
    /\ UNCHANGED <<now, sess, stale, keeper>>

\* close_lease: no look at the lease's state or age.
CloseLease(c) ==
    /\ client[c].step = "release"
    /\ IF Known(client[c].token) THEN Goto(c, "releasing") ELSE Unknown(c, client[c].token)
    /\ UNCHANGED <<now, lease, refs, sess, stale, keeper, ended>>

\* reap_terminal_lease, once the ledger has drained.
Reap ==
    /\ lease.state = "Closing"
    /\ ~Busy
    /\ stale' = [t \in Tokens |-> IF Known(t) THEN refs[t].expires ELSE stale[t]]
    /\ lease' = [lease EXCEPT !.state = "None"]
    /\ sess' = [t \in Tokens |-> NoSession]
    /\ UNCHANGED <<now, refs, client, keeper, ended>>

(***************************************************************************)
(* Maintenance: collect under the mutex, then act without it               *)
(***************************************************************************)
MaintainCollect ==
    /\ keeper.step = "idle"
    /\ lease.state = "Ready"
    /\ Prune
    /\ keeper' = IF TerminalAt(now)
                 THEN [keeper EXCEPT !.step = "sealing"]
                 ELSE [keeper EXCEPT !.step = "working",
                         !.due = {t \in Tokens : sess[t].live /\ sess[t].crypto
                                                 /\ now >= sess[t].last + SessionIdle}]
    /\ UNCHANGED <<now, lease, sess, client, ended>>

\* terminalize_lease of a lease collected as expired or lost
MaintainSeal ==
    /\ keeper.step = "sealing"
    /\ keeper' = [keeper EXCEPT !.step = "idle"]
    /\ IF Unsealed THEN SealLease ELSE UNCHANGED <<lease, refs, ended>>
    /\ UNCHANGED <<now, sess, stale, client>>

\* expire_session, up to its I/O.  It looks for the session, not at its age.
ExpireBegin(t) ==
    /\ keeper.step = "working"
    /\ t \in keeper.due
    /\ IF lease.state = "Ready" /\ sess[t].live /\ sess[t].crypto
       THEN /\ sess' = [sess EXCEPT ![t].crypto = FALSE]
            /\ keeper' = [step |-> "expiring", due |-> keeper.due \ {t}, token |-> t,
                          id |-> sess[t].id]
       ELSE /\ keeper' = [keeper EXCEPT !.due = @ \ {t}]
            /\ UNCHANGED sess
    /\ UNCHANGED <<now, lease, refs, stale, client, ended>>

\* The id is the one read before the I/O.
ExpireFinish ==
    LET t == keeper.token IN
    /\ keeper.step = "expiring"
    /\ keeper' = [keeper EXCEPT !.step = "working", !.id = NoId]
    /\ IF keeper.id # NoId /\ Known(t) THEN Tombstone(t, keeper.id) ELSE UNCHANGED refs
    /\ sess' = [sess EXCEPT ![t] = NoSession]
    /\ ended' = [ended EXCEPT ![t] = IF keeper.id # NoId /\ Known(t) THEN now ELSE @]
    /\ UNCHANGED <<now, lease, stale, client>>

MaintainDone ==
    /\ keeper.step = "working"
    /\ keeper.due = {}
    /\ keeper' = [keeper EXCEPT !.step = "idle"]
    /\ UNCHANGED <<now, lease, refs, sess, stale, client, ended>>

\* The fourth missed heartbeat.
HeartbeatLost ==
    /\ lease.state = "Ready" /\ ~lease.lost
    /\ lease' = [lease EXCEPT !.lost = TRUE]
    /\ UNCHANGED <<now, refs, sess, stale, client, keeper, ended>>

Tick ==
    /\ now < MaxTime
    /\ now' = now + 1
    /\ UNCHANGED <<lease, refs, sess, stale, client, keeper, ended>>

-----------------------------------------------------------------------------
Start(c) ==
    \E t \in Tokens :
        \/ \E step \in {"open", "release"} : Arrive(c, step, t, NoId)
        \/ \E id \in Ids, step \in {"match", "exchange", "close"} : Arrive(c, step, t, id)

Serve(c) ==
    \/ Blocked(c) \/ OpenMatch(c) \/ OpenBegin(c) \/ ExchangeBegin(c) \/ CloseBegin(c)
    \/ FinishTerminal(c) \/ OpenFinish(c) \/ OpenError(c) \/ ExchangeFinish(c)
    \/ CloseFinish(c) \/ CloseLease(c) \/ Terminalize(c)

Maintain == MaintainCollect \/ MaintainSeal \/ (\E t \in Tokens : ExpireBegin(t)) \/ ExpireFinish \/ MaintainDone

Next ==
    \/ \E c \in Clients : Start(c) \/ Serve(c) \/ Condemn(c)
    \/ \E t \in Tokens : Mint(t)
    \/ Reap \/ Maintain \/ HeartbeatLost \/ Tick

Spec == Init /\ [][Next]_vars

\* Threads run, raw I/O ends (it has a deadline), time passes, and the
\* maintenance loop keeps running.  Clients owe nothing.
Fairness ==
    /\ \A c \in Clients : WF_vars(Serve(c))
    /\ WF_vars(Reap) /\ WF_vars(Maintain) /\ WF_vars(Tick)

FairSpec == Spec /\ Fairness

-----------------------------------------------------------------------------
(***************************************************************************)
(* Properties                                                              *)
(***************************************************************************)
\* Who has the record state of t's session in hand.
Holders(t) ==
    {c \in Clients : client[c].step \in {"exchanging", "closing"} /\ client[c].token = t}

\* A session's record state (its nonces) is in one place: in the session, in
\* one exchange or close, or with the expiring keeper, whatever overlaps.
CryptoInOneHand ==
    \A t \in Tokens :
        /\ \A c, d \in Holders(t) : c = d
        /\ Holders(t) # {} => ~(keeper.step = "expiring" /\ keeper.token = t)
        /\ Holders(t) # {} \/ (keeper.step = "expiring" /\ keeper.token = t) => ~sess[t].crypto

\* While a request works on a session of a Ready lease, session and consumed
\* reference stay in their tables, so the `expect`s after the I/O hold:
\* neither prune nor maintenance removes them meanwhile.
WorkKeepsSession ==
    \A c \in Clients : client[c].step \in {"exchanging", "closing"} /\ lease.state = "Ready" =>
        sess[client[c].token].live /\ refs[client[c].token].state = "Consumed"

\* Both: nobody shares a session's record state or loses the session under it.
SessionsSound == TypeOK /\ CryptoInOneHand /\ WorkKeepsSession

\* A reference is redeemed once: from Minted it only moves forward, and a
\* session appears only out of its redemption.
RedeemOnce ==
    \A t \in Tokens :
        /\ refs[t].state # "unminted" => refs'[t].state \notin {"unminted", "Minted"}
                                         \/ refs'[t].state = refs[t].state
        /\ ~sess[t].live /\ sess'[t].live => refs[t].state = "Redeeming"

\* A session id is bound by the first use, in session and reference alike,
\* and is never replaced by another.
BindingStable ==
    \A t \in Tokens :
        /\ refs[t].id # NoId => refs'[t].id = refs[t].id
        /\ sess'[t].live /\ refs'[t].state = "Consumed" => sess'[t].id = refs'[t].id

\* "No event is ... reported successful after close/stale wins": once the
\* lease is sealed no open or exchange is answered with success, though its
\* I/O may have succeeded.
NoSuccessAfterSeal ==
    \A c \in Clients :
        client[c].step # "idle" /\ client'[c].reply = "ok" => lease.state = "Ready"

\* For the tombstone's life a client of a dead session is told it is stale:
\* it is never sent to select a Target again for a session bound to its id
\* that close_session, a failed exchange, expire_session or the seal made a
\* tombstone, however often prune ran.  Not every session gets one: between
\* the Condemn of a prepare and the seal, prune may drop the reference of a
\* live session, whose clients are then sent to selection at once.
TombstoneHonoured ==
    \A c \in Clients :
        LET t == client[c].token IN
        /\ client[c].step \in {"match", "exchange", "close"}
        /\ client[c].id = refs[t].id
        /\ ended[t] <= now /\ now < ended[t] + SessionIdle
        => client'[c].reply # "selection"

\* What no step of any client, of maintenance or of the clock may do.
SessionHistory ==
    [][RedeemOnce /\ BindingStable /\ NoSuccessAfterSeal /\ TombstoneHonoured]_vars

\* Every request is answered, and no lease outlives its absolute lifetime
\* whatever its clients do, though requests and maintenance seal it in turns.
RequestsAnswered == \A c \in Clients : (client[c].step # "idle") ~> (client[c].step = "idle")
LeaseEnds == <>(lease.state = "None")
ServedToTheEnd == RequestsAnswered /\ LeaseEnds

\* "full request emitted; no complete response | HandoffPossibleOrConfirmed"
\* (transport/contracts/v1/README.md:141).  The code does not keep this.
HandoffTold == \A c \in Clients : client[c].step = "idle" => client[c].told
=============================================================================
