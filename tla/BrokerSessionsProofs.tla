------------------------ MODULE BrokerSessionsProofs ------------------------
(***************************************************************************)
(* Proofs about the children of a lease.  Every request does its I/O with  *)
(* no lock held, so what it found before may be gone after.  The invariant *)
(* says what each thread that is out doing I/O can still rely on, what a   *)
(* token's session and reference have to do with each other, and how long  *)
(* the tombstone of an ended session stays readable.                       *)
(***************************************************************************)
EXTENDS BrokerSessions, TLAPS

Never == MaxTime + 1

\* The reference has not been redeemed yet.
Fresh(t) == refs[t].state \in {"unminted", "Minted", "Redeeming"}

Expiring(t) == keeper.step = "expiring" /\ keeper.token = t
Working(c) == client[c].step \in {"exchanging", "closing"}
Opening(c) == client[c].step = "opening"

\* A session comes out of a redeemed reference, is bound as its reference is, and ends once.
SessionBound(t) ==
    /\ Fresh(t) => ~sess[t].live /\ ~sess[t].crypto /\ refs[t].id = NoId /\ ended[t] = Never
    /\ sess[t].live /\ lease.state = "Ready" => refs[t].state = "Consumed" /\ ended[t] = Never
    /\ sess[t].live /\ refs[t].state = "Consumed" => sess[t].id = refs[t].id
    /\ ended[t] # Never => ended[t] <= now

\* The tombstone of an ended session: its reference, and after the reap the stale token.
TombstoneKept(t) ==
    ended[t] # Never /\ refs[t].id # NoId /\ now < ended[t] + SessionIdle =>
        /\ lease.state = "Ready" => refs[t].state = "Consumed"
        /\ lease.state # "None" => Known(t) /\ refs[t].expires >= ended[t] + SessionIdle
        /\ lease.state = "None" => stale[t] >= ended[t] + SessionIdle

\* What a request relies on between its two visits to the mutex.
RequestSound(c) ==
    LET t == client[c].token IN
    /\ Opening(c) => refs[t].state \in {"Redeeming", "Stale", "pruned"}
    /\ Working(c) => /\ ~Fresh(t) /\ ~sess[t].crypto /\ ~Expiring(t)
                     /\ lease.state = "Ready" => sess[t].live /\ refs[t].id = client[c].id
    /\ client[c].step \in {"match", "exchange", "close", "exchanging", "closing"} => client[c].id # NoId
    /\ client[c].step # "idle" => client[c].reply = "none"

\* A token has one opener and one worker at a time.
OneOpener == \A c, d \in Clients : Opening(c) /\ Opening(d) /\ client[c].token = client[d].token => c = d
OneWorker == \A c, d \in Clients : Working(c) /\ Working(d) /\ client[c].token = client[d].token => c = d

\* What maintenance relies on while it closes a session.
KeeperSound ==
    keeper.step = "expiring" =>
        LET t == keeper.token IN
        /\ ~Fresh(t) /\ ~sess[t].crypto
        /\ lease.state = "Ready" => sess[t].live
        /\ keeper.id # NoId => refs[t].id = keeper.id

SessionInv ==
    /\ TypeOK /\ OneOpener /\ OneWorker /\ KeeperSound
    /\ \A t \in Tokens : SessionBound(t) /\ TombstoneKept(t)
    /\ \A c \in Clients : RequestSound(c)

-----------------------------------------------------------------------------
(***************************************************************************)
(* What the steps have in common                                           *)
(***************************************************************************)
\* Only request c moved.
OthersWait(c) ==
    /\ client' \in [Clients -> Requests]
    /\ \A d \in Clients : d # c => client'[d] = client[d]

\* Request c was answered.
Answered(c) ==
    /\ OthersWait(c)
    /\ client'[c].step = "idle"

\* Request c went on to another step.
Moved(c, step) ==
    /\ OthersWait(c)
    /\ client'[c].step = step
    /\ client'[c].token = client[c].token
    /\ client'[c].id = client[c].id
    /\ client'[c].reply = client[c].reply

\* Only the session and the reference of t were touched.
TokensTyped ==
    /\ refs' \in [Tokens -> References]
    /\ sess' \in [Tokens -> Sessions]
    /\ ended' \in [Tokens -> Time \union {Never}]

OnlyToken(t) ==
    /\ TokensTyped
    /\ \A u \in Tokens : u # t => refs'[u] = refs[u] /\ sess'[u] = sess[u] /\ ended'[u] = ended[u]

Replies == {"none", "ok", "stale", "selection", "error", "closed"}

LEMMA TimeFacts ==
    /\ MaxTime \in Nat /\ SessionIdle \in Nat /\ ReferenceTTL \in Nat /\ SessionIdle > 0
    /\ Time \subseteq Nat /\ Later \subseteq Nat /\ 0 \in Time /\ 0 \in Later
    /\ Never \in Nat /\ Never \notin Time
    /\ \A n \in Time : n + SessionIdle \in Later /\ n + ReferenceTTL \in Later
    /\ NoId \notin Ids
  BY TimeAssumption DEF Time, Later, Never

LEMMA AnswerShape ==
    ASSUME TypeOK, NEW c \in Clients, NEW reply \in Replies, NEW told \in BOOLEAN, Answer(c, reply, told)
    PROVE  Answered(c) /\ client'[c].reply = reply
  <1>1. client[c] \in Requests /\ client \in [Clients -> Requests]
    BY DEF TypeOK
  <1>2. [client[c] EXCEPT !.step = "idle", !.id = NoId, !.current = 0,
                          !.reply = reply, !.told = told] \in Requests
    BY <1>1, TimeFacts DEF Requests, Replies
  <1>3. client' = [client EXCEPT ![c] = [client[c] EXCEPT !.step = "idle", !.id = NoId, !.current = 0,
                          !.reply = reply, !.told = told]]
    BY DEF Answer
  <1> QED BY <1>1, <1>2, <1>3 DEF Answered, OthersWait, Requests

LEMMA GotoShape ==
    ASSUME TypeOK, NEW c \in Clients,
           NEW step \in {"opening", "exchanging", "closing", "sealing", "releasing"}, Goto(c, step)
    PROVE  Moved(c, step)
  <1>1. client[c] \in Requests /\ client \in [Clients -> Requests]
    BY DEF TypeOK
  <1>2. [client[c] EXCEPT !.step = step] \in Requests
    BY <1>1 DEF Requests
  <1>3. client' = [client EXCEPT ![c] = [client[c] EXCEPT !.step = step]]
    BY DEF Goto
  <1> QED BY <1>1, <1>2, <1>3 DEF Moved, OthersWait, Requests

\* A step that touches one request and its token.
LEMMA TokenStep ==
    ASSUME SessionInv, NEW c \in Clients, NEW T \in Tokens,
           OthersWait(c), OnlyToken(T),
           now' = now, stale' = stale, keeper' = keeper, lease' \in Leases, lease'.state = lease.state,
           SessionBound(T)', TombstoneKept(T)', RequestSound(c)',
           keeper.token = T => KeeperSound',
           \A d \in Clients : d # c /\ client[d].token = T => RequestSound(d)',
           \A d \in Clients : d # c /\ Opening(c)' /\ Opening(d) => client[d].token # client'[c].token,
           \A d \in Clients : d # c /\ Working(c)' /\ Working(d) => client[d].token # client'[c].token
    PROVE  SessionInv'
  <1>1. TypeOK'
    BY DEF SessionInv, TypeOK, OthersWait, OnlyToken, TokensTyped, Never
  <1>2. OneOpener'
    BY DEF SessionInv, OneOpener, Opening, OthersWait
  <1>3. OneWorker'
    BY DEF SessionInv, OneWorker, Working, OthersWait
  <1>4. KeeperSound'
    <2>1. CASE keeper.token = T BY <2>1
    <2>2. CASE keeper.token # T
      <3>1. keeper.token \in Tokens BY DEF SessionInv, TypeOK, Keepers
      <3> QED BY <2>2, <3>1 DEF SessionInv, KeeperSound, OnlyToken, Fresh
    <2> QED BY <2>1, <2>2
  <1>5. ASSUME NEW t \in Tokens PROVE SessionBound(t)' /\ TombstoneKept(t)'
    <2>1. CASE t = T BY <2>1
    <2>2. CASE t # T
      <3>1. refs'[t] = refs[t] /\ sess'[t] = sess[t] /\ ended'[t] = ended[t] /\ stale'[t] = stale[t]
        BY <2>2 DEF OnlyToken
      <3>2. SessionBound(t) /\ TombstoneKept(t) BY DEF SessionInv
      <3>3. SessionBound(t)' BY <3>1, <3>2 DEF SessionBound, Fresh
      <3>4. TombstoneKept(t)' BY <3>1, <3>2 DEF TombstoneKept, Known
      <3> QED BY <3>3, <3>4
    <2> QED BY <2>1, <2>2
  <1>6. ASSUME NEW d \in Clients PROVE RequestSound(d)'
    <2>1. CASE d = c BY <2>1
    <2>2. CASE d # c /\ client[d].token = T BY <2>2
    <2>3. CASE d # c /\ client[d].token # T
      <3>1. client'[d] = client[d] /\ client[d].token \in Tokens
        BY <2>3 DEF OthersWait, SessionInv, TypeOK, Requests
      <3>2. RequestSound(d) BY DEF SessionInv
      <3> QED BY <2>3, <3>1, <3>2 DEF RequestSound, OnlyToken, Opening, Working, Fresh, Expiring
    <2> QED BY <2>1, <2>2, <2>3
  <1> QED BY <1>1, <1>2, <1>3, <1>4, <1>5, <1>6 DEF SessionInv

\* A request that goes away, or on to wait, touches nothing others rely on.
LEMMA RequestStep ==
    ASSUME SessionInv, NEW c \in Clients,
           OthersWait(c), client'[c].step \notin {"opening", "exchanging", "closing"},
           client'[c].step \in {"match", "exchange", "close"} => client'[c].id # NoId,
           client'[c].step # "idle" => client'[c].reply = "none",
           lease' \in Leases, lease'.state = lease.state,
           UNCHANGED <<now, refs, sess, stale, keeper, ended>>
    PROVE  SessionInv'
  <1>1. PICK T \in Tokens : T = client[c].token BY DEF SessionInv, TypeOK, Requests
  <1>2. OnlyToken(T) BY DEF SessionInv, TypeOK, OnlyToken, TokensTyped, Never
  <1>3. SessionBound(T)' BY <1>1 DEF SessionInv, SessionBound, Fresh
  <1>4. TombstoneKept(T)' BY <1>1 DEF SessionInv, TombstoneKept, Known
  <1>5. RequestSound(c)' BY DEF RequestSound, Opening, Working
  <1>6. KeeperSound' BY DEF SessionInv, KeeperSound, Fresh
  <1>7. \A d \in Clients : d # c => RequestSound(d)'
    BY DEF SessionInv, RequestSound, Opening, Working, OthersWait, Fresh, Expiring
  <1>8. ~Opening(c)' /\ ~Working(c)' BY DEF Opening, Working
  <1> QED BY <1>1, <1>2, <1>3, <1>4, <1>5, <1>6, <1>7, <1>8, TokenStep

(***************************************************************************)
(* prune                                                                   *)
(***************************************************************************)
PrunedAt(t) ==
    /\ refs'[t].id = refs[t].id /\ refs'[t].expires = refs[t].expires
    /\ refs'[t].state = refs[t].state \/ (Overdue(t) /\ refs'[t].state = "pruned")

MintedAt(t) ==
    /\ refs[t].state = "unminted" /\ refs'[t].state = "Minted"
    /\ refs'[t].id = refs[t].id

LEMMA PruneShape ==
    ASSUME TypeOK
    PROVE  /\ Pruned \in [Tokens -> References] /\ PrunedStale \in [Tokens -> Later]
           /\ refs' = Pruned => \A t \in Tokens : PrunedAt(t)
  <1>1. ASSUME NEW t \in Tokens PROVE refs[t] \in References /\ stale[t] \in Later
    BY DEF TypeOK
  <1>2. ASSUME NEW t \in Tokens PROVE [refs[t] EXCEPT !.state = "pruned"] \in References
    BY <1>1 DEF References
  <1>3. Pruned \in [Tokens -> References]
    BY <1>1, <1>2 DEF Pruned
  <1>4. PrunedStale \in [Tokens -> Later]
    BY <1>1, TimeFacts DEF PrunedStale
  <1>5. ASSUME refs' = Pruned, NEW t \in Tokens PROVE PrunedAt(t)
    BY <1>1, <1>5 DEF Pruned, PrunedAt, References
  <1> QED BY <1>3, <1>4, <1>5

\* A reference that prune removes is one nobody will ask for again: the
\* tombstone's life is over, and no live session hangs on it.
LEMMA PruneStep ==
    ASSUME SessionInv, refs' \in [Tokens -> References], stale' = PrunedStale,
           \A t \in Tokens : PrunedAt(t) \/ MintedAt(t),
           UNCHANGED <<now, lease, sess, ended>>,
           client' \in [Clients -> Requests], keeper' \in Keepers,
           \A c \in Clients :
              \/ client'[c] = client[c]
              \/ /\ client'[c].step \notin {"opening", "exchanging", "closing"}
                 /\ client'[c].step \in {"match", "exchange", "close"} => client'[c].id # NoId
                 /\ client'[c].reply = "none",
           keeper'.step = "expiring" => keeper' = keeper
    PROVE  SessionInv'
  <1>1. TypeOK'
    BY PruneShape DEF SessionInv, TypeOK
  <1>2. OneOpener'
    BY DEF SessionInv, OneOpener, Opening
  <1>3. OneWorker'
    BY DEF SessionInv, OneWorker, Working
  <1>4. KeeperSound'
    <2>1. SUFFICES ASSUME keeper'.step = "expiring" PROVE KeeperSound'
      BY DEF KeeperSound
    <2>2. keeper' = keeper /\ keeper.token \in Tokens
      BY <2>1 DEF SessionInv, TypeOK, Keepers
    <2>3. PrunedAt(keeper.token)
      BY <2>1, <2>2 DEF SessionInv, KeeperSound, Fresh, MintedAt
    <2> QED BY <2>1, <2>2, <2>3 DEF SessionInv, KeeperSound, Fresh, PrunedAt
  <1>5. ASSUME NEW t \in Tokens PROVE SessionBound(t)' /\ TombstoneKept(t)'
    <2>1. SessionBound(t) /\ TombstoneKept(t) /\ (PrunedAt(t) \/ MintedAt(t))
      BY DEF SessionInv
    <2>2. /\ now \in Nat /\ ended[t] \in Nat /\ stale[t] \in Nat /\ refs[t].expires \in Nat
          /\ SessionIdle \in Nat /\ Never \in Nat
      BY TimeFacts DEF SessionInv, TypeOK, References, Never
    <2>3. stale'[t] = IF now < stale[t] THEN stale[t] ELSE 0
      BY DEF PrunedStale
    <2>4. SessionBound(t)'
      BY <2>1, <2>2 DEF SessionBound, PrunedAt, MintedAt, Fresh, Overdue, Known
    <2>5. CASE MintedAt(t)
      BY <2>1, <2>4, <2>5 DEF MintedAt, SessionBound, TombstoneKept, Fresh
    <2>6. CASE PrunedAt(t)
      <3>1. SUFFICES ASSUME ended[t] # Never, refs[t].id # NoId, now < ended[t] + SessionIdle
                     PROVE  TombstoneKept(t)'
        BY <2>4, <2>6 DEF TombstoneKept, PrunedAt, Never
      <3>2. CASE lease.state = "None"
        BY <2>1, <2>2, <2>3, <3>1, <3>2 DEF TombstoneKept
      <3>3. CASE lease.state # "None"
        <4>1. ~Overdue(t)
          BY <2>1, <2>2, <3>1, <3>3 DEF TombstoneKept, Overdue
        <4> QED BY <2>1, <2>6, <3>1, <3>3, <4>1 DEF TombstoneKept, PrunedAt, Known
      <3> QED BY <3>2, <3>3
    <2> QED BY <2>1, <2>4, <2>5, <2>6
  <1>6. ASSUME NEW c \in Clients PROVE RequestSound(c)'
    <2>1. CASE client'[c] = client[c]
      <3>1. PICK T \in Tokens : T = client[c].token
        BY DEF SessionInv, TypeOK, Requests
      <3>2. RequestSound(c) /\ (PrunedAt(T) \/ MintedAt(T))
        BY DEF SessionInv
      <3>3. Expiring(T)' => Expiring(T)
        BY DEF Expiring
      <3> QED BY <2>1, <3>1, <3>2, <3>3 DEF RequestSound, PrunedAt, MintedAt, Opening, Working,
                 Fresh
    <2>2. CASE client'[c] # client[c]
      BY <2>2 DEF RequestSound, Opening, Working
    <2> QED BY <2>1, <2>2
  <1> QED BY <1>1, <1>2, <1>3, <1>4, <1>5, <1>6 DEF SessionInv

LEMMA ArriveKeeps ==
    ASSUME SessionInv, NEW c \in Clients, NEW t \in Tokens, NEW id \in Ids \union {NoId},
           NEW step \in {"open", "release", "match", "exchange", "close"},
           step \in {"match", "exchange", "close"} => id # NoId,
           Arrive(c, step, t, id)
    PROVE  SessionInv'
  <1>1. TypeOK /\ now \in Time /\ keeper' = keeper /\ keeper \in Keepers
    BY DEF SessionInv, TypeOK, Arrive
  <1>2. [step |-> step, token |-> t, id |-> id, current |-> now, reply |-> "none", told |-> TRUE] \in Requests
    BY <1>1 DEF Requests
  <1>3. client' \in [Clients -> Requests] /\ client'[c].step = step /\ client'[c].id = id
        /\ client'[c].reply = "none" /\ \A d \in Clients : d # c => client'[d] = client[d]
    BY <1>1, <1>2 DEF Arrive, TypeOK
  <1>4. refs' \in [Tokens -> References] /\ stale' = PrunedStale /\ \A u \in Tokens : PrunedAt(u)
    BY <1>1, PruneShape DEF Arrive, Prune
  <1>5. UNCHANGED <<now, lease, sess, ended>>
    BY DEF Arrive
  <1>6. step \notin {"opening", "exchanging", "closing"}
    OBVIOUS
  <1> QED BY <1>1, <1>3, <1>4, <1>5, <1>6, PruneStep

LEMMA MintKeeps ==
    ASSUME SessionInv, NEW t \in Tokens, Mint(t)
    PROVE  SessionInv'
  <1>1. TypeOK /\ now \in Time /\ keeper' = keeper /\ client' = client
        /\ keeper \in Keepers /\ client \in [Clients -> Requests]
    BY DEF SessionInv, TypeOK, Mint
  <1>2. Pruned[t] = refs[t] /\ refs[t] \in References
    BY <1>1 DEF Mint, Pruned, Overdue, Known, TypeOK
  <1>3. [refs[t] EXCEPT !.state = "Minted", !.expires = now + ReferenceTTL] \in References
    BY <1>1, <1>2, TimeFacts DEF References
  <1>4. refs' = [Pruned EXCEPT ![t] = [refs[t] EXCEPT !.state = "Minted", !.expires = now + ReferenceTTL]]
    BY <1>1, <1>2, PruneShape DEF Mint
  <1>5. refs' \in [Tokens -> References]
    BY <1>1, <1>3, <1>4, PruneShape
  <1>6. MintedAt(t)
    BY <1>1, <1>2, <1>4, PruneShape DEF Mint, MintedAt, References
  <1>7. ASSUME NEW u \in Tokens, u # t PROVE PrunedAt(u)
    <2>1. refs'[u] = Pruned[u] BY <1>1, <1>4, <1>7, PruneShape
    <2>2. refs[u] \in References BY <1>1 DEF TypeOK
    <2> QED BY <2>1, <2>2 DEF PrunedAt, Pruned, References
  <1>8. stale' = PrunedStale /\ UNCHANGED <<now, lease, sess, ended>>
    BY DEF Mint
  <1> QED BY <1>1, <1>5, <1>6, <1>7, <1>8, PruneStep

LEMMA MaintainCollectKeeps ==
    ASSUME SessionInv, MaintainCollect
    PROVE  SessionInv'
  <1>1. TypeOK /\ keeper \in Keepers /\ client' = client /\ client \in [Clients -> Requests]
    BY DEF SessionInv, TypeOK, MaintainCollect
  <1>2. refs' \in [Tokens -> References] /\ stale' = PrunedStale /\ \A u \in Tokens : PrunedAt(u)
    BY <1>1, PruneShape DEF MaintainCollect, Prune
  <1>3. keeper' \in Keepers /\ keeper'.step # "expiring"
    BY <1>1 DEF MaintainCollect, Keepers
  <1>4. UNCHANGED <<now, lease, sess, ended>>
    BY DEF MaintainCollect
  <1> QED BY <1>1, <1>2, <1>3, <1>4, PruneStep

(***************************************************************************)
(* Requests that only look                                                 *)
(***************************************************************************)
LEMMA UnknownShape ==
    ASSUME TypeOK, NEW c \in Clients, NEW t, Unknown(c, t)
    PROVE  Answered(c)
  BY AnswerShape DEF Unknown, Reply, Replies

LEMMA BlockedKeeps ==
    ASSUME SessionInv, NEW c \in Clients, Blocked(c)
    PROVE  SessionInv'
  <1>1. TypeOK /\ RequestSound(c) /\ lease \in Leases
    BY DEF SessionInv, TypeOK
  <1>2. UNCHANGED <<now, lease, refs, sess, stale, keeper, ended>>
    BY DEF Blocked
  <1>3. Answered(c) \/ Moved(c, "sealing")
    <2>1. CASE Unknown(c, client[c].token) BY <1>1, <2>1, UnknownShape
    <2>2. CASE Goto(c, "sealing") BY <1>1, <2>2, GotoShape
    <2>3. CASE Reply(c, "stale") BY <1>1, <2>3, AnswerShape DEF Reply, Replies
    <2> QED BY <2>1, <2>2, <2>3 DEF Blocked
  <1>4. client[c].reply = "none"
    BY <1>1 DEF Blocked, RequestSound
  <1>5. CASE Answered(c)
    BY <1>1, <1>2, <1>5, RequestStep DEF Answered
  <1>6. CASE Moved(c, "sealing")
    BY <1>1, <1>2, <1>4, <1>6, RequestStep DEF Moved
  <1> QED BY <1>3, <1>5, <1>6

LEMMA OpenMatchKeeps ==
    ASSUME SessionInv, NEW c \in Clients, OpenMatch(c)
    PROVE  SessionInv'
  <1>1. TypeOK /\ lease \in Leases /\ now \in Time
    BY DEF SessionInv, TypeOK
  <1>2. UNCHANGED <<now, refs, sess, stale, keeper, ended>>
    BY DEF OpenMatch
  <1>3. lease' \in Leases /\ lease'.state = lease.state
    BY <1>1 DEF OpenMatch, Leases
  <1>4. Answered(c)
    <2>1. PICK reply \in Replies : Reply(c, reply)
      BY DEF OpenMatch, Matched, Replies
    <2> QED BY <1>1, <2>1, AnswerShape DEF Reply
  <1> QED BY <1>2, <1>3, <1>4, RequestStep DEF Answered

LEMMA CloseLeaseKeeps ==
    ASSUME SessionInv, NEW c \in Clients, CloseLease(c)
    PROVE  SessionInv'
  <1>1. TypeOK /\ RequestSound(c) /\ lease \in Leases
    BY DEF SessionInv, TypeOK
  <1>2. UNCHANGED <<now, lease, refs, sess, stale, keeper, ended>>
    BY DEF CloseLease
  <1>3. Answered(c) \/ Moved(c, "releasing")
    BY <1>1, UnknownShape, GotoShape DEF CloseLease
  <1>4. client[c].reply = "none"
    BY <1>1 DEF CloseLease, RequestSound
  <1>5. CASE Answered(c)
    BY <1>1, <1>2, <1>5, RequestStep DEF Answered
  <1>6. CASE Moved(c, "releasing")
    BY <1>1, <1>2, <1>4, <1>6, RequestStep DEF Moved
  <1> QED BY <1>3, <1>5, <1>6

LEMMA FinishTerminalKeeps ==
    ASSUME SessionInv, NEW c \in Clients, FinishTerminal(c)
    PROVE  SessionInv'
  <1>1. TypeOK /\ RequestSound(c) /\ lease \in Leases /\ client \in [Clients -> Requests] /\ client[c] \in Requests
    BY DEF SessionInv, TypeOK
  <1>2. UNCHANGED <<now, lease, refs, sess, stale, keeper, ended>>
    BY DEF FinishTerminal
  <1>3. PICK told \in BOOLEAN : client' = [client EXCEPT ![c].step = "sealing", ![c].told = told]
    BY DEF FinishTerminal
  <1>4. client' = [client EXCEPT ![c] = [client[c] EXCEPT !.step = "sealing", !.told = told]]
    BY <1>1, <1>3
  <1>5. [client[c] EXCEPT !.step = "sealing", !.told = told] \in Requests
    BY <1>1 DEF Requests
  <1>6. OthersWait(c) /\ client'[c].step = "sealing" /\ client'[c].reply = client[c].reply
    BY <1>1, <1>4, <1>5 DEF OthersWait, Requests
  <1>7. client[c].reply = "none"
    BY <1>1 DEF FinishTerminal, RequestSound
  <1> QED BY <1>1, <1>2, <1>6, <1>7, RequestStep

(***************************************************************************)
(* open                                                                    *)
(***************************************************************************)
\* One reference is replaced.
LEMMA RefShape ==
    ASSUME TypeOK, NEW t \in Tokens, NEW r \in References, refs' = [refs EXCEPT ![t] = r]
    PROVE  refs' \in [Tokens -> References] /\ refs'[t] = r /\ \A u \in Tokens : u # t => refs'[u] = refs[u]
  BY DEF TypeOK

LEMMA RefStateShape ==
    ASSUME TypeOK, NEW t \in Tokens, NEW s \in {"Redeeming", "Consumed", "Stale"},
           refs' = [refs EXCEPT ![t].state = s]
    PROVE  /\ refs' \in [Tokens -> References] /\ \A u \in Tokens : u # t => refs'[u] = refs[u]
           /\ refs'[t].state = s /\ refs'[t].id = refs[t].id /\ refs'[t].expires = refs[t].expires
  <1>1. refs[t] \in References BY DEF TypeOK
  <1>2. [refs[t] EXCEPT !.state = s] \in References BY <1>1 DEF References
  <1>3. refs' = [refs EXCEPT ![t] = [refs[t] EXCEPT !.state = s]] OBVIOUS
  <1>4. refs' \in [Tokens -> References] /\ refs'[t] = [refs[t] EXCEPT !.state = s]
        /\ \A u \in Tokens : u # t => refs'[u] = refs[u]
    BY <1>2, <1>3, RefShape
  <1> QED BY <1>1, <1>4 DEF References

LEMMA OpenBeginKeeps ==
    ASSUME SessionInv, NEW c \in Clients, OpenBegin(c)
    PROVE  SessionInv'
  <1>0. TypeOK /\ RequestSound(c) /\ lease \in Leases
    BY DEF SessionInv, TypeOK
  <1>1. PICK T \in Tokens : T = client[c].token
    BY DEF SessionInv, TypeOK, Requests
  <1>2. UNCHANGED <<now, lease, sess, stale, keeper, ended>>
    BY DEF OpenBegin
  <1>3. CASE Reply(c, "stale") /\ UNCHANGED refs
    <2>1. Answered(c) BY <1>0, <1>3, AnswerShape DEF Reply, Replies
    <2> QED BY <1>0, <1>2, <1>3, <2>1, RequestStep DEF Answered
  <1>4. CASE /\ refs[T].state = "Minted" /\ refs' = [refs EXCEPT ![T].state = "Redeeming"]
             /\ Goto(c, "opening")
    <2>1. Moved(c, "opening") BY <1>0, <1>4, GotoShape
    <2>2. /\ refs' \in [Tokens -> References] /\ \A u \in Tokens : u # T => refs'[u] = refs[u]
          /\ refs'[T].state = "Redeeming" /\ refs'[T].id = refs[T].id /\ refs'[T].expires = refs[T].expires
      BY <1>0, <1>4, RefStateShape
    <2>3. OnlyToken(T)
      BY <1>0, <1>2, <2>2 DEF OnlyToken, TokensTyped, TypeOK, Never
    <2>4. SessionBound(T) /\ TombstoneKept(T) BY DEF SessionInv
    <2>5. SessionBound(T)' BY <1>2, <1>4, <2>2, <2>4 DEF SessionBound, Fresh
    <2>6. TombstoneKept(T)' BY <1>2, <1>4, <2>2, <2>4, <2>5 DEF SessionBound, TombstoneKept, Fresh
    <2>7. RequestSound(c)'
      BY <1>0, <1>1, <2>1, <2>2 DEF Moved, RequestSound, Opening, Working, OpenBegin
    <2>8. \A d \in Clients : client[d].token = T => ~Opening(d) /\ ~Working(d)
      BY <1>4 DEF SessionInv, RequestSound, Fresh
    <2>9. \A d \in Clients : d # c /\ client[d].token = T => RequestSound(d)'
      BY <2>1, <2>8 DEF SessionInv, RequestSound, Moved, OthersWait, Opening, Working
    <2>10. keeper.token = T => KeeperSound'
      BY <1>2, <1>4 DEF SessionInv, KeeperSound, Fresh
    <2>11. ~Working(c)' BY <2>1 DEF Moved, Working
    <2> QED BY <1>0, <1>1, <1>2, <2>1, <2>3, <2>5, <2>6, <2>7, <2>8, <2>9, <2>10, <2>11, TokenStep
            DEF Moved
  <1> QED BY <1>1, <1>3, <1>4 DEF OpenBegin

LEMMA OpenErrorKeeps ==
    ASSUME SessionInv, NEW c \in Clients, Answered(c), Opening(c), NEW T \in Tokens, T = client[c].token,
           refs' = [refs EXCEPT ![T].state = IF Known(T) THEN "Stale" ELSE @],
           UNCHANGED <<now, lease, sess, stale, keeper, ended>>
    PROVE  SessionInv'
  <1>0. TypeOK /\ RequestSound(c) /\ lease \in Leases
    BY DEF SessionInv, TypeOK
  <1>1. CASE ~Known(T)
    <2>1. refs' = refs BY <1>0, <1>1 DEF TypeOK, References
    <2> QED BY <1>0, <2>1, RequestStep DEF Answered
  <1>2. CASE Known(T)
    <2>1. /\ refs' \in [Tokens -> References] /\ \A u \in Tokens : u # T => refs'[u] = refs[u]
          /\ refs'[T].state = "Stale" /\ refs'[T].id = refs[T].id /\ refs'[T].expires = refs[T].expires
      BY <1>0, <1>2, RefStateShape
    <2>2. OnlyToken(T)
      BY <1>0, <2>1 DEF OnlyToken, TokensTyped, TypeOK, Never
    <2>3. SessionBound(T) /\ TombstoneKept(T) /\ refs[T].state \in {"Redeeming", "Stale"}
      BY <1>0, <1>2 DEF SessionInv, RequestSound, Known
    <2>4. SessionBound(T)' BY <2>1, <2>3 DEF SessionBound, Fresh
    <2>5. TombstoneKept(T)' BY <1>2, <2>1, <2>3 DEF SessionBound, TombstoneKept, Fresh, Known
    <2>6. RequestSound(c)' BY DEF RequestSound, Answered, Opening, Working
    <2>7. \A d \in Clients : d # c /\ client[d].token = T => RequestSound(d)'
      BY <2>1, <2>3 DEF SessionInv, RequestSound, Answered, OthersWait, Opening, Working, Fresh,
         Expiring
    <2>8. keeper.token = T => KeeperSound'
      BY <2>1 DEF SessionInv, KeeperSound, Fresh
    <2>9. ~Working(c)' /\ ~Opening(c)' BY DEF Answered, Working, Opening
    <2> QED BY <1>0, <2>2, <2>4, <2>5, <2>6, <2>7, <2>8, <2>9, TokenStep DEF Answered
  <1> QED BY <1>1, <1>2

LEMMA OpenFinishKeeps ==
    ASSUME SessionInv, NEW c \in Clients, OpenFinish(c)
    PROVE  SessionInv'
  <1>0. TypeOK /\ RequestSound(c) /\ lease \in Leases /\ now \in Time /\ Opening(c)
    BY DEF SessionInv, TypeOK, OpenFinish, Opening
  <1>1. PICK T \in Tokens : T = client[c].token
    BY DEF SessionInv, TypeOK, Requests
  <1>2. UNCHANGED <<now, stale, keeper, ended>>
    BY DEF OpenFinish
  <1>3. Answered(c)
    BY <1>0, AnswerShape DEF OpenFinish, Reply, Replies
  <1>4. CASE UNCHANGED <<lease, refs, sess>>
    BY <1>0, <1>2, <1>3, <1>4, RequestStep DEF Answered
  <1>5. CASE UNCHANGED <<lease, sess>> /\ refs' = [refs EXCEPT ![T].state = IF Known(T) THEN "Stale" ELSE @]
    BY <1>0, <1>1, <1>2, <1>3, <1>5, OpenErrorKeeps
  <1>6. CASE /\ lease.state = "Ready" /\ refs[T].state = "Redeeming"
             /\ refs' = [refs EXCEPT ![T].state = "Consumed"]
             /\ sess' = [sess EXCEPT ![T] = [live |-> TRUE, id |-> NoId, crypto |-> TRUE,
                                             reader |-> TRUE, last |-> now]]
             /\ lease' = [lease EXCEPT !.activity = now]
    <2>1. /\ refs' \in [Tokens -> References] /\ \A u \in Tokens : u # T => refs'[u] = refs[u]
          /\ refs'[T].state = "Consumed" /\ refs'[T].id = refs[T].id /\ refs'[T].expires = refs[T].expires
      BY <1>0, <1>6, RefStateShape
    <2>2. lease' \in Leases /\ lease'.state = "Ready"
      BY <1>0, <1>6 DEF Leases
    <2>3. sess' \in [Tokens -> Sessions] /\ \A u \in Tokens : u # T => sess'[u] = sess[u]
      BY <1>0, <1>6 DEF TypeOK, Sessions
    <2>4. sess'[T].live /\ sess'[T].id = NoId
      BY <1>0, <1>6 DEF TypeOK
    <2>5. OnlyToken(T)
      BY <1>0, <1>2, <2>1, <2>3 DEF OnlyToken, TokensTyped, TypeOK, Never
    <2>6. SessionBound(T) /\ TombstoneKept(T) BY DEF SessionInv
    <2>7. SessionBound(T)' BY <1>2, <1>6, <2>1, <2>4, <2>6 DEF SessionBound, Fresh, Never
    <2>8. TombstoneKept(T)' BY <1>2, <1>6, <2>1, <2>6 DEF SessionBound, TombstoneKept, Fresh, Never
    <2>9. RequestSound(c)' BY <1>3 DEF RequestSound, Answered, Opening, Working
    <2>10. ASSUME NEW d \in Clients, d # c, client[d].token = T PROVE RequestSound(d)'
      <3>1. RequestSound(d) /\ client'[d] = client[d]
        BY <1>3, <2>10 DEF SessionInv, Answered, OthersWait
      <3>2. ~Opening(d)
        BY <1>0, <1>1, <2>10 DEF SessionInv, OneOpener
      <3>3. ~Working(d)
        BY <1>6, <2>10, <3>1 DEF RequestSound, Fresh
      <3> QED BY <3>1, <3>2, <3>3 DEF RequestSound, Opening, Working
    <2>11. keeper.token = T => KeeperSound'
      BY <1>2, <1>6 DEF SessionInv, KeeperSound, Fresh
    <2>12. ~Working(c)' /\ ~Opening(c)' BY <1>3 DEF Answered, Working, Opening
    <2> QED BY <1>2, <1>3, <1>6, <2>2, <2>5, <2>7, <2>8, <2>9, <2>10, <2>11, <2>12, TokenStep
            DEF Answered
  <1> QED BY <1>1, <1>4, <1>5, <1>6 DEF OpenFinish

(***************************************************************************)
(* exchange and close_session                                              *)
(***************************************************************************)
LEMMA MatchedSlot ==
    ASSUME NEW t \in Tokens, NEW id, Matched(t, id, TRUE) = "slot"
    PROVE  refs[t].state = "Consumed" /\ refs[t].id \in {NoId, id} /\ sess[t].live /\ sess[t].id \in {NoId, id}
  BY DEF Matched

\* The session is bound; whoever takes its record state finds it untaken.
LEMMA BindKeeps ==
    ASSUME SessionInv, NEW c \in Clients, NEW T \in Tokens, T = client[c].token, client[c].id # NoId,
           lease.state = "Ready", Matched(T, client[c].id, TRUE) = "slot", Bind(T, client[c].id),
           sess' \in [Tokens -> Sessions], \A u \in Tokens : u # T => sess'[u] = sess[u],
           sess'[T].live, sess'[T].id = client[c].id, sess'[T].crypto => sess[T].crypto,
           Answered(c) \/ ((Moved(c, "exchanging") \/ Moved(c, "closing")) /\ sess[T].crypto /\ ~sess'[T].crypto),
           client[c].reply = "none",
           UNCHANGED <<now, lease, stale, keeper, ended>>
    PROVE  SessionInv'
  <1>0. /\ TypeOK /\ RequestSound(c) /\ lease \in Leases /\ refs[T] \in References
        /\ client[c].id \in Ids \union {NoId}
    BY DEF SessionInv, TypeOK, Requests
  <1>1. refs[T].state = "Consumed" /\ sess[T].live /\ sess[T].id = refs[T].id /\ refs[T].id \in {NoId, client[c].id}
    BY MatchedSlot DEF SessionInv, SessionBound
  <1>2. [refs[T] EXCEPT !.id = client[c].id] \in References
    BY <1>0 DEF References
  <1>3. refs' = [refs EXCEPT ![T] = [refs[T] EXCEPT !.id = client[c].id]]
    BY <1>0, <1>1 DEF Bind, References, TypeOK
  <1>4. refs' \in [Tokens -> References] /\ refs'[T] = [refs[T] EXCEPT !.id = client[c].id]
        /\ \A u \in Tokens : u # T => refs'[u] = refs[u]
    BY <1>0, <1>2, <1>3, RefShape
  <1>5. refs'[T].state = "Consumed" /\ refs'[T].id = client[c].id
    BY <1>0, <1>1, <1>4 DEF References
  <1>6. OnlyToken(T)
    BY <1>0, <1>4 DEF OnlyToken, TokensTyped, TypeOK, Never
  <1>7. SessionBound(T) /\ TombstoneKept(T) BY DEF SessionInv
  <1>8. SessionBound(T)' BY <1>1, <1>5, <1>7 DEF SessionBound, Fresh, Never
  <1>9. TombstoneKept(T)' BY <1>1, <1>7, <1>8 DEF SessionBound, TombstoneKept, Never
  <1>10. sess[T].crypto => ~Expiring(T) /\ \A d \in Clients : Working(d) => client[d].token # T
    BY DEF SessionInv, RequestSound, KeeperSound, Expiring
  <1>11. RequestSound(c)'
    <2>1. CASE Answered(c) BY <2>1 DEF RequestSound, Answered, Opening, Working
    <2>2. CASE ~Answered(c)
      <3>1. client'[c].token = T /\ client'[c].id = client[c].id /\ client'[c].reply = "none" /\ ~Opening(c)'
            /\ sess[T].crypto /\ ~sess'[T].crypto
        BY <2>2 DEF Moved, Opening
      <3>2. ~Expiring(T)' BY <1>10, <3>1 DEF Expiring
      <3> QED BY <1>5, <3>1, <3>2 DEF RequestSound, Fresh
    <2> QED BY <2>1, <2>2
  <1>12. ASSUME NEW d \in Clients, d # c, client[d].token = T PROVE RequestSound(d)'
    <2>1. RequestSound(d) /\ client'[d] = client[d]
      BY <1>12 DEF SessionInv, Answered, Moved, OthersWait
    <2>2. refs[T].id # NoId => refs'[T].id = refs[T].id
      BY <1>1, <1>5
    <2>3. ~Opening(d) BY <1>1, <1>12, <2>1 DEF RequestSound
    <2>4. ~Opening(d)' BY <2>1, <2>3 DEF Opening
    <2>5. Working(d)' => Working(d) /\ (Expiring(T)' <=> Expiring(T))
      BY <2>1 DEF Working, Expiring
    <2> QED BY <1>1, <1>5, <1>12, <2>1, <2>2, <2>4, <2>5 DEF RequestSound, Fresh, Working
  <1>13. keeper.token = T => KeeperSound'
    BY <1>1, <1>5 DEF SessionInv, KeeperSound, Fresh
  <1>14. OthersWait(c) /\ ~Opening(c)' BY DEF Answered, Moved, Opening
  <1>15. Working(c)' => client'[c].token = T /\ sess[T].crypto
    BY DEF Answered, Moved, Working
  <1> QED BY <1>0, <1>6, <1>8, <1>9, <1>10, <1>11, <1>12, <1>13, <1>14, <1>15, TokenStep

LEMMA ExchangeBeginKeeps ==
    ASSUME SessionInv, NEW c \in Clients, ExchangeBegin(c)
    PROVE  SessionInv'
  <1>0. TypeOK /\ RequestSound(c) /\ lease \in Leases
    BY DEF SessionInv, TypeOK
  <1>1. PICK T \in Tokens : T = client[c].token
    BY DEF SessionInv, TypeOK, Requests
  <1>2. UNCHANGED <<now, lease, stale, keeper, ended>> /\ lease.state = "Ready"
    BY DEF ExchangeBegin, Admitted
  <1>3. client[c].reply = "none" /\ client[c].id # NoId /\ client[c].id \in Ids \union {NoId}
    BY <1>0 DEF ExchangeBegin, RequestSound, TypeOK, Requests
  <1>4. CASE /\ Matched(T, client[c].id, TRUE) # "slot"
             /\ Reply(c, Matched(T, client[c].id, TRUE)) /\ UNCHANGED <<refs, sess>>
    <2>1. Matched(T, client[c].id, TRUE) \in Replies BY <1>4 DEF Matched, Replies
    <2>2. Answered(c) BY <1>0, <1>4, <2>1, AnswerShape DEF Reply
    <2> QED BY <1>0, <1>2, <1>4, <2>2, RequestStep DEF Answered
  <1>5. CASE /\ Matched(T, client[c].id, TRUE) = "slot" /\ Bind(T, client[c].id)
             /\ sess' = [sess EXCEPT ![T].id = client[c].id, ![T].reader = FALSE,
                                     ![T].crypto = @ /\ ~sess[T].reader]
             /\ IF sess[T].reader /\ sess[T].crypto THEN Goto(c, "exchanging") ELSE Reply(c, "stale")
    <2>1. sess[T] \in Sessions /\ sess \in [Tokens -> Sessions] BY <1>0 DEF TypeOK
    <2>2. PICK b \in BOOLEAN : b = (sess[T].crypto /\ ~sess[T].reader)
      BY <2>1 DEF Sessions
    <2>3. [sess[T] EXCEPT !.id = client[c].id, !.reader = FALSE, !.crypto = b] \in Sessions
      BY <1>3, <2>1 DEF Sessions
    <2>4. sess' = [sess EXCEPT ![T] = [sess[T] EXCEPT !.id = client[c].id, !.reader = FALSE, !.crypto = b]]
      BY <1>5, <2>1, <2>2
    <2>5. sess' \in [Tokens -> Sessions] /\ \A u \in Tokens : u # T => sess'[u] = sess[u]
      BY <2>1, <2>3, <2>4
    <2>6. sess'[T].live = sess[T].live /\ sess'[T].id = client[c].id /\ sess'[T].crypto = b
      BY <2>1, <2>4 DEF Sessions
    <2>7. sess[T].live BY <1>5, MatchedSlot
    <2>8. \/ Answered(c)
          \/ Moved(c, "exchanging") /\ sess[T].crypto /\ sess[T].reader
      BY <1>0, <1>5, AnswerShape, GotoShape DEF Reply, Replies
    <2>9. /\ sess'[T].live /\ (sess'[T].crypto => sess[T].crypto)
          /\ Answered(c) \/ ((Moved(c, "exchanging") \/ Moved(c, "closing")) /\ sess[T].crypto /\ ~sess'[T].crypto)
      <3>1. sess'[T].live BY <2>6, <2>7
      <3>2. sess'[T].crypto => sess[T].crypto BY <2>2, <2>6, Zenon
      <3>3. sess[T].reader /\ sess[T].crypto => ~sess'[T].crypto BY <2>2, <2>6, Zenon
      <3> QED BY <2>8, <3>1, <3>2, <3>3, Zenon
    <2>10. sess'[T].id = client[c].id /\ Matched(T, client[c].id, TRUE) = "slot" /\ Bind(T, client[c].id)
      BY <1>5, <2>6
    <2> QED BY <1>1, <1>2, <1>3, <2>5, <2>9, <2>10, BindKeeps
  <1> QED BY <1>1, <1>4, <1>5 DEF ExchangeBegin

LEMMA CloseBeginKeeps ==
    ASSUME SessionInv, NEW c \in Clients, CloseBegin(c)
    PROVE  SessionInv'
  <1>0. TypeOK /\ RequestSound(c) /\ lease \in Leases
    BY DEF SessionInv, TypeOK
  <1>1. PICK T \in Tokens : T = client[c].token
    BY DEF SessionInv, TypeOK, Requests
  <1>2. UNCHANGED <<now, lease, stale, keeper, ended>> /\ lease.state = "Ready"
    BY DEF CloseBegin, Admitted
  <1>3. client[c].reply = "none" /\ client[c].id # NoId /\ client[c].id \in Ids \union {NoId}
    BY <1>0 DEF CloseBegin, RequestSound, TypeOK, Requests
  <1>4. CASE /\ Matched(T, client[c].id, TRUE) # "slot"
             /\ Reply(c, Matched(T, client[c].id, TRUE)) /\ UNCHANGED <<refs, sess>>
    <2>1. Matched(T, client[c].id, TRUE) \in Replies BY <1>4 DEF Matched, Replies
    <2>2. Answered(c) BY <1>0, <1>4, <2>1, AnswerShape DEF Reply
    <2> QED BY <1>0, <1>2, <1>4, <2>2, RequestStep DEF Answered
  <1>5. CASE /\ Matched(T, client[c].id, TRUE) = "slot" /\ Bind(T, client[c].id)
             /\ sess' = [sess EXCEPT ![T].id = client[c].id, ![T].crypto = FALSE]
             /\ IF sess[T].crypto THEN Goto(c, "closing") ELSE Reply(c, "stale")
    <2>1. sess[T] \in Sessions /\ sess \in [Tokens -> Sessions] BY <1>0 DEF TypeOK
    <2>2. [sess[T] EXCEPT !.id = client[c].id, !.crypto = FALSE] \in Sessions
      BY <1>3, <2>1 DEF Sessions
    <2>3. sess' = [sess EXCEPT ![T] = [sess[T] EXCEPT !.id = client[c].id, !.crypto = FALSE]]
      BY <1>5, <2>1
    <2>4. sess' \in [Tokens -> Sessions] /\ \A u \in Tokens : u # T => sess'[u] = sess[u]
      BY <2>1, <2>2, <2>3
    <2>5. sess'[T].live = sess[T].live /\ sess'[T].id = client[c].id /\ ~sess'[T].crypto
      BY <2>1, <2>3 DEF Sessions
    <2>6. sess[T].live BY <1>5, MatchedSlot
    <2>7. Answered(c) \/ (Moved(c, "closing") /\ sess[T].crypto)
      <3>1. CASE sess[T].crypto /\ Goto(c, "closing") BY <1>0, <3>1, GotoShape
      <3>2. CASE Reply(c, "stale") BY <1>0, <3>2, AnswerShape DEF Reply, Replies
      <3> QED BY <1>5, <3>1, <3>2
    <2>8. /\ sess'[T].live /\ (sess'[T].crypto => sess[T].crypto)
          /\ Answered(c) \/ ((Moved(c, "exchanging") \/ Moved(c, "closing")) /\ sess[T].crypto /\ ~sess'[T].crypto)
      BY <2>5, <2>6, <2>7
    <2>9. sess'[T].id = client[c].id /\ Matched(T, client[c].id, TRUE) = "slot" /\ Bind(T, client[c].id)
      BY <1>5, <2>5
    <2> QED BY <1>1, <1>2, <1>3, <2>4, <2>8, <2>9, BindKeeps
  <1> QED BY <1>1, <1>4, <1>5 DEF CloseBegin

\* The session's reference becomes its tombstone.
LEMMA TombstoneShape ==
    ASSUME TypeOK, NEW T \in Tokens, NEW id \in Ids \union {NoId}, Tombstone(T, id)
    PROVE  /\ refs' \in [Tokens -> References] /\ \A u \in Tokens : u # T => refs'[u] = refs[u]
           /\ refs'[T].state = refs[T].state /\ refs'[T].id = id /\ refs'[T].expires = now + SessionIdle
  <1>1. refs[T] \in References /\ now \in Time BY DEF TypeOK
  <1>2. [refs[T] EXCEPT !.id = id, !.expires = now + SessionIdle] \in References
    BY <1>1, TimeFacts DEF References
  <1>3. refs' = [refs EXCEPT ![T] = [refs[T] EXCEPT !.id = id, !.expires = now + SessionIdle]]
    BY <1>1 DEF Tombstone, TypeOK
  <1>4. refs' \in [Tokens -> References] /\ refs'[T] = [refs[T] EXCEPT !.id = id, !.expires = now + SessionIdle]
        /\ \A u \in Tokens : u # T => refs'[u] = refs[u]
    BY <1>2, <1>3, RefShape
  <1> QED BY <1>1, <1>4 DEF References

\* The worker of a session removes it.
LEMMA RemoveKeeps ==
    ASSUME SessionInv, NEW c \in Clients, NEW T \in Tokens, T = client[c].token, Working(c),
           lease.state = "Ready", Tombstone(T, client[c].id), sess' = [sess EXCEPT ![T] = NoSession],
           ended' = [ended EXCEPT ![T] = now], Answered(c),
           UNCHANGED <<now, lease, stale, keeper>>
    PROVE  SessionInv'
  <1>0. /\ TypeOK /\ RequestSound(c) /\ lease \in Leases /\ client[c].id \in Ids \union {NoId}
        /\ now \in Time /\ SessionBound(T)
    BY DEF SessionInv, TypeOK, Requests
  <1>1. refs[T].state = "Consumed" /\ refs[T].id = client[c].id
    BY <1>0 DEF RequestSound, SessionBound
  <1>2. /\ refs' \in [Tokens -> References] /\ \A u \in Tokens : u # T => refs'[u] = refs[u]
        /\ refs'[T].state = refs[T].state /\ refs'[T].id = client[c].id /\ refs'[T].expires = now + SessionIdle
    BY <1>0, TombstoneShape
  <1>3. /\ sess' \in [Tokens -> Sessions] /\ \A u \in Tokens : u # T => sess'[u] = sess[u]
        /\ ~sess'[T].live /\ ~sess'[T].crypto
    BY <1>0, TimeFacts DEF TypeOK, Sessions, NoSession
  <1>4. /\ ended' \in [Tokens -> Time \union {Never}] /\ \A u \in Tokens : u # T => ended'[u] = ended[u]
        /\ ended'[T] = now
    BY <1>0 DEF TypeOK, Never
  <1>5. OnlyToken(T)
    BY <1>2, <1>3, <1>4 DEF OnlyToken, TokensTyped
  <1>6. now \in Nat /\ SessionIdle \in Nat /\ now # Never
    BY <1>0, TimeFacts
  <1>7. SessionBound(T)'
    BY <1>1, <1>2, <1>3, <1>4, <1>6 DEF SessionBound, Fresh, Never
  <1>8. TombstoneKept(T)'
    BY <1>1, <1>2, <1>4, <1>6 DEF TombstoneKept, Known
  <1>9. RequestSound(c)' BY DEF RequestSound, Answered, Opening, Working
  <1>10. ASSUME NEW d \in Clients, d # c, client[d].token = T PROVE RequestSound(d)'
    <2>1. RequestSound(d) /\ client'[d] = client[d] /\ ~Working(d)
      BY <1>10 DEF SessionInv, Answered, OthersWait, OneWorker
    <2>2. ~Opening(d) BY <1>1, <1>10, <2>1 DEF RequestSound
    <2> QED BY <2>1, <2>2 DEF RequestSound, Opening, Working
  <1>11. keeper.token = T => KeeperSound'
    BY <1>0 DEF RequestSound, Expiring, KeeperSound
  <1>12. OthersWait(c) /\ ~Opening(c)' /\ ~Working(c)' BY DEF Answered, Opening, Working
  <1> QED BY <1>0, <1>5, <1>7, <1>8, <1>9, <1>10, <1>11, <1>12, TokenStep

LEMMA ExchangeFinishKeeps ==
    ASSUME SessionInv, NEW c \in Clients, ExchangeFinish(c)
    PROVE  SessionInv'
  <1>0. /\ TypeOK /\ RequestSound(c) /\ lease \in Leases /\ now \in Time /\ Working(c)
    BY DEF SessionInv, TypeOK, ExchangeFinish, Working
  <1>1. PICK T \in Tokens : T = client[c].token
    BY DEF SessionInv, TypeOK, Requests
  <1>2. UNCHANGED <<now, stale, keeper>>
    BY DEF ExchangeFinish
  <1>3. Answered(c)
    BY <1>0, AnswerShape DEF ExchangeFinish, Reply, Replies
  <1>4. CASE UNCHANGED <<lease, refs, sess, ended>>
    BY <1>0, <1>2, <1>3, <1>4, RequestStep DEF Answered
  <1>5. CASE /\ lease.state = "Ready" /\ UNCHANGED lease /\ Tombstone(T, client[c].id)
             /\ sess' = [sess EXCEPT ![T] = NoSession] /\ ended' = [ended EXCEPT ![T] = now]
    BY <1>0, <1>1, <1>2, <1>3, <1>5, RemoveKeeps
  <1>6. CASE /\ lease.state = "Ready" /\ sess[T].live
             /\ sess' = [sess EXCEPT ![T].crypto = TRUE, ![T].reader = TRUE, ![T].last = now]
             /\ lease' = [lease EXCEPT !.activity = now] /\ UNCHANGED <<refs, ended>>
    <2>1. sess[T] \in Sessions /\ sess \in [Tokens -> Sessions] BY <1>0 DEF TypeOK
    <2>2. [sess[T] EXCEPT !.crypto = TRUE, !.reader = TRUE, !.last = now] \in Sessions
      BY <1>0, <2>1 DEF Sessions
    <2>3. sess' = [sess EXCEPT ![T] = [sess[T] EXCEPT !.crypto = TRUE, !.reader = TRUE, !.last = now]]
      BY <1>6, <2>1
    <2>4. sess' \in [Tokens -> Sessions] /\ \A u \in Tokens : u # T => sess'[u] = sess[u]
      BY <2>1, <2>2, <2>3
    <2>5. sess'[T].live = sess[T].live /\ sess'[T].id = sess[T].id
      BY <2>1, <2>3 DEF Sessions
    <2>6. lease' \in Leases /\ lease'.state = "Ready"
      BY <1>0, <1>6 DEF Leases
    <2>7. OnlyToken(T)
      BY <1>0, <1>6, <2>4 DEF OnlyToken, TokensTyped, TypeOK, Never
    <2>8. SessionBound(T) /\ TombstoneKept(T) /\ ~Fresh(T) BY <1>0, <1>1
                                                           DEF SessionInv, RequestSound
    <2>9. SessionBound(T)' BY <1>2, <1>6, <2>5, <2>6, <2>8 DEF SessionBound, Fresh, Never
    <2>10. TombstoneKept(T)' BY <1>2, <1>6, <2>6, <2>8 DEF TombstoneKept, Known, Never
    <2>11. RequestSound(c)' BY <1>3 DEF RequestSound, Answered, Opening, Working
    <2>12. ASSUME NEW d \in Clients, d # c, client[d].token = T PROVE RequestSound(d)'
      <3>1. RequestSound(d) /\ client'[d] = client[d] /\ ~Working(d)
        BY <1>0, <1>1, <1>3, <2>12 DEF SessionInv, Answered, OthersWait, OneWorker
      <3> QED BY <1>6, <3>1 DEF RequestSound, Opening, Working
    <2>13. keeper.token = T => KeeperSound'
      BY <1>0, <1>1, <1>2 DEF RequestSound, Expiring, KeeperSound
    <2>14. OthersWait(c) /\ ~Opening(c)' /\ ~Working(c)' BY <1>3 DEF Answered, Opening, Working
    <2> QED BY <1>2, <1>6, <2>6, <2>7, <2>9, <2>10, <2>11, <2>12, <2>13, <2>14, TokenStep
  <1> QED BY <1>1, <1>4, <1>5, <1>6 DEF ExchangeFinish, StillUsable

LEMMA CloseFinishKeeps ==
    ASSUME SessionInv, NEW c \in Clients, CloseFinish(c)
    PROVE  SessionInv'
  <1>0. /\ TypeOK /\ RequestSound(c) /\ lease \in Leases /\ now \in Time /\ Working(c)
    BY DEF SessionInv, TypeOK, CloseFinish, Working
  <1>1. PICK T \in Tokens : T = client[c].token
    BY DEF SessionInv, TypeOK, Requests
  <1>2. UNCHANGED <<now, lease, stale, keeper>>
    BY DEF CloseFinish
  <1>3. Answered(c)
    BY <1>0, AnswerShape DEF CloseFinish, Reply, Replies
  <1>4. CASE UNCHANGED <<refs, sess, ended>>
    BY <1>0, <1>2, <1>3, <1>4, RequestStep DEF Answered
  <1>5. CASE /\ lease.state = "Ready" /\ Tombstone(T, client[c].id)
             /\ sess' = [sess EXCEPT ![T] = NoSession] /\ ended' = [ended EXCEPT ![T] = now]
    BY <1>0, <1>1, <1>2, <1>3, <1>5, RemoveKeeps
  <1> QED BY <1>1, <1>4, <1>5 DEF CloseFinish

(***************************************************************************)
(* Sealing and reaping the lease                                           *)
(***************************************************************************)
\* What the seal leaves of one token.
SealedAt(t) ==
    /\ refs'[t].id = refs[t].id
    /\ IF Known(t)
       THEN /\ refs'[t].state = "Stale"
            /\ refs'[t].expires = IF refs[t].id # NoId THEN now + SessionIdle ELSE refs[t].expires
       ELSE refs'[t] = refs[t]
    /\ ended'[t] = IF sess[t].live /\ Known(t) THEN now ELSE ended[t]

LEMMA SealShape ==
    ASSUME TypeOK, SealLease
    PROVE  /\ lease' \in Leases /\ lease'.state = "Closing"
           /\ refs' \in [Tokens -> References] /\ ended' \in [Tokens -> Time \union {Never}]
           /\ \A t \in Tokens : SealedAt(t)
  <1>1. lease' \in Leases /\ lease'.state = "Closing"
    BY DEF TypeOK, SealLease, Leases
  <1>2. ended' \in [Tokens -> Time \union {Never}]
    BY DEF TypeOK, SealLease, Never
  <1>3. ASSUME NEW t \in Tokens
        PROVE  /\ refs[t] \in References
               /\ [refs[t] EXCEPT !.state = "Stale",
                      !.expires = IF refs[t].id # NoId THEN now + SessionIdle ELSE @] \in References
    <2>1. refs[t] \in References /\ now \in Time BY DEF TypeOK
    <2>2. now + SessionIdle \in Later BY <2>1, TimeFacts
    <2> QED BY <2>1, <2>2 DEF References
  <1>4. refs' \in [Tokens -> References]
    BY <1>3 DEF SealLease
  <1>5. ASSUME NEW t \in Tokens PROVE SealedAt(t)
    BY <1>3 DEF SealLease, SealedAt, References
  <1> QED BY <1>1, <1>2, <1>4, <1>5

\* Whoever seals: the references of live and of ended sessions all become
\* tombstones, and nobody at work relies on more.
LEMMA SealKeeps ==
    ASSUME SessionInv, SealLease, Unsealed, UNCHANGED <<now, sess, stale>>,
           client' \in [Clients -> Requests], keeper' \in Keepers,
           \A c \in Clients :
              \/ client'[c] = client[c]
              \/ client'[c].step = "idle",
           keeper'.step = "expiring" => keeper' = keeper
    PROVE  SessionInv'
  <1>0. /\ lease' \in Leases /\ lease'.state = "Closing"
        /\ refs' \in [Tokens -> References] /\ ended' \in [Tokens -> Time \union {Never}]
        /\ \A t \in Tokens : SealedAt(t)
    BY SealShape DEF SessionInv
  <1>1. TypeOK'
    BY <1>0 DEF SessionInv, TypeOK, Never
  <1>2. OneOpener'
    BY DEF SessionInv, OneOpener, Opening
  <1>3. OneWorker'
    BY DEF SessionInv, OneWorker, Working
  <1>4. \A t \in Tokens : ~Fresh(t) => ~Fresh(t)'
    BY <1>0 DEF SealedAt, Fresh
  <1>5. KeeperSound'
    <2>1. SUFFICES ASSUME keeper'.step = "expiring" PROVE KeeperSound'
      BY DEF KeeperSound
    <2>2. keeper' = keeper /\ keeper.token \in Tokens
      BY <2>1 DEF SessionInv, TypeOK, Keepers
    <2> QED BY <1>0, <1>4, <2>1, <2>2 DEF SessionInv, KeeperSound, SealedAt
  <1>6. ASSUME NEW t \in Tokens PROVE SessionBound(t)' /\ TombstoneKept(t)'
    <2>1. SessionBound(t) /\ TombstoneKept(t) /\ SealedAt(t)
      BY <1>0 DEF SessionInv
    <2>2. /\ now \in Nat /\ ended[t] \in Nat /\ refs[t].expires \in Nat /\ now # Never
          /\ SessionIdle \in Nat /\ Never \in Nat
      BY TimeFacts DEF SessionInv, TypeOK, References, Never
    <2>3. SessionBound(t)'
      BY <1>0, <2>1, <2>2 DEF SessionBound, SealedAt, Fresh, Known, Never
    <2>4. ended'[t] # Never /\ refs'[t].id # NoId /\ now < ended'[t] + SessionIdle
          => /\ Known(t) /\ refs'[t].expires = now + SessionIdle /\ ended'[t] <= now /\ refs'[t].state = "Stale"
      BY <2>1, <2>2 DEF SessionBound, TombstoneKept, SealedAt, Known, Unsealed
    <2>5. ended'[t] \in Nat
      BY <2>1, <2>2 DEF SealedAt
    <2>6. TombstoneKept(t)'
      BY <1>0, <2>2, <2>4, <2>5 DEF TombstoneKept, Known, Never
    <2> QED BY <2>3, <2>6
  <1>7. ASSUME NEW c \in Clients PROVE RequestSound(c)'
    <2>1. CASE client'[c] = client[c]
      <3>1. PICK T \in Tokens : T = client[c].token
        BY DEF SessionInv, TypeOK, Requests
      <3>2. RequestSound(c) /\ SealedAt(T)
        BY <1>0 DEF SessionInv
      <3>3. Expiring(T)' => Expiring(T)
        BY DEF Expiring
      <3> QED BY <1>0, <1>4, <2>1, <3>1, <3>2, <3>3 DEF RequestSound, SealedAt, Opening, Working
    <2>2. CASE client'[c].step = "idle"
      BY <2>2 DEF RequestSound, Opening, Working
    <2> QED BY <2>1, <2>2
  <1> QED BY <1>1, <1>2, <1>3, <1>5, <1>6, <1>7 DEF SessionInv

CondemnedAt(t) ==
    /\ refs'[t].id = refs[t].id /\ refs'[t].expires = refs[t].expires
    /\ refs'[t].state = IF ~Known(t) THEN refs[t].state ELSE IF Overdue(t) THEN "pruned" ELSE "Stale"

LEMMA CondemnShape ==
    ASSUME TypeOK, NEW c \in Clients, Condemn(c)
    PROVE  /\ lease' \in Leases /\ lease'.state = "Condemned"
           /\ refs' \in [Tokens -> References] /\ stale' \in [Tokens -> Later]
           /\ \A t \in Tokens : CondemnedAt(t)
           /\ OthersWait(c) /\ client'[c].step = "sealing" /\ client'[c].reply = "none"
  <1>1. lease' \in Leases /\ lease'.state = "Condemned"
    BY DEF TypeOK, Condemn, Leases
  <1>2. ASSUME NEW t \in Tokens
        PROVE  refs[t] \in References /\ [refs[t] EXCEPT !.state = "Stale"] \in References
    BY DEF TypeOK, References
  <1>3. refs' \in [Tokens -> References] /\ stale' \in [Tokens -> Later]
    BY <1>2, PruneShape DEF Condemn
  <1>4. ASSUME NEW t \in Tokens PROVE CondemnedAt(t)
    <2>1. refs[t] \in References BY DEF TypeOK
    <2>2. CASE Known(t) /\ ~Overdue(t) BY <2>1, <2>2 DEF Condemn, CondemnedAt, References
    <2>3. CASE ~Known(t) BY <2>3 DEF Condemn, CondemnedAt, Pruned, Overdue
    <2>4. CASE Overdue(t)
      <3>1. Known(t) /\ refs'[t] = [refs[t] EXCEPT !.state = "pruned"]
        BY <2>4 DEF Condemn, Pruned, Overdue
      <3> QED BY <2>1, <2>4, <3>1 DEF CondemnedAt, References
    <2> QED BY <2>2, <2>3, <2>4
  <1>5. client[c] \in Requests /\ client \in [Clients -> Requests]
    BY DEF TypeOK
  <1>6. [client[c] EXCEPT !.step = "sealing", !.reply = "none", !.told = TRUE] \in Requests
    BY <1>5 DEF Requests
  <1>7. client' = [client EXCEPT ![c] = [client[c] EXCEPT !.step = "sealing", !.reply = "none", !.told = TRUE]]
    BY <1>5 DEF Condemn
  <1>8. OthersWait(c) /\ client'[c].step = "sealing" /\ client'[c].reply = "none"
    BY <1>5, <1>6, <1>7 DEF OthersWait, Requests
  <1> QED BY <1>1, <1>3, <1>4, <1>8

\* A prepare that closes the lease makes its references stale, but no
\* tombstone that is owed is dropped.
LEMMA CondemnKeeps ==
    ASSUME SessionInv, NEW c \in Clients, Condemn(c)
    PROVE  SessionInv'
  <1>0. /\ lease' \in Leases /\ lease'.state = "Condemned"
        /\ refs' \in [Tokens -> References] /\ stale' \in [Tokens -> Later]
        /\ \A t \in Tokens : CondemnedAt(t)
        /\ OthersWait(c) /\ client'[c].step = "sealing" /\ client'[c].reply = "none"
    BY CondemnShape DEF SessionInv
  <1>1. UNCHANGED <<now, sess, keeper, ended>> /\ lease.state = "Ready"
    BY DEF Condemn
  <1>2. TypeOK'
    BY <1>0, <1>1 DEF SessionInv, TypeOK, OthersWait
  <1>3. OneOpener'
    BY <1>0 DEF SessionInv, OneOpener, Opening, OthersWait
  <1>4. OneWorker'
    BY <1>0 DEF SessionInv, OneWorker, Working, OthersWait
  <1>5. \A t \in Tokens : ~Fresh(t) => ~Fresh(t)'
    BY <1>0 DEF CondemnedAt, Fresh
  <1>6. KeeperSound'
    <2>1. SUFFICES ASSUME keeper.step = "expiring" PROVE KeeperSound'
      BY <1>1 DEF KeeperSound
    <2>2. keeper.token \in Tokens
      BY DEF SessionInv, TypeOK, Keepers
    <2> QED BY <1>0, <1>1, <1>5, <2>1, <2>2 DEF SessionInv, KeeperSound, CondemnedAt
  <1>7. ASSUME NEW t \in Tokens PROVE SessionBound(t)' /\ TombstoneKept(t)'
    <2>1. SessionBound(t) /\ TombstoneKept(t) /\ CondemnedAt(t)
      BY <1>0 DEF SessionInv
    <2>2. /\ now \in Nat /\ ended[t] \in Nat /\ refs[t].expires \in Nat
          /\ SessionIdle \in Nat /\ Never \in Nat
      BY TimeFacts DEF SessionInv, TypeOK, References, Never
    <2>3. SessionBound(t)'
      BY <1>0, <1>1, <2>1 DEF SessionBound, CondemnedAt, Fresh, Known, Never
    <2>4. SUFFICES ASSUME ended[t] # Never, refs[t].id # NoId, now < ended[t] + SessionIdle
                   PROVE  TombstoneKept(t)'
      BY <1>1, <2>1, <2>3 DEF TombstoneKept, CondemnedAt, Never
    <2>5. Known(t) /\ refs[t].expires >= ended[t] + SessionIdle
      BY <1>1, <2>1, <2>4 DEF TombstoneKept
    <2>6. ~Overdue(t)
      BY <2>2, <2>4, <2>5 DEF Overdue
    <2> QED BY <1>0, <1>1, <2>1, <2>5, <2>6 DEF TombstoneKept, CondemnedAt, Known
  <1>8. ASSUME NEW d \in Clients PROVE RequestSound(d)'
    <2>1. CASE d # c
      <3>1. PICK T \in Tokens : T = client[d].token
        BY DEF SessionInv, TypeOK, Requests
      <3>2. RequestSound(d) /\ CondemnedAt(T) /\ client'[d] = client[d]
        BY <1>0, <2>1 DEF SessionInv, OthersWait
      <3> QED BY <1>0, <1>1, <1>5, <3>1, <3>2 DEF RequestSound, CondemnedAt, Opening, Working, Expiring
    <2>2. CASE d = c
      BY <1>0, <2>2 DEF RequestSound, Opening, Working
    <2> QED BY <2>1, <2>2
  <1> QED BY <1>2, <1>3, <1>4, <1>6, <1>7, <1>8 DEF SessionInv

LEMMA TerminalizeKeeps ==
    ASSUME SessionInv, NEW c \in Clients, Terminalize(c)
    PROVE  SessionInv'
  <1>0. TypeOK /\ lease \in Leases /\ keeper \in Keepers /\ client[c].told \in BOOLEAN
    BY DEF SessionInv, TypeOK, Requests
  <1>1. UNCHANGED <<now, sess, stale, keeper>>
    BY DEF Terminalize
  <1>2. Answered(c)
    BY <1>0, AnswerShape DEF Terminalize, Replies
  <1>3. CASE SealLease /\ Unsealed
    BY <1>0, <1>1, <1>2, <1>3, SealKeeps DEF Answered, OthersWait
  <1>4. CASE UNCHANGED <<lease, refs, ended>>
    BY <1>0, <1>1, <1>2, <1>4, RequestStep DEF Answered
  <1> QED BY <1>3, <1>4 DEF Terminalize

\* Nothing but maintenance moved, and it does no I/O.
LEMMA KeeperStep ==
    ASSUME SessionInv, keeper' \in Keepers, keeper'.step # "expiring",
           UNCHANGED <<now, refs, sess, stale, client, ended, lease>>
    PROVE  SessionInv'
  <1>1. TypeOK' BY DEF SessionInv, TypeOK
  <1>2. OneOpener' /\ OneWorker' BY DEF SessionInv, OneOpener, OneWorker, Opening, Working
  <1>3. KeeperSound' BY DEF KeeperSound
  <1>4. \A t \in Tokens : SessionBound(t)' /\ TombstoneKept(t)'
    BY DEF SessionInv, SessionBound, TombstoneKept, Fresh, Known
  <1>5. \A c \in Clients : RequestSound(c)'
    BY DEF SessionInv, RequestSound, Opening, Working, Fresh, Expiring
  <1> QED BY <1>1, <1>2, <1>3, <1>4, <1>5 DEF SessionInv

LEMMA MaintainSealKeeps ==
    ASSUME SessionInv, MaintainSeal
    PROVE  SessionInv'
  <1>1. UNCHANGED <<now, sess, stale, client>> /\ client \in [Clients -> Requests] /\ keeper \in Keepers
    BY DEF MaintainSeal, SessionInv, TypeOK
  <1>2. keeper' \in Keepers /\ keeper'.step = "idle"
    BY <1>1 DEF MaintainSeal, Keepers
  <1>3. CASE SealLease /\ Unsealed
    BY <1>1, <1>2, <1>3, SealKeeps
  <1>4. CASE UNCHANGED <<lease, refs, ended>>
    BY <1>1, <1>2, <1>4, KeeperStep
  <1> QED BY <1>3, <1>4 DEF MaintainSeal

LEMMA MaintainDoneKeeps ==
    ASSUME SessionInv, MaintainDone
    PROVE  SessionInv'
  <1>1. keeper' \in Keepers /\ keeper'.step = "idle"
    BY DEF SessionInv, TypeOK, MaintainDone, Keepers
  <1> QED BY <1>1, KeeperStep DEF MaintainDone

\* The stale token takes over from the reference.
LEMMA ReapKeeps ==
    ASSUME SessionInv, Reap
    PROVE  SessionInv'
  <1>0. TypeOK /\ lease \in Leases /\ UNCHANGED <<now, refs, client, keeper, ended>>
    BY DEF SessionInv, TypeOK, Reap
  <1>1. lease' \in Leases /\ lease'.state = "None" /\ lease.state = "Closing"
    BY <1>0 DEF Reap, Leases
  <1>2. \A t \in Tokens : refs[t] \in References /\ refs[t].expires \in Later
    BY <1>0 DEF TypeOK, References
  <1>3. stale' \in [Tokens -> Later]
        /\ \A t \in Tokens : stale'[t] = IF Known(t) THEN refs[t].expires ELSE stale[t]
    BY <1>0, <1>2 DEF TypeOK, Reap
  <1>4. sess' \in [Tokens -> Sessions] /\ \A t \in Tokens : ~sess'[t].live /\ ~sess'[t].crypto
    BY TimeFacts DEF Reap, Sessions, NoSession
  <1>5. TypeOK'
    BY <1>0, <1>1, <1>3, <1>4 DEF TypeOK
  <1>6. (\A c \in Clients : ~Opening(c) /\ ~Working(c)) /\ keeper.step # "expiring"
    BY DEF Reap, Busy, Opening, Working
  <1>7. OneOpener' /\ OneWorker' /\ KeeperSound'
    BY <1>0, <1>6 DEF OneOpener, OneWorker, KeeperSound, Opening, Working
  <1>8. ASSUME NEW t \in Tokens PROVE SessionBound(t)' /\ TombstoneKept(t)'
    <2>1. SessionBound(t) /\ TombstoneKept(t) BY DEF SessionInv
    <2>2. SessionBound(t)' BY <1>0, <1>4, <2>1 DEF SessionBound, Fresh, Never
    <2>3. TombstoneKept(t)' BY <1>0, <1>1, <1>3, <2>1 DEF TombstoneKept, Never
    <2> QED BY <2>2, <2>3
  <1>9. \A c \in Clients : RequestSound(c)'
    BY <1>0, <1>6 DEF SessionInv, RequestSound, Opening, Working
  <1> QED BY <1>5, <1>7, <1>8, <1>9 DEF SessionInv

(***************************************************************************)
(* expire_session                                                          *)
(***************************************************************************)
LEMMA ExpireBeginKeeps ==
    ASSUME SessionInv, NEW T \in Tokens, ExpireBegin(T)
    PROVE  SessionInv'
  <1>0. TypeOK /\ keeper \in Keepers /\ sess[T] \in Sessions /\ sess \in [Tokens -> Sessions]
        /\ UNCHANGED <<now, lease, refs, stale, client, ended>>
    BY DEF SessionInv, TypeOK, ExpireBegin
  <1>1. CASE UNCHANGED sess /\ keeper' = [keeper EXCEPT !.due = @ \ {T}]
    <2>1. keeper' \in Keepers /\ keeper'.step = "working"
      BY <1>0, <1>1 DEF ExpireBegin, Keepers
    <2> QED BY <1>0, <1>1, <2>1, KeeperStep
  <1>2. CASE /\ lease.state = "Ready" /\ sess[T].live /\ sess[T].crypto
             /\ sess' = [sess EXCEPT ![T].crypto = FALSE]
             /\ keeper' = [step |-> "expiring", due |-> keeper.due \ {T}, token |-> T, id |-> sess[T].id]
    <2>1. [sess[T] EXCEPT !.crypto = FALSE] \in Sessions
      BY <1>0 DEF Sessions
    <2>2. sess' \in [Tokens -> Sessions] /\ sess'[T] = [sess[T] EXCEPT !.crypto = FALSE]
          /\ \A u \in Tokens : u # T => sess'[u] = sess[u]
      BY <1>0, <1>2, <2>1
    <2>3. sess'[T].live = sess[T].live /\ sess'[T].id = sess[T].id /\ ~sess'[T].crypto
      BY <1>0, <2>2 DEF Sessions
    <2>4. keeper' \in Keepers
      BY <1>0, <1>2 DEF Keepers, Sessions
    <2>5. TypeOK' BY <1>0, <2>2, <2>4 DEF TypeOK
    <2>6. OneOpener' /\ OneWorker'
      BY <1>0 DEF SessionInv, OneOpener, OneWorker, Opening, Working
    <2>7. SessionBound(T) /\ TombstoneKept(T) BY DEF SessionInv
    <2>8. ~Fresh(T) /\ sess[T].id = refs[T].id
      BY <1>2, <2>7 DEF SessionBound, Fresh
    <2>9. sess'[T].live BY <1>2, <2>3
    <2>10. KeeperSound'
      BY <1>0, <1>2, <2>3, <2>8, <2>9 DEF KeeperSound, Fresh
    <2>11. ASSUME NEW t \in Tokens PROVE SessionBound(t)' /\ TombstoneKept(t)'
      <3>1. TombstoneKept(t)' BY <1>0 DEF SessionInv, TombstoneKept, Known
      <3>2. CASE t # T BY <1>0, <2>2, <3>1, <3>2 DEF SessionInv, SessionBound, Fresh
      <3>3. CASE t = T BY <1>0, <2>3, <2>7, <2>8, <3>1, <3>3 DEF SessionBound, Fresh, Never
      <3> QED BY <3>2, <3>3
    <2>12. \A c \in Clients : Working(c) => client[c].token # T
      BY <1>2 DEF SessionInv, RequestSound
    <2>13. ASSUME NEW c \in Clients PROVE RequestSound(c)'
      <3>1. RequestSound(c) /\ client[c].token \in Tokens BY DEF SessionInv, TypeOK, Requests
      <3>2. CASE Working(c)
        <4>1. PICK u \in Tokens : u = client[c].token /\ u # T BY <2>12, <3>1, <3>2
        <4>2. sess'[u] = sess[u] /\ ~Expiring(u)' BY <1>2, <2>2, <4>1 DEF Expiring
        <4> QED BY <1>0, <3>1, <3>2, <4>1, <4>2 DEF RequestSound, Opening, Working, Fresh
      <3>3. CASE ~Working(c)
        BY <1>0, <3>1, <3>3 DEF RequestSound, Opening, Working
      <3> QED BY <3>2, <3>3
    <2> QED BY <2>5, <2>6, <2>10, <2>11, <2>13 DEF SessionInv
  <1> QED BY <1>1, <1>2 DEF ExpireBegin

LEMMA ExpireFinishKeeps ==
    ASSUME SessionInv, ExpireFinish
    PROVE  SessionInv'
  <1>0. /\ TypeOK /\ keeper \in Keepers /\ now \in Time /\ keeper.step = "expiring" /\ KeeperSound
        /\ sess \in [Tokens -> Sessions] /\ ended \in [Tokens -> Time \union {Never}]
        /\ UNCHANGED <<now, lease, stale, client>>
    BY DEF SessionInv, TypeOK, ExpireFinish, Never
  <1>1. PICK T \in Tokens : T = keeper.token
    BY <1>0 DEF Keepers
  <1>2. keeper' \in Keepers /\ keeper'.step = "working"
    BY <1>0 DEF ExpireFinish, Keepers
  <1>3. /\ refs' \in [Tokens -> References] /\ \A u \in Tokens : u # T => refs'[u] = refs[u]
        /\ refs'[T].state = refs[T].state /\ refs'[T].id = refs[T].id
        /\ refs'[T].expires = IF keeper.id # NoId /\ Known(T) THEN now + SessionIdle ELSE refs[T].expires
    <2>1. CASE keeper.id # NoId /\ Known(T)
      <3>1. Tombstone(T, keeper.id) /\ keeper.id \in Ids \union {NoId} /\ keeper.id = refs[T].id
        BY <1>0, <1>1, <2>1 DEF ExpireFinish, KeeperSound, Keepers
      <3> QED BY <1>0, <2>1, <3>1, TombstoneShape
    <2>2. CASE ~(keeper.id # NoId /\ Known(T))
      BY <1>0, <1>1, <2>2 DEF ExpireFinish, TypeOK
    <2> QED BY <2>1, <2>2
  <1>4. /\ sess' \in [Tokens -> Sessions] /\ \A u \in Tokens : u # T => sess'[u] = sess[u]
        /\ ~sess'[T].live /\ ~sess'[T].crypto
    BY <1>0, <1>1, TimeFacts DEF ExpireFinish, Sessions, NoSession
  <1>5. /\ ended' \in [Tokens -> Time \union {Never}] /\ \A u \in Tokens : u # T => ended'[u] = ended[u]
        /\ ended'[T] = IF keeper.id # NoId /\ Known(T) THEN now ELSE ended[T]
    BY <1>0, <1>1 DEF ExpireFinish
  <1>6. TypeOK' BY <1>0, <1>2, <1>3, <1>4, <1>5 DEF TypeOK, Never
  <1>7. OneOpener' /\ OneWorker'
    BY <1>0 DEF SessionInv, OneOpener, OneWorker, Opening, Working
  <1>8. KeeperSound' BY <1>2 DEF KeeperSound
  <1>9. ~Fresh(T) /\ ~Fresh(T)' BY <1>0, <1>1, <1>3 DEF KeeperSound, Fresh
  <1>10. ASSUME NEW t \in Tokens, t # T PROVE SessionBound(t)' /\ TombstoneKept(t)'
    <2>1. SessionBound(t) /\ TombstoneKept(t) /\ refs'[t] = refs[t] /\ sess'[t] = sess[t] /\ ended'[t] = ended[t]
      BY <1>3, <1>4, <1>5, <1>10 DEF SessionInv
    <2>2. SessionBound(t)' BY <1>0, <2>1 DEF SessionBound, Fresh, Never
    <2>3. TombstoneKept(t)' BY <1>0, <2>1 DEF TombstoneKept, Known, Never
    <2> QED BY <2>2, <2>3
  <1>11. SessionBound(T)' /\ TombstoneKept(T)'
    <2>1. SessionBound(T) /\ TombstoneKept(T) /\ now \in Nat /\ SessionIdle \in Nat /\ Never \in Nat
          /\ ended[T] \in Nat /\ refs[T].expires \in Nat /\ now # Never
      BY <1>0, TimeFacts DEF SessionInv, TypeOK, References
    <2>2. SessionBound(T)'
      BY <1>0, <1>4, <1>5, <1>9, <2>1 DEF SessionBound, Never
    <2>3. lease.state = "Ready" => refs[T].state = "Consumed" /\ ended[T] = Never
      BY <1>0, <1>1, <2>1 DEF KeeperSound, SessionBound
    <2>4. TombstoneKept(T)'
      <3>1. CASE lease.state = "Ready"
        BY <1>0, <1>3, <1>5, <2>1, <2>3, <3>1 DEF TombstoneKept, Known, Never
      <3>2. CASE lease.state # "Ready" /\ keeper.id # NoId /\ Known(T)
        BY <1>0, <1>3, <1>5, <2>1, <3>2 DEF TombstoneKept, Known, Never
      <3>3. CASE lease.state # "Ready" /\ ~(keeper.id # NoId /\ Known(T))
        <4>1. ended'[T] = ended[T] /\ (ended[T] # Never => ended[T] <= now)
          BY <1>5, <2>1, <3>3 DEF SessionBound
        <4> QED BY <1>0, <1>3, <2>1, <3>3, <4>1 DEF TombstoneKept, Known, Never
      <3> QED BY <3>1, <3>2, <3>3
    <2> QED BY <2>2, <2>4
  <1>12. ASSUME NEW c \in Clients PROVE RequestSound(c)'
    <2>1. RequestSound(c) /\ client[c].token \in Tokens BY DEF SessionInv, TypeOK, Requests
    <2>2. CASE client[c].token = T
      <3>1. ~Working(c) BY <1>0, <1>1, <2>1, <2>2 DEF RequestSound, Expiring
      <3> QED BY <1>0, <1>3, <2>1, <2>2, <3>1 DEF RequestSound, Opening, Working
    <2>3. CASE client[c].token # T
      <3>1. PICK u \in Tokens : u = client[c].token /\ u # T BY <2>1, <2>3
      <3>2. refs'[u] = refs[u] /\ sess'[u] = sess[u] /\ ~Expiring(u)'
        BY <1>2, <1>3, <1>4, <3>1 DEF Expiring
      <3> QED BY <1>0, <2>1, <3>1, <3>2 DEF RequestSound, Opening, Working, Fresh
    <2> QED BY <2>2, <2>3
  <1> QED BY <1>6, <1>7, <1>8, <1>10, <1>11, <1>12 DEF SessionInv

(***************************************************************************)
(* The lease is lost; time passes                                          *)
(***************************************************************************)
LEMMA HeartbeatLostKeeps ==
    ASSUME SessionInv, HeartbeatLost
    PROVE  SessionInv'
  <1>0. UNCHANGED <<now, refs, sess, stale, client, keeper, ended>>
    BY DEF HeartbeatLost
  <1>1. lease' \in Leases /\ lease'.state = lease.state
    BY DEF SessionInv, TypeOK, HeartbeatLost, Leases
  <1>2. TypeOK' BY <1>0, <1>1 DEF SessionInv, TypeOK
  <1>3. OneOpener' /\ OneWorker' BY <1>0 DEF SessionInv, OneOpener, OneWorker, Opening, Working
  <1>4. KeeperSound' BY <1>0, <1>1 DEF SessionInv, KeeperSound, Fresh
  <1>5. \A t \in Tokens : SessionBound(t)' /\ TombstoneKept(t)'
    BY <1>0, <1>1 DEF SessionInv, SessionBound, TombstoneKept, Fresh, Known
  <1>6. \A c \in Clients : RequestSound(c)'
    BY <1>0, <1>1 DEF SessionInv, RequestSound, Opening, Working, Fresh, Expiring
  <1> QED BY <1>2, <1>3, <1>4, <1>5, <1>6 DEF SessionInv

LEMMA TickKeeps ==
    ASSUME SessionInv, Tick
    PROVE  SessionInv'
  <1>0. UNCHANGED <<lease, refs, sess, stale, client, keeper, ended>>
    BY DEF Tick
  <1>1. now \in Nat /\ now' = now + 1 /\ now' \in Time
    BY TimeFacts DEF SessionInv, TypeOK, Tick, Time
  <1>2. TypeOK' BY <1>0, <1>1 DEF SessionInv, TypeOK
  <1>3. OneOpener' /\ OneWorker' BY <1>0 DEF SessionInv, OneOpener, OneWorker, Opening, Working
  <1>4. KeeperSound' BY <1>0 DEF SessionInv, KeeperSound, Fresh
  <1>5. ASSUME NEW t \in Tokens PROVE SessionBound(t)' /\ TombstoneKept(t)'
    <2>1. SessionBound(t) /\ TombstoneKept(t) /\ ended[t] \in Nat /\ SessionIdle \in Nat
      BY TimeFacts DEF SessionInv, TypeOK, Never
    <2>2. SessionBound(t)' BY <1>0, <1>1, <2>1 DEF SessionBound, Fresh, Never
    <2>3. now' < ended[t] + SessionIdle => now < ended[t] + SessionIdle BY <1>1, <2>1
    <2>4. TombstoneKept(t)' BY <1>0, <2>1, <2>3 DEF TombstoneKept, Known, Never
    <2> QED BY <2>2, <2>4
  <1>6. \A c \in Clients : RequestSound(c)'
    BY <1>0 DEF SessionInv, RequestSound, Opening, Working, Fresh, Expiring
  <1> QED BY <1>2, <1>3, <1>4, <1>5, <1>6 DEF SessionInv

-----------------------------------------------------------------------------
LEMMA SessionInit == Init => SessionInv
  <1> SUFFICES ASSUME Init PROVE SessionInv
    OBVIOUS
  <1>1. PICK k \in Tokens :
           /\ client = [c \in Clients |-> [step |-> "idle", token |-> k, id |-> NoId, current |-> 0,
                                            reply |-> "none", told |-> TRUE]]
           /\ keeper = [step |-> "idle", due |-> {}, token |-> k, id |-> NoId]
    BY DEF Init
  <1>2. TypeOK
    <2>1. client \in [Clients -> Requests] BY <1>1, TimeFacts DEF Requests
    <2>2. keeper \in Keepers BY <1>1 DEF Keepers
    <2>3. refs \in [Tokens -> References] BY TimeFacts DEF Init, References
    <2>4. sess \in [Tokens -> Sessions] BY TimeFacts DEF Init, Sessions, NoSession
    <2>5. lease \in Leases BY TimeFacts DEF Init, Leases
    <2>6. stale \in [Tokens -> Later] /\ ended \in [Tokens -> Time \union {MaxTime + 1}] /\ now \in Time
      BY TimeFacts DEF Init
    <2> QED BY <2>1, <2>2, <2>3, <2>4, <2>5, <2>6 DEF TypeOK
  <1>3. OneOpener /\ OneWorker /\ KeeperSound
    BY <1>1 DEF OneOpener, OneWorker, KeeperSound, Opening, Working
  <1>4. \A t \in Tokens : SessionBound(t) /\ TombstoneKept(t)
    BY DEF Init, SessionBound, TombstoneKept, Never, NoSession
  <1>5. \A c \in Clients : RequestSound(c)
    BY <1>1 DEF RequestSound, Opening, Working
  <1> QED BY <1>2, <1>3, <1>4, <1>5 DEF SessionInv

LEMMA StartKeeps ==
    ASSUME SessionInv, NEW c \in Clients, Start(c)
    PROVE  SessionInv'
  <1>1. PICK t \in Tokens :
           \/ \E step \in {"open", "release"} : Arrive(c, step, t, NoId)
           \/ \E id \in Ids, step \in {"match", "exchange", "close"} : Arrive(c, step, t, id)
    BY DEF Start
  <1>2. CASE \E step \in {"open", "release"} : Arrive(c, step, t, NoId)
    BY <1>2, ArriveKeeps
  <1>3. CASE \E id \in Ids, step \in {"match", "exchange", "close"} : Arrive(c, step, t, id)
    BY <1>3, ArriveKeeps, TimeFacts
  <1> QED BY <1>1, <1>2, <1>3

LEMMA OpenErrorStepKeeps ==
    ASSUME SessionInv, NEW c \in Clients, OpenError(c)
    PROVE  SessionInv'
  <1>1. PICK T \in Tokens : T = client[c].token
    BY DEF SessionInv, TypeOK, Requests
  <1>2. Answered(c)
    BY AnswerShape DEF OpenError, Reply, Replies, SessionInv
  <1>3. Opening(c) /\ UNCHANGED <<now, lease, sess, stale, keeper, ended>>
    BY DEF OpenError, Opening
  <1>4. refs' = [refs EXCEPT ![T].state = IF Known(T) THEN "Stale" ELSE @]
    BY <1>1 DEF OpenError
  <1> QED BY <1>1, <1>2, <1>3, <1>4, OpenErrorKeeps

LEMMA SessionNext ==
    ASSUME SessionInv, [Next]_vars
    PROVE  SessionInv'
  <1>1. ASSUME NEW c \in Clients, Start(c) PROVE SessionInv'
    BY <1>1, StartKeeps
  <1>2. ASSUME NEW c \in Clients, Serve(c) PROVE SessionInv'
    BY <1>2, BlockedKeeps, OpenMatchKeeps, OpenBeginKeeps, ExchangeBeginKeeps, CloseBeginKeeps,
       FinishTerminalKeeps, OpenFinishKeeps, OpenErrorStepKeeps, ExchangeFinishKeeps, CloseFinishKeeps,
       CloseLeaseKeeps, TerminalizeKeeps DEF Serve
  <1>3. ASSUME NEW t \in Tokens, Mint(t) PROVE SessionInv'
    BY <1>3, MintKeeps
  <1>4. ASSUME Maintain PROVE SessionInv'
    BY <1>4, MaintainCollectKeeps, MaintainSealKeeps, ExpireBeginKeeps, ExpireFinishKeeps,
       MaintainDoneKeeps DEF Maintain
  <1>5. CASE Reap BY <1>5, ReapKeeps
  <1>6. CASE HeartbeatLost BY <1>6, HeartbeatLostKeeps
  <1>7. CASE Tick BY <1>7, TickKeeps
  <1>9. ASSUME NEW c \in Clients, Condemn(c) PROVE SessionInv'
    BY <1>9, CondemnKeeps
  <1>8. CASE UNCHANGED vars
    <2>1. TypeOK' BY <1>8 DEF SessionInv, TypeOK, vars
    <2>2. OneOpener' /\ OneWorker' BY <1>8 DEF SessionInv, OneOpener, OneWorker, Opening, Working,
                                      vars
    <2>3. KeeperSound' BY <1>8 DEF SessionInv, KeeperSound, Fresh, vars
    <2>4. \A t \in Tokens : SessionBound(t)' /\ TombstoneKept(t)'
      BY <1>8 DEF SessionInv, SessionBound, TombstoneKept, Fresh, Known, vars
    <2>5. \A c \in Clients : RequestSound(c)'
      BY <1>8 DEF SessionInv, RequestSound, Opening, Working, Fresh, Expiring, vars
    <2> QED BY <2>1, <2>2, <2>3, <2>4, <2>5 DEF SessionInv
  <1> QED BY <1>1, <1>2, <1>3, <1>4, <1>5, <1>6, <1>7, <1>8, <1>9 DEF Next

\* What a thread relies on while it is out is what makes its session its own.
LEMMA SessionInvSound == SessionInv => SessionsSound
  <1> SUFFICES ASSUME SessionInv PROVE SessionsSound
    OBVIOUS
  <1>1. TypeOK BY DEF SessionInv
  <1>2. ASSUME NEW t \in Tokens
        PROVE  /\ \A c, d \in Holders(t) : c = d
               /\ Holders(t) # {} => ~Expiring(t)
               /\ Holders(t) # {} \/ Expiring(t) => ~sess[t].crypto
    <2>1. \A c \in Holders(t) : c \in Clients /\ Working(c) /\ client[c].token = t
      BY DEF Holders, Working
    <2>2. \A c, d \in Holders(t) : c = d
      BY <2>1 DEF SessionInv, OneWorker
    <2>3. \A c \in Holders(t) : ~Expiring(t) /\ ~sess[t].crypto
      BY <2>1 DEF SessionInv, RequestSound
    <2>4. Expiring(t) => ~sess[t].crypto
      BY DEF SessionInv, KeeperSound, Expiring
    <2> QED BY <2>2, <2>3, <2>4
  <1>3. CryptoInOneHand BY <1>2 DEF CryptoInOneHand, Expiring
  <1>4. WorkKeepsSession
    <2>1. ASSUME NEW c \in Clients, Working(c), lease.state = "Ready"
          PROVE  sess[client[c].token].live /\ refs[client[c].token].state = "Consumed"
      <3>1. PICK T \in Tokens : T = client[c].token
        BY <1>1 DEF TypeOK, Requests
      <3>2. sess[T].live BY <2>1, <3>1 DEF SessionInv, RequestSound
      <3> QED BY <2>1, <3>1, <3>2 DEF SessionInv, SessionBound
    <2> QED BY <2>1 DEF WorkKeepsSession, Working
  <1> QED BY <1>1, <1>3, <1>4 DEF SessionsSound

\* However requests, maintenance, the seal and the clock overlap, the record
\* state of a session is in one hand, and a request that comes back from its
\* I/O under a Ready lease finds its session and its consumed reference.
THEOREM SessionsSoundHolds == Spec => []SessionsSound
  <1>1. Init => SessionInv BY SessionInit
  <1>2. SessionInv /\ [Next]_vars => SessionInv' BY SessionNext
  <1> QED BY <1>1, <1>2, SessionInvSound, PTL DEF Spec

-----------------------------------------------------------------------------
(***************************************************************************)
(* What no step may do                                                     *)
(***************************************************************************)
\* What a step may do to one token.
TokenForward(t) ==
    /\ refs[t].state # "unminted" => \/ refs'[t].state \notin {"unminted", "Minted"}
                                     \/ refs'[t].state = refs[t].state
    /\ ~sess[t].live /\ sess'[t].live => refs[t].state = "Redeeming"
    /\ refs[t].id # NoId => refs'[t].id = refs[t].id

LEMMA PruneForward ==
    ASSUME TypeOK, refs' = Pruned, UNCHANGED sess
    PROVE  \A t \in Tokens : TokenForward(t)
  BY PruneShape DEF PrunedAt, TokenForward

LEMMA MintForward ==
    ASSUME TypeOK, NEW t \in Tokens, Mint(t)
    PROVE  \A u \in Tokens : TokenForward(u)
  <1>1. ASSUME NEW u \in Tokens, u # t PROVE TokenForward(u)
    <2>1. refs'[u] = Pruned[u] /\ refs[u] \in References BY <1>1, PruneShape DEF Mint, TypeOK
    <2> QED BY <2>1 DEF Mint, TokenForward, Pruned, References
  <1>2. TokenForward(t)
    <2>1. Pruned[t] = refs[t] /\ refs[t] \in References
      BY DEF Mint, Pruned, Overdue, Known, TypeOK
    <2>2. refs'[t].id = refs[t].id BY <2>1, PruneShape DEF Mint, References
    <2> QED BY <2>2 DEF Mint, TokenForward
  <1> QED BY <1>1, <1>2

LEMMA OpenForward ==
    ASSUME SessionInv, NEW c \in Clients, OpenBegin(c) \/ OpenFinish(c) \/ OpenError(c)
    PROVE  \A t \in Tokens : TokenForward(t)
  <1>0. TypeOK /\ refs \in [Tokens -> References] BY DEF SessionInv, TypeOK
  <1>1. PICK T \in Tokens : T = client[c].token
    BY DEF SessionInv, TypeOK, Requests
  <1>2. \/ UNCHANGED refs
        \/ refs[T].state = "Minted" /\ refs' = [refs EXCEPT ![T].state = "Redeeming"]
        \/ refs' = [refs EXCEPT ![T].state = "Consumed"]
        \/ Known(T) /\ refs' = [refs EXCEPT ![T].state = "Stale"]
        \/ refs' = [refs EXCEPT ![T].state = refs[T].state]
    BY <1>1 DEF OpenBegin, OpenFinish, OpenError
  <1>3. ASSUME NEW t \in Tokens
        PROVE  /\ refs[t].state # "unminted" => \/ refs'[t].state \notin {"unminted", "Minted"}
                                                \/ refs'[t].state = refs[t].state
               /\ refs'[t].id = refs[t].id
    <2>1. refs[t] \in References /\ refs[T] \in References BY <1>0
    <2> QED BY <1>0, <1>2, <2>1 DEF References
  <1>4. ASSUME NEW t \in Tokens PROVE ~sess[t].live /\ sess'[t].live => refs[t].state = "Redeeming"
    <2>1. \/ UNCHANGED sess
          \/ /\ refs[T].state = "Redeeming"
             /\ sess' = [sess EXCEPT ![T] = [live |-> TRUE, id |-> NoId, crypto |-> TRUE,
                                             reader |-> TRUE, last |-> now]]
      BY <1>1 DEF OpenBegin, OpenFinish, OpenError
    <2> QED BY <1>0, <2>1 DEF TypeOK
  <1> QED BY <1>3, <1>4 DEF TokenForward

LEMMA BindForward ==
    ASSUME SessionInv, NEW c \in Clients, ExchangeBegin(c) \/ CloseBegin(c)
    PROVE  \A t \in Tokens : TokenForward(t)
  <1>0. TypeOK /\ refs \in [Tokens -> References] /\ sess \in [Tokens -> Sessions]
    BY DEF SessionInv, TypeOK
  <1>1. PICK T \in Tokens : T = client[c].token
    BY DEF SessionInv, TypeOK, Requests
  <1>2. CASE UNCHANGED <<refs, sess>> BY <1>2 DEF TokenForward
  <1>3. CASE /\ Matched(T, client[c].id, TRUE) = "slot" /\ Bind(T, client[c].id)
             /\ \/ sess' = [sess EXCEPT ![T].id = client[c].id, ![T].reader = FALSE,
                                        ![T].crypto = @ /\ ~sess[T].reader]
                \/ sess' = [sess EXCEPT ![T].id = client[c].id, ![T].crypto = FALSE]
    <2>1. refs[T].state = "Consumed" /\ sess[T].live /\ sess[T].id = refs[T].id
      BY <1>3, MatchedSlot DEF SessionInv, SessionBound
    <2>2. ASSUME NEW t \in Tokens PROVE refs'[t].state = refs[t].state /\ (refs[t].id # NoId => refs'[t].id = refs[t].id)
      <3>1. refs[t] \in References BY <1>0
      <3> QED BY <1>0, <1>3, <2>1, <3>1 DEF Bind, References
    <2>3. ASSUME NEW t \in Tokens PROVE sess'[t].live => sess[t].live
      <3>1. CASE t = T BY <2>1, <3>1
      <3>2. CASE t # T BY <1>0, <1>3, <3>2
      <3> QED BY <3>1, <3>2
    <2> QED BY <2>2, <2>3 DEF TokenForward
  <1> QED BY <1>1, <1>2, <1>3 DEF ExchangeBegin, CloseBegin

LEMMA FinishForward ==
    ASSUME SessionInv, NEW c \in Clients, ExchangeFinish(c) \/ CloseFinish(c)
    PROVE  \A t \in Tokens : TokenForward(t)
  <1>0. TypeOK /\ sess \in [Tokens -> Sessions] /\ Working(c) /\ RequestSound(c)
    BY DEF SessionInv, TypeOK, ExchangeFinish, CloseFinish, Working
  <1>1. PICK T \in Tokens : T = client[c].token
    BY DEF SessionInv, TypeOK, Requests
  <1>2. CASE UNCHANGED <<refs, sess>> BY <1>2 DEF TokenForward
  <1>3. CASE lease.state = "Ready" /\ Tombstone(T, client[c].id) /\ sess' = [sess EXCEPT ![T] = NoSession]
    <2>1. refs[T].id = client[c].id /\ client[c].id \in Ids \union {NoId}
      BY <1>0, <1>1, <1>3 DEF RequestSound, TypeOK, Requests
    <2>2. /\ \A u \in Tokens : u # T => refs'[u] = refs[u]
          /\ refs'[T].state = refs[T].state /\ refs'[T].id = refs[T].id
      BY <1>0, <1>3, <2>1, TombstoneShape
    <2>3. ASSUME NEW t \in Tokens PROVE sess'[t].live => sess[t].live
      BY <1>0, <1>3 DEF NoSession
    <2> QED BY <2>2, <2>3 DEF TokenForward
  <1>4. CASE /\ UNCHANGED refs /\ sess[T].live
             /\ sess' = [sess EXCEPT ![T].crypto = TRUE, ![T].reader = TRUE, ![T].last = now]
    <2>1. ASSUME NEW t \in Tokens PROVE sess'[t].live => sess[t].live
      <3>1. CASE t = T BY <1>4, <3>1
      <3>2. CASE t # T BY <1>0, <1>4, <3>2
      <3> QED BY <3>1, <3>2
    <2> QED BY <1>4, <2>1 DEF TokenForward
  <1> QED BY <1>1, <1>2, <1>3, <1>4 DEF ExchangeFinish, CloseFinish, StillUsable

LEMMA ExpireForward ==
    ASSUME SessionInv, ExpireFinish \/ \E t \in Tokens : ExpireBegin(t)
    PROVE  \A t \in Tokens : TokenForward(t)
  <1>0. TypeOK /\ sess \in [Tokens -> Sessions] /\ keeper \in Keepers /\ KeeperSound
    BY DEF SessionInv, TypeOK
  <1>1. CASE ExpireFinish
    <2>1. PICK T \in Tokens : T = keeper.token BY <1>0 DEF Keepers
    <2>2. UNCHANGED refs \/ (keeper.id # NoId /\ Tombstone(T, keeper.id))
      BY <1>1, <2>1 DEF ExpireFinish
    <2>3. /\ \A u \in Tokens : u # T => refs'[u] = refs[u]
          /\ refs'[T].state = refs[T].state /\ refs'[T].id = refs[T].id
      <3>1. CASE UNCHANGED refs BY <3>1
      <3>2. CASE keeper.id # NoId /\ Tombstone(T, keeper.id)
        <4>1. refs[T].id = keeper.id /\ keeper.id \in Ids \union {NoId}
          BY <1>0, <1>1, <2>1, <3>2 DEF KeeperSound, ExpireFinish, Keepers
        <4> QED BY <1>0, <3>2, <4>1, TombstoneShape
      <3> QED BY <2>2, <3>1, <3>2
    <2>4. ASSUME NEW t \in Tokens PROVE sess'[t].live => sess[t].live
      BY <1>0, <1>1, <2>1 DEF ExpireFinish, NoSession
    <2> QED BY <2>3, <2>4 DEF TokenForward
  <1>2. ASSUME NEW T \in Tokens, ExpireBegin(T) PROVE \A t \in Tokens : TokenForward(t)
    <2>1. UNCHANGED refs BY <1>2 DEF ExpireBegin
    <2>2. CASE UNCHANGED sess BY <2>1, <2>2 DEF TokenForward
    <2>3. CASE sess[T].live /\ sess' = [sess EXCEPT ![T].crypto = FALSE]
      <3>1. ASSUME NEW t \in Tokens PROVE sess'[t].live => sess[t].live
        <4>1. CASE t = T BY <2>3, <4>1
        <4>2. CASE t # T BY <1>0, <2>3, <4>2
        <4> QED BY <4>1, <4>2
      <3> QED BY <2>1, <3>1 DEF TokenForward
    <2> QED BY <1>2, <2>2, <2>3 DEF ExpireBegin
  <1> QED BY <1>1, <1>2

LEMMA SealForward ==
    ASSUME TypeOK, SealLease, UNCHANGED sess
    PROVE  \A t \in Tokens : TokenForward(t)
  BY SealShape DEF SealedAt, TokenForward

LEMMA CondemnForward ==
    ASSUME TypeOK, NEW c \in Clients, Condemn(c)
    PROVE  \A t \in Tokens : TokenForward(t)
  <1>1. ASSUME NEW t \in Tokens PROVE TokenForward(t)
    <2>1. CondemnedAt(t) /\ UNCHANGED sess BY CondemnShape DEF Condemn
    <2> QED BY <2>1 DEF CondemnedAt, TokenForward, Known
  <1> QED BY <1>1

LEMMA ReapForward ==
    ASSUME Reap
    PROVE  \A t \in Tokens : TokenForward(t)
  BY DEF Reap, TokenForward, NoSession

LEMMA TokensForward ==
    ASSUME SessionInv, Next
    PROVE  \A t \in Tokens : TokenForward(t)
  <1>0. TypeOK BY DEF SessionInv
  <1>1. ASSUME UNCHANGED <<refs, sess>> PROVE \A t \in Tokens : TokenForward(t)
    BY <1>1 DEF TokenForward
  <1>2. ASSUME NEW c \in Clients, Start(c) PROVE \A t \in Tokens : TokenForward(t)
    BY <1>0, <1>2, PruneForward DEF Start, Arrive, Prune
  <1>3. ASSUME NEW c \in Clients, Terminalize(c) PROVE \A t \in Tokens : TokenForward(t)
    <2>1. UNCHANGED sess BY <1>3 DEF Terminalize
    <2>2. SealLease \/ UNCHANGED refs BY <1>3 DEF Terminalize
    <2> QED BY <1>0, <1>1, <2>1, <2>2, SealForward
  <1>4. ASSUME NEW c \in Clients, Blocked(c) \/ OpenMatch(c) \/ FinishTerminal(c) \/ CloseLease(c)
        PROVE  UNCHANGED <<refs, sess>>
    BY <1>4 DEF Blocked, OpenMatch, FinishTerminal, CloseLease
  <1>5. ASSUME NEW c \in Clients, Serve(c) PROVE \A t \in Tokens : TokenForward(t)
    BY <1>1, <1>3, <1>4, <1>5, OpenForward, BindForward, FinishForward DEF Serve
  <1>6. CASE MaintainCollect BY <1>0, <1>6, PruneForward DEF MaintainCollect, Prune
  <1>7. CASE MaintainSeal
    <2>1. UNCHANGED sess BY <1>7 DEF MaintainSeal
    <2>2. SealLease \/ UNCHANGED refs BY <1>7 DEF MaintainSeal
    <2> QED BY <1>0, <1>1, <2>1, <2>2, SealForward
  <1>8. CASE MaintainDone \/ HeartbeatLost \/ Tick
    BY <1>1, <1>8 DEF MaintainDone, HeartbeatLost, Tick
  <1>9. CASE Maintain
    BY <1>6, <1>7, <1>8, <1>9, ExpireForward DEF Maintain
  <1> QED BY <1>0, <1>2, <1>5, <1>8, <1>9, MintForward, CondemnForward, ReapForward DEF Next

\* The session of c's token ended under the id c asks for, and its tombstone lives.
TombstoneLives(c) ==
    LET t == client[c].token IN
    /\ client[c].step \in {"match", "exchange", "close"}
    /\ client[c].id = refs[t].id
    /\ ended[t] <= now /\ now < ended[t] + SessionIdle

\* What a step may answer one request.
ReplyHonest(c) ==
    /\ client[c].step # "idle" /\ client'[c].reply = "ok" => lease.state = "Ready"
    /\ TombstoneLives(c) => client'[c].reply # "selection"

LEMMA WaitingHonest ==
    ASSUME SessionInv, NEW c \in Clients, client'[c] = client[c] \/ client'[c].reply = "none"
    PROVE  ReplyHonest(c)
  BY DEF SessionInv, RequestSound, ReplyHonest, TombstoneLives

\* With a living tombstone the token is known or stale, and its session is gone.
LEMMA LivingTombstone ==
    ASSUME SessionInv, NEW c \in Clients, TombstoneLives(c), NEW T \in Tokens, T = client[c].token
    PROVE  /\ lease.state = "Ready" => refs[T].state = "Consumed" /\ ~sess[T].live
           /\ refs[T].id = client[c].id
           /\ ~Known(T) => stale[T] # 0
  <1>1. /\ SessionBound(T) /\ TombstoneKept(T) /\ RequestSound(c)
        /\ now \in Time /\ ended[T] \in Nat /\ stale[T] \in Nat /\ SessionIdle \in Nat /\ SessionIdle > 0
    BY TimeFacts DEF SessionInv, TypeOK, Never
  <1>2. ended[T] <= now /\ now < ended[T] + SessionIdle /\ refs[T].id = client[c].id /\ refs[T].id # NoId
    BY <1>1 DEF TombstoneLives, RequestSound
  <1>3. ended[T] # Never BY <1>1, <1>2, TimeAssumption DEF Never, Time
  <1> QED BY <1>1, <1>2, <1>3 DEF SessionBound, TombstoneKept, Known

LEMMA MatchHonest ==
    ASSUME SessionInv, NEW c \in Clients, NEW T \in Tokens, T = client[c].token, NEW b \in BOOLEAN,
           Admitted(c), Reply(c, Matched(T, client[c].id, b)), Matched(T, client[c].id, b) # "slot"
    PROVE  ReplyHonest(c)
  <1>1. Matched(T, client[c].id, b) \in {"stale", "selection"}
    BY DEF Matched
  <1>2. client'[c].reply = Matched(T, client[c].id, b)
    BY <1>1, AnswerShape DEF Reply, Replies, SessionInv
  <1>3. ASSUME TombstoneLives(c) PROVE Matched(T, client[c].id, b) = "stale"
    <2>1. refs[T].state = "Consumed" /\ ~sess[T].live /\ refs[T].id = client[c].id
      BY <1>3, LivingTombstone DEF Admitted
    <2> QED BY <2>1 DEF Matched
  <1> QED BY <1>1, <1>2, <1>3 DEF ReplyHonest

LEMMA StaleHonest ==
    ASSUME SessionInv, NEW c \in Clients, NEW reply \in Replies, NEW told \in BOOLEAN, Answer(c, reply, told),
           reply # "selection", reply = "ok" => lease.state = "Ready"
    PROVE  ReplyHonest(c)
  BY AnswerShape DEF SessionInv, ReplyHonest

LEMMA BlockedHonest ==
    ASSUME SessionInv, NEW c \in Clients, Blocked(c) \/ CloseLease(c)
    PROVE  ReplyHonest(c)
  <1>0. TypeOK /\ RequestSound(c) BY DEF SessionInv
  <1>1. PICK T \in Tokens : T = client[c].token
    BY DEF SessionInv, TypeOK, Requests
  <1>2. client[c].reply = "none" BY <1>0 DEF Blocked, CloseLease, RequestSound
  <1>3. CASE ~Known(T) /\ Unknown(c, T)
    <2>1. client'[c].reply = IF stale[T] # 0 THEN "stale" ELSE "selection"
      BY <1>0, <1>3, AnswerShape DEF Unknown, Reply, Replies
    <2>2. TombstoneLives(c) => stale[T] # 0 BY <1>1, <1>3, LivingTombstone
    <2> QED BY <2>1, <2>2 DEF ReplyHonest
  <1>4. CASE Goto(c, "sealing") \/ Goto(c, "releasing")
    <2>1. client'[c].reply = "none" BY <1>0, <1>2, <1>4, GotoShape DEF Moved
    <2> QED BY <2>1, WaitingHonest
  <1>5. CASE Reply(c, "stale") BY <1>5, StaleHonest DEF Reply, Replies
  <1> QED BY <1>1, <1>3, <1>4, <1>5 DEF Blocked, CloseLease

LEMMA BeginHonest ==
    ASSUME SessionInv, NEW c \in Clients,
           OpenMatch(c) \/ OpenBegin(c) \/ ExchangeBegin(c) \/ CloseBegin(c)
    PROVE  ReplyHonest(c)
  <1>0. TypeOK /\ RequestSound(c) BY DEF SessionInv
  <1>1. PICK T \in Tokens : T = client[c].token
    BY DEF SessionInv, TypeOK, Requests
  <1>2. Admitted(c) /\ lease.state = "Ready" /\ client[c].reply = "none"
    BY <1>0 DEF OpenMatch, OpenBegin, ExchangeBegin, CloseBegin, Admitted, RequestSound
  <1>3. CASE \E b \in BOOLEAN : Matched(T, client[c].id, b) # "slot" /\ Reply(c, Matched(T, client[c].id, b))
    BY <1>1, <1>2, <1>3, MatchHonest
  <1>4. CASE Reply(c, "ok") \/ Reply(c, "stale")
    BY <1>2, <1>4, StaleHonest DEF Reply, Replies
  <1>5. CASE Goto(c, "opening") \/ Goto(c, "exchanging") \/ Goto(c, "closing")
    <2>1. client'[c].reply = "none" BY <1>0, <1>2, <1>5, GotoShape DEF Moved
    <2> QED BY <2>1, WaitingHonest
  <1> QED BY <1>1, <1>3, <1>4, <1>5 DEF OpenMatch, OpenBegin, ExchangeBegin, CloseBegin

LEMMA FinishHonest ==
    ASSUME SessionInv, NEW c \in Clients,
           OpenFinish(c) \/ OpenError(c) \/ ExchangeFinish(c) \/ CloseFinish(c) \/ Terminalize(c)
    PROVE  ReplyHonest(c)
  <1>1. PICK reply \in Replies, told \in BOOLEAN :
           Answer(c, reply, told) /\ reply # "selection" /\ (reply = "ok" => lease.state = "Ready")
    <2>1. client[c].told \in BOOLEAN BY DEF SessionInv, TypeOK, Requests
    <2>2. CASE OpenFinish(c) \/ OpenError(c) BY <2>2 DEF OpenFinish, OpenError, Reply, Replies
    <2>3. CASE ExchangeFinish(c) BY <2>3 DEF ExchangeFinish, StillUsable, Reply, Replies
    <2>4. CASE CloseFinish(c) BY <2>4 DEF CloseFinish, Reply, Replies
    <2>5. CASE Terminalize(c) BY <2>1, <2>5 DEF Terminalize, Replies
    <2> QED BY <2>2, <2>3, <2>4, <2>5
  <1> QED BY <1>1, StaleHonest

LEMMA RepliesHonest ==
    ASSUME SessionInv, Next
    PROVE  \A c \in Clients : ReplyHonest(c)
  <1>0. TypeOK /\ client \in [Clients -> Requests] BY DEF SessionInv, TypeOK
  <1>1. ASSUME NEW c \in Clients, Serve(c) PROVE \A d \in Clients : ReplyHonest(d)
    <2>1. \A d \in Clients : d # c => client'[d] = client[d]
      BY <1>0, <1>1 DEF Serve, Blocked, OpenMatch, OpenBegin, ExchangeBegin, CloseBegin,
         FinishTerminal,
         OpenFinish, OpenError, ExchangeFinish, CloseFinish, CloseLease, Terminalize,
         Unknown, Reply, Answer, Goto
    <2>2. \A d \in Clients : d # c => ReplyHonest(d) BY <2>1, WaitingHonest
    <2>3. ASSUME FinishTerminal(c) PROVE client'[c].reply = "none"
      <3>1. client[c].reply = "none" /\ client[c] \in Requests
        BY <1>0, <2>3 DEF SessionInv, FinishTerminal, RequestSound
      <3> QED BY <1>0, <2>3, <3>1 DEF FinishTerminal, Requests
    <2>4. ReplyHonest(c)
      BY <1>1, <2>3, BlockedHonest, BeginHonest, FinishHonest, WaitingHonest DEF Serve
    <2> QED BY <2>2, <2>4
  <1>2. ASSUME NEW c \in Clients, Start(c) PROVE \A d \in Clients : ReplyHonest(d)
    <2>1. \A d \in Clients : client'[d] = client[d] \/ client'[d].reply = "none"
      BY <1>0, <1>2 DEF Start, Arrive
    <2> QED BY <2>1, WaitingHonest
  <1>3. ASSUME UNCHANGED client PROVE \A d \in Clients : ReplyHonest(d)
    BY <1>3, WaitingHonest
  <1>4. ASSUME NEW c \in Clients, Condemn(c) PROVE \A d \in Clients : ReplyHonest(d)
    <2>1. \A d \in Clients : client'[d] = client[d] \/ client'[d].reply = "none"
      BY <1>0, <1>4, CondemnShape DEF OthersWait
    <2> QED BY <2>1, WaitingHonest
  <1> QED BY <1>1, <1>2, <1>3, <1>4 DEF Next, Mint, Reap, Maintain, MaintainCollect, MaintainSeal,
             ExpireBegin, ExpireFinish, MaintainDone, HeartbeatLost, Tick

\* No step of a client, of maintenance or of the clock redeems a reference
\* twice, rebinds a session, reports success under a lease that is closed, or
\* sends the client of a session that was made a tombstone back to Target
\* selection before it has run out.
THEOREM SessionHistoryHolds == Spec => SessionHistory
  <1>1. Init => SessionInv BY SessionInit
  <1>2. SessionInv /\ [Next]_vars => SessionInv' BY SessionNext
  <1>3. ASSUME SessionInv, SessionInv', Next
        PROVE  RedeemOnce /\ BindingStable /\ NoSuccessAfterSeal /\ TombstoneHonoured
    <2>1. RedeemOnce BY <1>3, TokensForward DEF RedeemOnce, TokenForward
    <2>2. BindingStable
      <3>1. \A t \in Tokens : refs[t].id # NoId => refs'[t].id = refs[t].id
        BY <1>3, TokensForward DEF TokenForward
      <3>2. \A t \in Tokens : sess'[t].live /\ refs'[t].state = "Consumed" => sess'[t].id = refs'[t].id
        BY <1>3 DEF SessionInv, SessionBound
      <3> QED BY <3>1, <3>2 DEF BindingStable
    <2>3. NoSuccessAfterSeal BY <1>3, RepliesHonest DEF NoSuccessAfterSeal, ReplyHonest
    <2>4. TombstoneHonoured BY <1>3, RepliesHonest DEF TombstoneHonoured, ReplyHonest,
                               TombstoneLives
    <2> QED BY <2>1, <2>2, <2>3, <2>4
  <1>4. SessionInv /\ SessionInv' /\ [Next]_vars
        => [RedeemOnce /\ BindingStable /\ NoSuccessAfterSeal /\ TombstoneHonoured]_vars
    BY <1>3
  <1> QED BY <1>1, <1>2, <1>4, PTL DEF Spec, SessionHistory
=============================================================================
